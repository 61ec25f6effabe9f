------------------------------- MODULE CsrfToken -------------------------------
(* The CSRF token of the web pages. The token lives in a cookie, which the tabs of a *)
(* browser share; every page has a copy of its own, in two meta tags and in the      *)
(* hidden fields of its forms, which it replaces with the token of every answer. The *)
(* server keeps no token: a write is accepted if the token sent along is the cookie's.*)
EXTENDS Naturals, FiniteSets

CONSTANTS
  Tabs, None,
  MaxTokens,     \* bound: tokens generated
  MaxRequests    \* bound: requests sent

VARIABLES
  rotating,      \* csrf_regenerate
  cookie,        \* the token in the cookie, 0 when there is none
  timeUp,        \* csrf_expire seconds have passed since _csrf_token_time
  meta,          \* [Tabs -> the token the page holds]
  tokens,        \* tokens generated
  requests,      \* requests in flight
  posted,        \* requests sent
  last           \* tab that had the last answer, if no other request was under way

vars == <<rotating, cookie, timeUp, meta, tokens, requests, posted, last>>

\* getCsrfToken() and resolveToken(): the meta tag comes before everything else.
TokenOf(t) == meta[t]

\* A page asks, or a form is sent: the browser adds the cookie, the page its token.
\* A request is calm if it is sent by the tab that had the last answer.
Send(t, write) ==
  /\ posted < MaxRequests /\ posted' = posted + 1
  /\ requests' = {[q EXCEPT !.single = FALSE] : q \in requests} \cup
       {[id |-> posted + 1, tab |-> t, write |-> write, token |-> TokenOf(t), cookie |-> cookie,
         single |-> requests = {}, calm |-> last = t, reply |-> None]}
  /\ UNCHANGED <<rotating, cookie, timeUp, meta, tokens, last>>

\* validateToken()
Valid(q) == q.cookie # 0 /\ q.token = q.cookie /\ ~timeUp

\* VerifyCsrfToken: the header names the cookie's token, or a new one when there is no
\* cookie, before the token is checked; a refusal replaces both by a fresh token, and
\* rotation replaces the cookie but not the header that was sent.
Handle(q) ==
  /\ q \in requests /\ q.reply = None
  /\ LET current == IF q.cookie # 0 THEN q.cookie ELSE tokens + 1
         generated == IF q.cookie # 0 THEN tokens ELSE tokens + 1
         Answer(ok, header, set) ==
           requests' = (requests \ {q}) \cup {[q EXCEPT !.reply = [ok |-> ok, header |-> header, set |-> set]]}
     IN \/ /\ ~q.write \/ (Valid(q) /\ ~rotating)
           /\ Answer(TRUE, current, IF q.cookie # 0 THEN 0 ELSE current)
           /\ tokens' = generated /\ timeUp' = (timeUp /\ q.cookie # 0)
        \/ /\ q.write /\ Valid(q) /\ rotating
           /\ Answer(TRUE, current, tokens + 1)
           /\ tokens' = tokens + 1 /\ UNCHANGED timeUp
        \/ /\ q.write /\ ~Valid(q)
           /\ Answer(FALSE, generated + 1, generated + 1)
           /\ tokens' = generated + 1 /\ timeUp' = FALSE
  /\ tokens' <= MaxTokens
  /\ UNCHANGED <<rotating, cookie, meta, posted, last>>

\* setCsrfToken(), from the interceptor of axios or ajaxComplete of jQuery.
SetToken(t, token) == meta' = [meta EXCEPT ![t] = token]

Receive(q) ==
  /\ q \in requests /\ q.reply # None
  /\ requests' = requests \ {q}
  /\ cookie' = IF q.reply.set # 0 THEN q.reply.set ELSE cookie
  /\ SetToken(q.tab, q.reply.header)
  /\ last' = IF q.single THEN q.tab ELSE None
  /\ UNCHANGED <<rotating, timeUp, tokens, posted>>

\* csrf_expire seconds after the token was generated (no answer takes that long) the
\* browser drops the cookie.
Expire ==
  /\ ~timeUp /\ cookie # 0 /\ \A q \in requests : q.reply = None
  /\ timeUp' = TRUE /\ cookie' = 0 /\ last' = None
  /\ requests' = {[q EXCEPT !.calm = FALSE, !.single = FALSE] : q \in requests}
  /\ UNCHANGED <<rotating, meta, tokens, posted>>

\* The site is deployed with csrf_regenerate.
Rotate ==
  /\ posted = 0 /\ ~rotating /\ rotating' = TRUE
  /\ UNCHANGED <<cookie, timeUp, meta, tokens, requests, posted, last>>

Init ==
  /\ rotating = FALSE /\ cookie = 1 /\ timeUp = FALSE /\ meta = [t \in Tabs |-> 1] /\ tokens = 1
  /\ requests = {} /\ posted = 0 /\ last = None

Next ==
  \/ Rotate \/ Expire
  \/ \E t \in Tabs, write \in BOOLEAN : Send(t, write)
  \/ \E q \in requests : Handle(q) \/ Receive(q)

Spec == Init /\ [][Next]_vars

(* ------------------------------ properties ------------------------------- *)
TypeOK ==
  /\ {cookie, tokens} \subseteq 0..MaxTokens /\ meta \in [Tabs -> 1..MaxTokens]
  /\ {rotating, timeUp} \subseteq BOOLEAN /\ last \in Tabs \cup {None}

\* Whatever happened before (an expired token, a refusal, a new token in another tab),
\* a tab that has had an answer, with no other request of the browser under way, holds
\* the cookie's token: its next write is not refused. Rotation breaks this, because the
\* header that the page reads was sent before the token was replaced.
AnswerRenewsThePage ==
  ~rotating => \A q \in requests : q.write /\ q.calm /\ q.reply # None => q.reply.ok
===============================================================================
