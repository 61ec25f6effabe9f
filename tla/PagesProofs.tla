------------------------------- MODULE PagesProofs -------------------------------
(***************************************************************************)
(* Forms are saved once at a time and their buttons come back with their   *)
(* text, and an answer leaves the page with a token its next write is      *)
(* accepted with, for any overlays and forms, tabs, openings, requests,    *)
(* tokens and failures.                                                    *)
(*                                                                         *)
(* Rows of a server table that are edited in place are those of the        *)
(* server, with its counters, once every answer is in, for any rows, page  *)
(* length, requests, calls and failures.                                   *)
(*                                                                         *)
(* A cursor table shows the page its status names, and Next and Previous   *)
(* lead to the one after and the one before, for any number of pages,      *)
(* builds, requests, edits and lost answers.                               *)
(***************************************************************************)
EXTENDS MCPages, FiniteSetTheorems, SequenceTheorems, TLAPS


-----------------------------------------------------------------------------
(* FORMS                                                                     *)

Forms_ == Sending!AllForms
Buttons == Forms_ \cup Tools

Flight == [id : 1..sends, el : Buttons, text : {"own", "busy"}, progress : BOOLEAN,
           reply : {None, "ok", "refused", "none"}, saved : 0..opens]

\* What the timers are for: only printing and exporting leave their button to one.
Timer == {t \in [do : Sending!Timers, id : 1..sends, el : Buttons, text : {"own", "busy"},
                 opening : 0..opens] :
            /\ t.do = "give back" => t.el \in {"print", "export"} /\ t.text = "own"
            /\ t.do = "printed" => t.el = "print"}

\* Forms, requests and timers are numbered, and are those of the views.
FormsAreNumbered ==
  /\ content \in [Shells -> Forms_ \cup {None}]
  /\ opens \in 0..MaxOpens /\ sends \in 0..MaxSends /\ failures \in Nat /\ mixed \in BOOLEAN
  /\ \A s \in Shells : opening[s] <= opens
  /\ flights \subseteq Flight /\ pending \subseteq Timer

\* The form whose confirmation is asked is in a view and can still be sent.
AskedCanBeSent == dialog # None => dialog \in Sending!Present \ disabled

\* Unless forms were mixed up, one is sent at a time, and its button waits as long as the
\* form was not opened again.
SentWaits ==
  ~mixed =>
    /\ \A p, q \in flights : p.el \in Forms_ /\ q.el \in Forms_ => p = q
    /\ \A q \in flights :
         q.el \in Forms_ /\ q.saved = opening[Sending!HostOf(q.el)] => q.el \in disabled

\* Unless forms were mixed up, a button that shows that it waits is disabled, will get its
\* own text back and has something to wait for; for a print the first and last are not so.
BusyHasACause ==
  ~mixed =>
    /\ \A q \in flights : q.text = "own"
    /\ \A e \in busy \ {"print"} :
         /\ e \in disabled /\ e # "upload"
         /\ \/ e \in stranded
            \/ \E q \in flights : q.el = e
            \/ \E t \in pending : t.el = e /\ t.do = "give back"

\* Unless something failed, what fills the bar empties it.
BarHasACause ==
  failures = 0 /\ bar # 0 =>
    \/ \E t \in pending : t.do = "empty bar"
    \/ \E q \in flights : q.el = "upload" /\ ~q.progress /\ q.reply = None

FormsInv ==
  /\ Sending!TypeOK /\ FormsAreNumbered /\ AskedCanBeSent
  /\ SentWaits /\ BusyHasACause /\ BarHasACause

-----------------------------------------------------------------------------
(* Forms and buttons.                                                        *)

LEMMA HostIsItsShell ==
  ASSUME NEW s \in Shells, NEW f \in FormsOf[s] PROVE f \in Forms_ /\ Sending!HostOf(f) = s
  BY PagesAssumption DEF Sending!HostOf, Forms_, Sending!AllForms

LEMMA HostsHold ==
  ASSUME NEW f \in Forms_ PROVE Sending!HostOf(f) \in Shells /\ f \in FormsOf[Sending!HostOf(f)]
  BY HostIsItsShell DEF Forms_, Sending!AllForms

LEMMA FormsAreNoTools ==
  /\ Forms_ \cap Tools = {} /\ None \notin Forms_
  /\ \A name \in {"login", "print", "export", "upload"} : name \notin Forms_
PROOF
<1>1. \A f \in Forms_ : f \notin {None, "login", "print", "export", "upload"}
  BY PagesAssumption DEF Forms_, Sending!AllForms
<1>2. Tools \subseteq {"login", "print", "export", "upload"}
  BY PagesAssumption
<1> QED BY <1>1, <1>2

LEMMA ToolsFindThemselves == \A e \in Tools : Sending!ById(e) = {e}
  BY DEF Sending!ById

LEMMA PresentAreForms == ASSUME FormsInv PROVE Sending!Present \subseteq Forms_
  BY DEF FormsInv, FormsAreNumbered, Sending!Present

LEMMA ButtonsAreFound == ASSUME FormsInv, NEW e \in Buttons PROVE Sending!ById(e) \subseteq Buttons
  BY PresentAreForms DEF Sending!ById, Buttons

LEMMA BoundsAreNumbers ==
  MaxOpens \in Nat /\ MaxSends \in Nat /\ MaxFailures \in Nat /\ 0 \in 0..MaxOpens /\ 0 \in 0..MaxSends
  BY PagesAssumption

\* What was a request or a timer stays one when more is opened and sent.
LEMMA RecordsStay ==
  ASSUME opens \in Nat, sends \in Nat, opens' \in Nat, sends' \in Nat,
         opens <= opens', sends <= sends'
  PROVE  Flight \subseteq Flight' /\ Timer \subseteq Timer'
PROOF
<1>1. 1..sends \subseteq 1..sends' /\ 0..opens \subseteq 0..opens'
  OBVIOUS
<1> QED BY <1>1 DEF Flight, Timer

LEMMA FormsInitIsSound == ASSUME Sending!Init PROVE FormsInv
PROOF
<1>1. Sending!TypeOK
  BY BoundsAreNumbers DEF Sending!Init, Sending!TypeOK
<1>2. FormsAreNumbered
  <2>1. content \in [Shells -> Forms_ \cup {None}] /\ \A s \in Shells : opening[s] = 0
    BY DEF Sending!Init
  <2>2. opens = 0 /\ sends = 0 /\ failures = 0 /\ mixed \in BOOLEAN /\ flights = {} /\ pending = {}
    BY DEF Sending!Init
  <2>3. \A s \in Shells : opening[s] <= opens
    BY <2>1, <2>2
  <2> QED BY <2>1, <2>2, <2>3, BoundsAreNumbers DEF FormsAreNumbered
<1>3. SentWaits /\ BusyHasACause /\ BarHasACause /\ AskedCanBeSent
  BY DEF Sending!Init, SentWaits, BusyHasACause, BarHasACause, AskedCanBeSent
<1> QED BY <1>1, <1>2, <1>3 DEF FormsInv

LEMMA FormsStutter == ASSUME FormsInv, UNCHANGED sendingVars PROVE FormsInv'
PROOF
<1>1. UNCHANGED <<content, opening, visible, opens, disabled, busy, dialog, sends, flights, failures,
                  pending, bar, mixed, stranded>>
  BY DEF sendingVars
<1>2. Flight' = Flight /\ Timer' = Timer
  BY <1>1 DEF Flight, Timer
<1>3. Sending!TypeOK' /\ FormsAreNumbered'
  BY <1>1, <1>2 DEF FormsInv, Sending!TypeOK, FormsAreNumbered
<1>4. SentWaits' /\ BusyHasACause' /\ BarHasACause' /\ AskedCanBeSent'
  BY <1>1 DEF FormsInv, SentWaits, BusyHasACause, BarHasACause, AskedCanBeSent, Sending!Present
<1> QED BY <1>3, <1>4 DEF FormsInv

-----------------------------------------------------------------------------
(* Overlays and dialogs.                                                     *)

LEMMA OpenKeeps ==
  ASSUME FormsInv, NEW s \in Shells, NEW f \in FormsOf[s], Sending!Open(s, f) PROVE FormsInv'
PROOF
<1>1. /\ dialog = None /\ opens < MaxOpens /\ opens' = opens + 1
      /\ content' = [content EXCEPT ![s] = f] /\ opening' = [opening EXCEPT ![s] = opens + 1]
      /\ visible' = visible \cup {s}
      /\ disabled' = disabled \ FormsOf[s] /\ busy' = busy \ FormsOf[s]
      /\ UNCHANGED <<dialog, sends, flights, failures, pending, bar, mixed, stranded>>
  BY DEF Sending!Open
<1>2. opens \in Nat /\ sends \in Nat /\ opens' \in 0..MaxOpens /\ opens <= opens'
  BY <1>1, BoundsAreNumbers DEF FormsInv, FormsAreNumbered
<1>3. Flight \subseteq Flight' /\ Timer \subseteq Timer'
  BY <1>1, <1>2, RecordsStay
<1>4. \A u \in Shells : content'[u] = IF u = s THEN f ELSE content[u]
  BY <1>1 DEF FormsInv, FormsAreNumbered
<1>5. \A u \in Shells : opening'[u] = IF u = s THEN opens' ELSE opening[u]
  BY <1>1 DEF FormsInv, Sending!TypeOK
<1>6. Sending!TypeOK'
  <2>1. opening' \in [Shells -> 0..MaxOpens]
    BY <1>1, <1>2 DEF FormsInv, Sending!TypeOK
  <2>2. \A u \in Shells : content'[u] \in FormsOf[u] \cup {None}
    BY <1>4 DEF FormsInv, Sending!TypeOK
  <2> QED BY <1>1, <2>1, <2>2 DEF FormsInv, Sending!TypeOK
<1>7. FormsAreNumbered'
  <2>1. content' \in [Shells -> Forms_ \cup {None}]
    BY <1>1, HostIsItsShell DEF FormsInv, FormsAreNumbered
  <2>2. \A u \in Shells : opening'[u] <= opens'
    <3>1. \A u \in Shells : opening[u] \in Nat /\ opening[u] <= opens
      BY BoundsAreNumbers DEF FormsInv, Sending!TypeOK, FormsAreNumbered
    <3> QED BY <1>2, <1>5, <3>1
  <2> QED BY <1>1, <1>2, <1>3, <2>1, <2>2 DEF FormsInv, FormsAreNumbered
<1>8. AskedCanBeSent'
  BY <1>1 DEF AskedCanBeSent
<1>9. SentWaits'
  <2>1. \A q \in flights : q.saved # opens'
    BY <1>1, <1>2 DEF FormsInv, FormsAreNumbered, Flight
  <2>2. \A q \in flights : q.el \in Forms_ /\ q.saved = opening'[Sending!HostOf(q.el)] =>
          q.saved = opening[Sending!HostOf(q.el)] /\ q.el \notin FormsOf[s]
    BY <1>5, <2>1, HostIsItsShell, HostsHold
  <2> QED BY <1>1, <2>2 DEF FormsInv, SentWaits
<1>10. BusyHasACause' /\ BarHasACause'
  BY <1>1 DEF FormsInv, BusyHasACause, BarHasACause
<1> QED BY <1>6, <1>7, <1>8, <1>9, <1>10 DEF FormsInv

\* Showing and hiding overlays disturbs nothing.
LEMMA VisibleKeeps ==
  ASSUME FormsInv, visible' \subseteq Shells,
         UNCHANGED <<content, opening, opens, disabled, busy, dialog, sends, flights, failures,
                     pending, bar, mixed, stranded>>
  PROVE  FormsInv'
PROOF
<1>1. Flight' = Flight /\ Timer' = Timer
  BY DEF Flight, Timer
<1>2. Sending!TypeOK' /\ FormsAreNumbered'
  BY <1>1 DEF FormsInv, Sending!TypeOK, FormsAreNumbered
<1>3. SentWaits' /\ BusyHasACause' /\ BarHasACause' /\ AskedCanBeSent'
  BY DEF FormsInv, SentWaits, BusyHasACause, BarHasACause, AskedCanBeSent, Sending!Present
<1> QED BY <1>2, <1>3 DEF FormsInv

LEMMA DismissKeeps == ASSUME FormsInv, NEW s \in Shells, Sending!Dismiss(s) PROVE FormsInv'
PROOF
<1>1. visible' \subseteq Shells
  BY DEF Sending!Dismiss, FormsInv, Sending!TypeOK
<1> QED BY <1>1, VisibleKeeps DEF Sending!Dismiss

\* Asking for the confirmation of a form that can be sent, or for none.
LEMMA DialogKeeps ==
  ASSUME FormsInv, dialog' # None => dialog' \in Sending!Present \ disabled,
         UNCHANGED <<content, opening, visible, opens, disabled, busy, sends, flights, failures,
                     pending, bar, mixed, stranded>>
  PROVE  FormsInv'
PROOF
<1>1. Flight' = Flight /\ Timer' = Timer /\ Sending!Present' = Sending!Present
  BY DEF Flight, Timer, Sending!Present
<1>2. dialog' \in Forms_ \cup {None}
  BY PresentAreForms
<1>3. Sending!TypeOK' /\ FormsAreNumbered'
  BY <1>1, <1>2 DEF FormsInv, Sending!TypeOK, FormsAreNumbered, Forms_
<1>4. SentWaits' /\ BusyHasACause' /\ BarHasACause' /\ AskedCanBeSent'
  BY <1>1 DEF FormsInv, SentWaits, BusyHasACause, BarHasACause, AskedCanBeSent
<1> QED BY <1>3, <1>4 DEF FormsInv

LEMMA AskKeeps == ASSUME FormsInv, NEW f \in Forms_, Sending!Ask(f) PROVE FormsInv'
  BY DialogKeeps DEF Sending!Ask

LEMMA CancelKeeps == ASSUME FormsInv, Sending!Cancel PROVE FormsInv'
  BY DialogKeeps DEF Sending!Cancel

-----------------------------------------------------------------------------
(* Requests are sent.                                                        *)

LEMMA SentIsNumbered ==
  ASSUME FormsInv, NEW e \in Buttons, NEW text \in {"own", "busy"}, Sending!Send(e, text),
         opens' = opens
  PROVE  /\ \E k \in Flight' :
              /\ flights' = flights \cup {k} /\ k.el = e /\ k.text = text
              /\ e \in Forms_ => k.saved = opening[Sending!HostOf(e)]
         /\ sends' \in 0..MaxSends /\ flights \subseteq Flight' /\ pending \subseteq Timer'
         /\ 0..sends \subseteq 0..sends'
PROOF
<1> DEFINE saved == IF e \in Tools THEN 0 ELSE opening[Sending!HostOf(e)]
           k == [id |-> sends + 1, el |-> e, text |-> text, progress |-> FALSE, reply |-> None,
                 saved |-> saved]
<1>1. sends < MaxSends /\ sends' = sends + 1 /\ flights' = flights \cup {k}
  BY DEF Sending!Send
<1>2. sends \in Nat /\ opens \in Nat /\ MaxSends \in Nat
  BY BoundsAreNumbers DEF FormsInv, FormsAreNumbered
<1>3. sends' \in 0..MaxSends /\ sends + 1 \in 1..sends' /\ sends <= sends' /\ 0..sends \subseteq 0..sends'
  BY <1>1, <1>2
<1>4. saved \in 0..opens'
  <2>1. \A s \in Shells : opening[s] \in Nat /\ opening[s] <= opens
    BY BoundsAreNumbers DEF FormsInv, Sending!TypeOK, FormsAreNumbered
  <2>2. CASE e \in Tools
    BY <1>2, <2>2
  <2>3. CASE e \notin Tools
    <3>1. Sending!HostOf(e) \in Shells
      BY <2>3, HostsHold DEF Buttons
    <3> QED BY <1>2, <2>1, <2>3, <3>1
  <2> QED BY <2>2, <2>3
<1>5. k \in Flight'
  <2> HIDE DEF saved
  <2>1. Buttons' = Buttons /\ Forms_' = Forms_
    BY DEF Buttons, Forms_
  <2> QED BY <1>3, <1>4 DEF Flight
<1>6. flights \subseteq Flight' /\ pending \subseteq Timer'
  <2>1. Flight \subseteq Flight' /\ Timer \subseteq Timer'
    BY <1>2, <1>3, RecordsStay
  <2> QED BY <2>1 DEF FormsInv, FormsAreNumbered
<1>7. k.el = e /\ k.text = text /\ (e \in Forms_ => k.saved = opening[Sending!HostOf(e)])
  BY FormsAreNoTools
<1> HIDE DEF k
<1> QED BY <1>1, <1>3, <1>5, <1>6, <1>7

LEMMA ConfirmKeeps == ASSUME FormsInv, Sending!Confirm PROVE FormsInv'
PROOF
<1> DEFINE found == Sending!ById(dialog)
<1>1. /\ dialog # None /\ dialog' = None /\ Sending!Send(dialog, Sending!TextOf(dialog))
      /\ disabled' = disabled \cup found /\ busy' = busy \cup found
      /\ UNCHANGED <<content, opening, visible, opens, failures, pending, bar, stranded>>
  BY DEF Sending!Confirm, Sending!LoadingBtn
<1>2. mixed' = (mixed \/ found # {dialog} \/ \E q \in flights :
        q.el \in Forms_ /\ (q.el # dialog \/ q.saved # opening[Sending!HostOf(dialog)]))
  BY DEF Sending!Confirm, Forms_
<1>3. mixed' \in BOOLEAN
  BY <1>2 DEF FormsInv, FormsAreNumbered
<1>4. dialog \in Forms_ /\ dialog \in Buttons /\ dialog \notin disabled
  BY <1>1, PresentAreForms DEF FormsInv, AskedCanBeSent, Buttons
<1>5. found \subseteq Buttons
  BY <1>4, ButtonsAreFound
<1>6. Sending!TextOf(dialog) \in {"own", "busy"}
  BY DEF Sending!TextOf
<1>7. PICK k \in Flight' :
        /\ flights' = flights \cup {k} /\ k.el = dialog /\ k.text = Sending!TextOf(dialog)
        /\ k.saved = opening[Sending!HostOf(dialog)]
  BY <1>1, <1>4, <1>6, SentIsNumbered
<1>8. sends' \in 0..MaxSends /\ flights \subseteq Flight' /\ pending \subseteq Timer'
  BY <1>1, <1>4, <1>6, SentIsNumbered
<1>9. Sending!TypeOK'
  BY <1>1, <1>5 DEF FormsInv, Sending!TypeOK, Buttons, Forms_
<1>10. FormsAreNumbered'
  BY <1>1, <1>3, <1>7, <1>8 DEF FormsInv, FormsAreNumbered
<1>11. AskedCanBeSent'
  BY <1>1 DEF AskedCanBeSent
<1>12. ASSUME ~mixed' PROVE ~mixed /\ found = {dialog} /\ \A q \in flights : q.el \notin Forms_
  <2>1. ~mixed /\ found = {dialog}
    BY <1>2, <1>12
  <2>2. ASSUME NEW q \in flights, q.el \in Forms_ PROVE FALSE
    <3>1. q.el = dialog /\ q.saved = opening[Sending!HostOf(dialog)]
      BY <1>2, <1>12, <2>2
    <3> QED BY <1>4, <2>1, <2>2, <3>1 DEF FormsInv, SentWaits
  <2> QED BY <2>1, <2>2
<1>13. SentWaits'
  <2> SUFFICES ASSUME ~mixed'
               PROVE  /\ \A p, q \in flights' : p.el \in Forms_ /\ q.el \in Forms_ => p = q
                      /\ \A q \in flights' :
                           q.el \in Forms_ /\ q.saved = opening'[Sending!HostOf(q.el)] => q.el \in disabled'
    BY DEF SentWaits, Forms_
  <2>1. \A q \in flights' : q.el \in Forms_ => q = k
    BY <1>7, <1>12
  <2> QED BY <1>1, <1>7, <1>12, <2>1
<1>14. BusyHasACause'
  <2> SUFFICES ASSUME ~mixed'
               PROVE  /\ \A q \in flights' : q.text = "own"
                      /\ \A e \in busy' \ {"print"} :
                           /\ e \in disabled' /\ e # "upload"
                           /\ \/ e \in stranded'
                              \/ \E q \in flights' : q.el = e
                              \/ \E t \in pending' : t.el = e /\ t.do = "give back"
    BY DEF BusyHasACause
  <2>1. ~mixed /\ found = {dialog}
    BY <1>12
  <2>2. dialog \notin {"print", "upload"}
    BY <1>4, FormsAreNoTools
  <2>3. dialog \notin busy
    BY <1>4, <2>1, <2>2 DEF FormsInv, BusyHasACause
  <2>4. Sending!TextOf(dialog) = "own"
    BY <2>1, <2>3 DEF Sending!TextOf
  <2>5. \A q \in flights' : q.text = "own"
    BY <1>7, <2>1, <2>4 DEF FormsInv, BusyHasACause
  <2>6. \A e \in busy' : e \in busy \/ e = dialog
    BY <1>1, <2>1
  <2>7. \E q \in flights' : q.el = dialog
    BY <1>7
  <2>8. flights \subseteq flights'
    BY <1>7
  <2> HIDE DEF found
  <2>9. dialog \in disabled' /\ disabled \subseteq disabled'
    BY <1>1, <2>1
  <2> QED BY <1>1, <2>1, <2>2, <2>5, <2>6, <2>7, <2>8, <2>9 DEF FormsInv, BusyHasACause
<1>15. BarHasACause'
  BY <1>1, <1>7 DEF FormsInv, BarHasACause
<1> QED BY <1>9, <1>10, <1>11, <1>13, <1>14, <1>15 DEF FormsInv

LEMMA UseKeeps == ASSUME FormsInv, NEW tool \in Tools, Sending!Use(tool) PROVE FormsInv'
PROOF
<1> DEFINE text == IF tool = "login" THEN Sending!TextOf(tool) ELSE "own"
<1>1. /\ dialog = None /\ tool \notin disabled /\ Sending!Send(tool, text)
      /\ UNCHANGED <<content, opening, visible, opens, dialog, failures, pending, bar, mixed, stranded>>
  BY DEF Sending!Use
<1>2. \/ tool = "upload" /\ disabled' = disabled /\ busy' = busy
      \/ tool # "upload" /\ disabled' = disabled \cup {tool} /\ busy' = busy \cup {tool}
  BY ToolsFindThemselves DEF Sending!Use, Sending!LoadingBtn
<1>3. tool \in Buttons /\ tool \notin Forms_
  BY FormsAreNoTools DEF Buttons
<1>4. text \in {"own", "busy"}
  BY DEF Sending!TextOf
<1> HIDE DEF text
<1>5. PICK k \in Flight' : flights' = flights \cup {k} /\ k.el = tool /\ k.text = text
  BY <1>1, <1>3, <1>4, SentIsNumbered
<1>6. sends' \in 0..MaxSends /\ flights \subseteq Flight' /\ pending \subseteq Timer'
  BY <1>1, <1>3, <1>4, SentIsNumbered
<1>7. Sending!TypeOK'
  BY <1>1, <1>2 DEF FormsInv, Sending!TypeOK
<1>8. FormsAreNumbered'
  BY <1>1, <1>5, <1>6 DEF FormsInv, FormsAreNumbered
<1>9. AskedCanBeSent'
  BY <1>1 DEF AskedCanBeSent
<1>10. SentWaits'
  <2>1. \A q \in flights' : q.el \in Forms_ => q \in flights
    BY <1>3, <1>5
  <2>2. disabled \subseteq disabled'
    BY <1>2
  <2> QED BY <1>1, <2>1, <2>2 DEF FormsInv, SentWaits, Forms_
<1>11. BusyHasACause'
  <2> SUFFICES ASSUME ~mixed'
               PROVE  /\ \A q \in flights' : q.text = "own"
                      /\ \A e \in busy' \ {"print"} :
                           /\ e \in disabled' /\ e # "upload"
                           /\ \/ e \in stranded'
                              \/ \E q \in flights' : q.el = e
                              \/ \E t \in pending' : t.el = e /\ t.do = "give back"
    BY DEF BusyHasACause
  <2>1. ~mixed
    BY <1>1
  <2>2. tool = "login" => tool \notin busy
    BY <1>1, <2>1 DEF FormsInv, BusyHasACause
  <2>3. text = "own"
    BY <2>2, ToolsFindThemselves DEF text, Sending!TextOf
  <2>4. \A q \in flights' : q.text = "own"
    BY <1>5, <2>1, <2>3 DEF FormsInv, BusyHasACause
  <2>5. \A e \in busy' : e \in busy \/ (e = tool /\ e \in disabled' /\ e # "upload")
    BY <1>2
  <2>6. disabled \subseteq disabled' /\ flights \subseteq flights' /\ \E q \in flights' : q.el = tool
    BY <1>2, <1>5
  <2> QED BY <1>1, <2>1, <2>4, <2>5, <2>6 DEF FormsInv, BusyHasACause
<1>12. BarHasACause'
  BY <1>1, <1>5 DEF FormsInv, BarHasACause
<1> QED BY <1>7, <1>8, <1>9, <1>10, <1>11, <1>12 DEF FormsInv

-----------------------------------------------------------------------------
(* Requests are under way.                                                   *)

\* A request stays the request it was, however far it gets; timers may be added.
LEMMA FlightGoesOn ==
  ASSUME FormsInv, NEW q \in flights, NEW k \in Flight, k.el = q.el, k.text = q.text, k.saved = q.saved,
         flights' = (flights \ {q}) \cup {k}, pending \subseteq pending', pending' \subseteq Timer,
         bar' \in 0..MaxSends, failures' \in Nat,
         UNCHANGED <<content, opening, visible, opens, disabled, busy, dialog, sends, mixed, stranded>>,
         BarHasACause'
  PROVE  FormsInv'
PROOF
<1>1. Flight' = Flight /\ Timer' = Timer /\ Sending!Present' = Sending!Present
  BY DEF Flight, Timer, Sending!Present
<1>2. \A p \in flights' : p = k \/ (p \in flights /\ p # q)
  OBVIOUS
<1>3. Sending!TypeOK' /\ AskedCanBeSent'
  BY <1>1 DEF FormsInv, Sending!TypeOK, AskedCanBeSent
<1>4. FormsAreNumbered'
  BY <1>1, <1>2 DEF FormsInv, FormsAreNumbered
<1>5. SentWaits'
  <2>1. k.el \in Forms_ => q.el \in Forms_
    OBVIOUS
  <2> QED BY <1>2, <2>1 DEF FormsInv, SentWaits, Forms_
<1>6. BusyHasACause'
  <2> SUFFICES ASSUME ~mixed
               PROVE  /\ \A p \in flights' : p.text = "own"
                      /\ \A e \in busy \ {"print"} :
                           /\ e \in disabled /\ e # "upload"
                           /\ \/ e \in stranded
                              \/ \E p \in flights' : p.el = e
                              \/ \E t \in pending' : t.el = e /\ t.do = "give back"
    BY DEF BusyHasACause
  <2>1. \A p \in flights' : p.text = "own"
    BY <1>2 DEF FormsInv, BusyHasACause
  <2>2. \A p \in flights : \E p2 \in flights' : p2.el = p.el
    OBVIOUS
  <2> QED BY <2>1, <2>2 DEF FormsInv, BusyHasACause
<1> QED BY <1>3, <1>4, <1>5, <1>6 DEF FormsInv

LEMMA OpeningsAreCounted ==
  ASSUME FormsInv PROVE opens \in Nat /\ 0 \in 0..opens /\ \A s \in Shells : opening[s] \in 0..opens
PROOF
<1>1. opens \in Nat
  BY BoundsAreNumbers DEF FormsInv, FormsAreNumbered
<1>2. \A s \in Shells : opening[s] \in Nat /\ opening[s] <= opens
  BY BoundsAreNumbers DEF FormsInv, Sending!TypeOK, FormsAreNumbered
<1> QED BY <1>1, <1>2

LEMMA LaterIsTimer ==
  ASSUME FormsInv, NEW q \in flights, NEW do \in Sending!Timers, NEW text \in {"own", "busy"},
         do = "give back" => q.el \in {"print", "export"} /\ text = "own",
         do = "printed" => q.el = "print"
  PROVE  /\ Sending!Later(q, do, text) \in Timer
         /\ Sending!Later(q, do, text).do = do /\ Sending!Later(q, do, text).el = q.el
PROOF
<1> DEFINE t == [do |-> do, id |-> q.id, el |-> q.el, text |-> text,
                 opening |-> IF q.el \in Forms_ THEN opening[Sending!HostOf(q.el)] ELSE 0]
<1>1. Sending!Later(q, do, text) = t
  BY DEF Sending!Later, Forms_
<1>2. q.id \in 1..sends /\ q.el \in Buttons
  BY DEF FormsInv, FormsAreNumbered, Flight
<1>3. 0 \in 0..opens /\ \A s \in Shells : opening[s] \in 0..opens
  BY OpeningsAreCounted
<1>4. t.opening \in 0..opens
  BY <1>3, HostsHold
<1>5. t \in Timer /\ t.do = do /\ t.el = q.el
  BY <1>2, <1>4 DEF Timer
<1> QED BY <1>1, <1>5

LEMMA ProgressKeeps == ASSUME FormsInv, NEW q \in flights, Sending!Progress(q) PROVE FormsInv'
PROOF
<1>1. /\ q.el = "upload" /\ q.reply = None /\ ~q.progress /\ bar' = q.id
      /\ UNCHANGED <<content, opening, visible, opens, disabled, busy, dialog, sends, failures, mixed,
                     stranded>>
  BY DEF Sending!Progress
<1>2. q \in Flight /\ q.id \in 1..sends /\ sends \in Nat /\ sends <= MaxSends /\ MaxSends \in Nat
      /\ failures \in Nat
  BY BoundsAreNumbers DEF FormsInv, FormsAreNumbered, Flight
<1>3. bar' \in 0..MaxSends
  BY <1>1, <1>2
<1>4. CASE flights' = flights /\ pending' = pending
  <2>1. BarHasACause'
    BY <1>1, <1>4 DEF BarHasACause
  <2>2. flights' = (flights \ {q}) \cup {q}
    BY <1>4
  <2>3. pending \subseteq pending' /\ pending' \subseteq Timer
    BY <1>4 DEF FormsInv, FormsAreNumbered
  <2> QED BY <1>1, <1>2, <1>3, <2>1, <2>2, <2>3, FlightGoesOn
<1>5. CASE /\ flights' = (flights \ {q}) \cup {[q EXCEPT !.progress = TRUE]}
           /\ pending' = pending \cup {Sending!Later(q, "empty bar", "own")}
  <2> DEFINE t == Sending!Later(q, "empty bar", "own")
             k == [q EXCEPT !.progress = TRUE]
  <2>1. t \in Timer /\ t.do = "empty bar"
    BY LaterIsTimer DEF Sending!Timers
  <2>2. k \in Flight /\ k.el = q.el /\ k.text = q.text /\ k.saved = q.saved
    BY <1>2 DEF Flight
  <2>3. BarHasACause'
    BY <1>5, <2>1 DEF BarHasACause
  <2>4. pending \subseteq pending' /\ pending' \subseteq Timer
    BY <1>5, <2>1 DEF FormsInv, FormsAreNumbered
  <2>5. flights' = (flights \ {q}) \cup {k}
    BY <1>5
  <2> HIDE DEF k
  <2> QED BY <1>1, <1>2, <1>3, <2>2, <2>3, <2>4, <2>5, FlightGoesOn
<1> QED BY <1>4, <1>5 DEF Sending!Progress

LEMMA ReplyKeeps == ASSUME FormsInv, NEW q \in flights, Sending!Reply(q) PROVE FormsInv'
PROOF
<1>1. PICK r \in {"ok", "refused", "none"} :
        /\ r = "ok" /\ q.el = "upload" => q.progress
        /\ failures' = IF r = "ok" THEN failures ELSE failures + 1
        /\ flights' = (flights \ {q}) \cup {[q EXCEPT !.reply = r]}
  BY DEF Sending!Reply
<1>2. UNCHANGED <<content, opening, visible, opens, disabled, busy, dialog, sends, pending, bar, mixed,
                  stranded>>
  BY DEF Sending!Reply
<1> DEFINE k == [q EXCEPT !.reply = r]
<1>3. k \in Flight /\ k.el = q.el /\ k.text = q.text /\ k.saved = q.saved
  BY DEF FormsInv, FormsAreNumbered, Flight
<1>4. failures \in Nat /\ failures' \in Nat /\ bar' \in 0..MaxSends
  BY <1>1, <1>2 DEF FormsInv, FormsAreNumbered, Sending!TypeOK
<1>5. BarHasACause'
  <2>1. r = "ok" => ~(q.el = "upload" /\ ~q.progress)
    BY <1>1
  <2>2. r # "ok" => failures' # 0
    BY <1>1, <1>4
  <2>3. \A p \in flights : p # q => p \in flights'
    BY <1>1
  <2> QED BY <1>1, <1>2, <2>1, <2>2, <2>3 DEF FormsInv, BarHasACause
<1>6. flights' = (flights \ {q}) \cup {k}
  BY <1>1
<1>7. pending \subseteq pending' /\ pending' \subseteq Timer
  BY <1>2 DEF FormsInv, FormsAreNumbered
<1> HIDE DEF k
<1> QED BY <1>2, <1>3, <1>4, <1>5, <1>6, <1>7, FlightGoesOn

-----------------------------------------------------------------------------
(* Requests are answered, and timers fire.                                   *)

\* What an answer may do: enable buttons and give back text, as long as what waits for it
\* gets back its own or is left to a timer, or stranded.
LEMMA AnswerEnds ==
  ASSUME FormsInv, NEW q \in flights, q.reply # None, flights' = flights \ {q},
         pending \subseteq pending', pending' \subseteq Timer,
         stranded \subseteq stranded', stranded' \subseteq Tools,
         disabled' \subseteq disabled, busy' \subseteq Buttons, mixed' \in BOOLEAN,
         UNCHANGED <<content, opening, visible, opens, dialog, sends, failures, bar>>,
         ~mixed' =>
           /\ ~mixed /\ busy' \subseteq busy
           /\ \A e \in Forms_ : e \in disabled /\ e # q.el => e \in disabled'
           /\ \A e \in busy' \ {"print"} :
                /\ e \in disabled'
                /\ e = q.el => e \in stranded' \/ \E t \in pending' : t.el = e /\ t.do = "give back"
  PROVE  FormsInv'
PROOF
<1>1. Flight' = Flight /\ Timer' = Timer /\ Sending!Present' = Sending!Present
  BY DEF Flight, Timer, Sending!Present
<1>2. Sending!TypeOK' /\ AskedCanBeSent'
  BY <1>1 DEF FormsInv, Sending!TypeOK, AskedCanBeSent, Buttons, Forms_
<1>3. FormsAreNumbered'
  BY <1>1 DEF FormsInv, FormsAreNumbered
<1>4. SentWaits'
  <2>1. ~mixed' => /\ ~mixed
                   /\ \A e \in Forms_ : e \in disabled /\ e # q.el => e \in disabled'
    OBVIOUS
  <2>2. \A p \in flights' : p \in flights /\ p # q
    OBVIOUS
  <2>3. ~mixed => \A p \in flights' : p.el \in Forms_ => p.el # q.el
    BY <2>2 DEF FormsInv, SentWaits
  <2> QED BY <2>1, <2>2, <2>3 DEF FormsInv, SentWaits, Forms_
<1>5. BusyHasACause'
  <2> SUFFICES ASSUME ~mixed'
               PROVE  /\ \A p \in flights' : p.text = "own"
                      /\ \A e \in busy' \ {"print"} :
                           /\ e \in disabled' /\ e # "upload"
                           /\ \/ e \in stranded'
                              \/ \E p \in flights' : p.el = e
                              \/ \E t \in pending' : t.el = e /\ t.do = "give back"
    BY DEF BusyHasACause
  <2>1. \A p \in flights' : p.text = "own"
    BY DEF FormsInv, BusyHasACause
  <2>2. \A p \in flights : p.el # q.el => p \in flights'
    OBVIOUS
  <2> QED BY <2>1, <2>2 DEF FormsInv, BusyHasACause
<1>6. BarHasACause'
  <2>1. \A p \in flights : p.reply = None => p \in flights'
    OBVIOUS
  <2> QED BY <2>1 DEF FormsInv, BarHasACause
<1> QED BY <1>2, <1>3, <1>4, <1>5, <1>6 DEF FormsInv

LEMMA AnsweredKeeps == ASSUME FormsInv, NEW q \in flights, Sending!Answered(q) PROVE FormsInv'
PROOF
<1> DEFINE found == Sending!ById(q.el)
<1>1. /\ q.reply # None /\ flights' = flights \ {q}
      /\ UNCHANGED <<content, opening, visible, opens, dialog, sends, failures, bar>>
  BY DEF Sending!Answered
<1>2. mixed' = (mixed \/ (q.el \in Forms_ /\ found # {q.el}))
  BY DEF Sending!Answered, Forms_
<1>3. mixed' \in BOOLEAN /\ (~mixed' => ~mixed /\ (q.el \in Forms_ => found = {q.el}))
  BY <1>2 DEF FormsInv, FormsAreNumbered
<1>4. q \in Flight /\ q.el \in Buttons /\ found \subseteq Buttons
  BY ButtonsAreFound DEF FormsInv, FormsAreNumbered, Flight
<1>5. /\ disabled \subseteq Buttons /\ busy \subseteq Buttons /\ stranded \subseteq Tools
      /\ pending \subseteq Timer
  BY DEF FormsInv, Sending!TypeOK, FormsAreNumbered, Buttons, Forms_
<1>6. ~mixed => /\ q.text = "own"
                /\ \A e \in busy \ {"print"} : e \in disabled /\ e # "upload"
  BY DEF FormsInv, BusyHasACause
<1>7. q.el \in {"login", "print", "export", "upload"} => q.el \in Tools /\ found = {q.el}
  BY <1>4, FormsAreNoTools, ToolsFindThemselves DEF Buttons
<1>8. ASSUME disabled' = disabled \ found,
             busy' = IF q.text = "busy" THEN busy \cup found ELSE busy \ found,
             stranded' = stranded, pending \subseteq pending', pending' \subseteq Timer,
             ~mixed' => found = {q.el}
      PROVE  FormsInv'
  <2>1. disabled' \subseteq disabled /\ busy' \subseteq Buttons
    BY <1>4, <1>5, <1>8
  <2>2. ~mixed' => /\ ~mixed /\ disabled' = disabled \ {q.el} /\ busy' = busy \ {q.el}
    BY <1>3, <1>6, <1>8
  <2>3. ~mixed' =>
          /\ ~mixed /\ busy' \subseteq busy
          /\ \A e \in Forms_ : e \in disabled /\ e # q.el => e \in disabled'
          /\ \A e \in busy' \ {"print"} : e \in disabled' /\ e # q.el
    BY <1>6, <2>2
  <2> HIDE DEF found
  <2> QED BY <1>1, <1>3, <1>5, <1>8, <2>1, <2>3, AnswerEnds
<1>9. ASSUME disabled' = disabled, busy' = busy,
             stranded \subseteq stranded', stranded' \subseteq Tools,
             pending \subseteq pending', pending' \subseteq Timer,
             \/ q.el = "print" \/ q.el = "upload" \/ q.el \in stranded'
             \/ \E t \in pending' : t.el = q.el /\ t.do = "give back"
      PROVE  FormsInv'
  <2>1. ~mixed' =>
          /\ ~mixed /\ busy' \subseteq busy
          /\ \A e \in Forms_ : e \in disabled /\ e # q.el => e \in disabled'
          /\ \A e \in busy' \ {"print"} :
               /\ e \in disabled'
               /\ e = q.el => e \in stranded' \/ \E t \in pending' : t.el = e /\ t.do = "give back"
    BY <1>3, <1>6, <1>9
  <2>2. disabled' \subseteq disabled /\ busy' \subseteq Buttons
    BY <1>5, <1>9
  <2> QED BY <1>1, <1>3, <1>9, <2>1, <2>2, AnswerEnds
<1>10. CASE Sending!SaveAnswered(q)
  <2>1. /\ disabled' = disabled \ found
        /\ busy' = IF q.text = "busy" THEN busy \cup found ELSE busy \ found
        /\ stranded' = stranded /\ q.el \in Forms_
    BY <1>10 DEF Sending!SaveAnswered, Sending!LoadingBtn, Forms_
  <2>2. Sending!Later(q, "close", "own") \in Timer
    BY LaterIsTimer DEF Sending!Timers
  <2>3. pending \subseteq pending' /\ pending' \subseteq Timer
    BY <1>5, <1>10, <2>2 DEF Sending!SaveAnswered
  <2> QED BY <1>3, <1>8, <2>1, <2>3
<1>11. CASE Sending!LoginAnswered(q)
  <2>1. q.el = "login" /\ pending' = pending
    BY <1>11 DEF Sending!LoginAnswered
  <2>2. CASE q.reply = "none"
    <3>1. stranded' = stranded \cup {q.el} /\ disabled' = disabled /\ busy' = busy
      BY <1>11, <2>2 DEF Sending!LoginAnswered
    <3> QED BY <1>5, <1>7, <1>9, <2>1, <3>1
  <2>3. CASE q.reply # "none"
    <3>1. /\ disabled' = disabled \ found
          /\ busy' = IF q.text = "busy" THEN busy \cup found ELSE busy \ found
          /\ stranded' = stranded
      BY <1>11, <2>3 DEF Sending!LoginAnswered, Sending!LoadingBtn
    <3> QED BY <1>5, <1>7, <1>8, <2>1, <3>1
  <2> QED BY <2>2, <2>3
<1>12. CASE Sending!PrintAnswered(q)
  <2>1. q.el = "print" /\ disabled' = disabled /\ busy' = busy
    BY <1>12 DEF Sending!PrintAnswered
  <2>2. /\ Sending!Later(q, "give back", "own") \in Timer /\ Sending!Later(q, "printed", "busy") \in Timer
    BY <2>1, LaterIsTimer DEF Sending!Timers
  <2>3. \/ pending' = pending \cup {Sending!Later(q, "give back", "own"), Sending!Later(q, "printed", "busy")}
           /\ stranded' = stranded
        \/ stranded' = stranded \cup {q.el} /\ pending' = pending
    BY <1>12 DEF Sending!PrintAnswered
  <2> QED BY <1>5, <1>7, <1>9, <2>1, <2>2, <2>3
<1>13. CASE Sending!ExportAnswered(q)
  <2>1. q.el = "export" /\ disabled' = disabled /\ busy' = busy
    BY <1>13 DEF Sending!ExportAnswered
  <2>2. /\ Sending!Later(q, "give back", "own") \in Timer
        /\ Sending!Later(q, "give back", "own").do = "give back"
        /\ Sending!Later(q, "give back", "own").el = q.el
    BY <2>1, LaterIsTimer DEF Sending!Timers
  <2>3. \/ pending' = pending \cup {Sending!Later(q, "give back", "own")} /\ stranded' = stranded
        \/ stranded' = stranded \cup {q.el} /\ pending' = pending
    BY <1>13 DEF Sending!ExportAnswered
  <2>4. \/ q.el \in stranded'
        \/ \E t \in pending' : t.el = q.el /\ t.do = "give back"
    BY <2>2, <2>3
  <2> QED BY <1>5, <1>7, <1>9, <2>1, <2>2, <2>3, <2>4
<1>14. CASE Sending!UploadAnswered(q)
  <2>1. /\ q.el = "upload" /\ disabled' = disabled /\ busy' = busy /\ pending' = pending
        /\ stranded' = stranded
    BY <1>14 DEF Sending!UploadAnswered
  <2> QED BY <1>5, <1>9, <2>1
<1> QED BY <1>10, <1>11, <1>12, <1>13, <1>14 DEF Sending!Answered

LEMMA FireKeeps == ASSUME FormsInv, NEW t \in pending, Sending!Fire(t) PROVE FormsInv'
PROOF
<1>1. /\ pending' = pending \ {t}
      /\ bar' = IF t.do = "empty bar" THEN 0 ELSE bar
      /\ UNCHANGED <<content, opening, opens, dialog, sends, flights, failures, mixed, stranded>>
  BY DEF Sending!Fire, Sending!BarAfter
<1>2. visible' \subseteq Shells
  BY DEF Sending!Fire, Sending!Closed, FormsInv, Sending!TypeOK
<1>3. /\ t.el \in Buttons
      /\ t.do = "give back" => t.el \in {"print", "export"} /\ t.text = "own"
      /\ t.do = "printed" => t.el = "print"
  BY DEF FormsInv, FormsAreNumbered, Timer
<1>4. \/ /\ t.do \in {"give back", "printed"}
         /\ disabled' = disabled \ {t.el}
         /\ busy' = IF t.text = "busy" THEN busy \cup {t.el} ELSE busy \ {t.el}
      \/ t.do \notin {"give back", "printed"} /\ disabled' = disabled /\ busy' = busy
  <2>1. CASE t.do \in {"give back", "printed"}
    <3>1. t.el \in Tools
      BY <1>3, <2>1, FormsAreNoTools DEF Buttons
    <3> QED BY <2>1, <3>1, ToolsFindThemselves DEF Sending!Fire, Sending!LoadingBtn
  <2>2. CASE t.do \notin {"give back", "printed"}
    BY <2>2 DEF Sending!Fire
  <2> QED BY <2>1, <2>2
<1>5. Flight' = Flight /\ Timer' = Timer /\ Sending!Present' = Sending!Present
  BY <1>1 DEF Flight, Timer, Sending!Present
<1>6. Sending!TypeOK'
  <2>1. bar' \in 0..MaxSends
    BY <1>1, BoundsAreNumbers DEF FormsInv, Sending!TypeOK
  <2>2. disabled' \subseteq Buttons /\ busy' \subseteq Buttons
    BY <1>3, <1>4 DEF FormsInv, Sending!TypeOK, Buttons, Forms_
  <2> QED BY <1>1, <1>2, <2>1, <2>2 DEF FormsInv, Sending!TypeOK, Buttons, Forms_
<1>7. FormsAreNumbered'
  BY <1>1, <1>5 DEF FormsInv, FormsAreNumbered
<1>8. AskedCanBeSent'
  BY <1>1, <1>4, <1>5 DEF FormsInv, AskedCanBeSent
<1>9. SentWaits'
  <2>1. \A e \in Forms_ : e \in disabled => e \in disabled'
    BY <1>3, <1>4, FormsAreNoTools
  <2> QED BY <1>1, <2>1 DEF FormsInv, SentWaits, Forms_
<1>10. BusyHasACause'
  <2> SUFFICES ASSUME ~mixed
               PROVE  /\ \A p \in flights : p.text = "own"
                      /\ \A e \in busy' \ {"print"} :
                           /\ e \in disabled' /\ e # "upload"
                           /\ \/ e \in stranded
                              \/ \E p \in flights : p.el = e
                              \/ \E u \in pending' : u.el = e /\ u.do = "give back"
    BY <1>1 DEF BusyHasACause
  <2>1. \A e \in busy' \ {"print"} :
          e \in busy /\ (t.do = "give back" => e # t.el) /\ (e \in disabled => e \in disabled')
    BY <1>3, <1>4
  <2>2. \A u \in pending : u # t => u \in pending'
    BY <1>1
  <2> QED BY <2>1, <2>2 DEF FormsInv, BusyHasACause
<1>11. BarHasACause'
  <2>1. \A u \in pending : u # t => u \in pending'
    BY <1>1
  <2> QED BY <1>1, <2>1 DEF FormsInv, BarHasACause
<1> QED BY <1>6, <1>7, <1>8, <1>9, <1>10, <1>11 DEF FormsInv

LEMMA FormsStepIsSound == ASSUME FormsInv, Sending!Next PROVE FormsInv'
  BY OpenKeeps, DismissKeeps, AskKeeps, ConfirmKeeps, CancelKeeps, UseKeeps, ProgressKeeps,
     ReplyKeeps, AnsweredKeeps, FireKeeps DEF Sending!Next, Forms_

-----------------------------------------------------------------------------
(* THE CSRF TOKEN                                                            *)

Answers == [ok : BOOLEAN, header : 1..MaxTokens, set : 0..MaxTokens]
Request == [id : 1..posted, tab : Tabs, write : BOOLEAN, token : 1..MaxTokens,
            cookie : 0..MaxTokens, single : BOOLEAN, calm : BOOLEAN, reply : {None} \cup Answers]

RequestsAreTyped == posted \in Nat /\ requests \subseteq Request

\* A token whose time is up is in no cookie, and no answer under way has a newer one.
TimeUpIsGone == timeUp => cookie = 0 /\ \A q \in requests : q.reply # None => q.reply.set = 0

\* The tab that had the last answer holds the cookie's token.
LastIsFresh == last # None => cookie # 0 /\ meta[last] = cookie

\* A request that was alone from start to end carries the cookie of the browser, and its
\* answer names the token that will be in the cookie.
SingleKnowsTheCookie ==
  \A q \in requests : q.single =>
    /\ requests = {q} /\ q.cookie = cookie
    /\ q.reply # None =>
         \/ q.reply.set # 0 /\ q.reply.header = q.reply.set
         \/ q.reply.set = 0 /\ q.reply.header = cookie

CalmIsValid ==
  \A q \in requests : q.calm => IF q.reply = None THEN Csrf!Valid(q) ELSE q.write => q.reply.ok

CsrfInv ==
  /\ Csrf!TypeOK /\ RequestsAreTyped /\ TimeUpIsGone
  /\ ~rotating => LastIsFresh /\ SingleKnowsTheCookie /\ CalmIsValid

LEMMA TokensStartFirst == 1 \in 1..MaxTokens /\ 0 \in 0..MaxTokens /\ 1 \in 0..MaxTokens
  BY PagesAssumption

LEMMA CsrfInitIsSound == ASSUME Csrf!Init PROVE CsrfInv
PROOF
<1>1. Csrf!TypeOK
  BY TokensStartFirst DEF Csrf!Init, Csrf!TypeOK
<1> QED BY <1>1 DEF Csrf!Init, CsrfInv, RequestsAreTyped, TimeUpIsGone, LastIsFresh,
          SingleKnowsTheCookie, CalmIsValid

LEMMA CsrfStutters == ASSUME CsrfInv, UNCHANGED csrfVars PROVE CsrfInv'
  BY DEF CsrfInv, csrfVars, Csrf!TypeOK, RequestsAreTyped, TimeUpIsGone, LastIsFresh,
         SingleKnowsTheCookie, CalmIsValid, Csrf!Valid, Request, Answers

-----------------------------------------------------------------------------
(* The steps of the browser and of the clock.                                *)

LEMMA RotateKeeps == ASSUME CsrfInv, Csrf!Rotate PROVE CsrfInv'
  BY DEF CsrfInv, Csrf!Rotate, Csrf!TypeOK, RequestsAreTyped, TimeUpIsGone, Request, Answers

LEMMA ExpireKeeps == ASSUME CsrfInv, Csrf!Expire PROVE CsrfInv'
PROOF
<1>1. /\ \A q \in requests : q.reply = None
      /\ timeUp' = TRUE /\ cookie' = 0 /\ last' = None
      /\ requests' = {[q EXCEPT !.calm = FALSE, !.single = FALSE] : q \in requests}
      /\ UNCHANGED <<rotating, meta, tokens, posted>>
  BY DEF Csrf!Expire
<1>2. \A q \in Request : LET k == [q EXCEPT !.calm = FALSE, !.single = FALSE] IN
        k \in Request /\ ~k.calm /\ ~k.single /\ k.reply = q.reply
  BY DEF Request
<1>3. requests' \subseteq Request /\ \A k \in requests' : ~k.calm /\ ~k.single /\ k.reply = None
  BY <1>1, <1>2 DEF CsrfInv, RequestsAreTyped
<1>4. Csrf!TypeOK'
  BY <1>1, TokensStartFirst DEF CsrfInv, Csrf!TypeOK
<1>5. RequestsAreTyped'
  BY <1>1, <1>3 DEF CsrfInv, RequestsAreTyped, Request, Answers
<1>6. TimeUpIsGone' /\ LastIsFresh'
  BY <1>1, <1>3 DEF TimeUpIsGone, LastIsFresh
<1>7. SingleKnowsTheCookie' /\ CalmIsValid'
  BY <1>3 DEF SingleKnowsTheCookie, CalmIsValid
<1> QED BY <1>4, <1>5, <1>6, <1>7 DEF CsrfInv

LEMMA SendKeeps ==
  ASSUME CsrfInv, NEW t \in Tabs, NEW write \in BOOLEAN, Csrf!Send(t, write) PROVE CsrfInv'
PROOF
<1> DEFINE new == [id |-> posted + 1, tab |-> t, write |-> write, token |-> meta[t],
                   cookie |-> cookie, single |-> requests = {}, calm |-> last = t, reply |-> None]
<1>1. /\ posted' = posted + 1
      /\ requests' = {[q EXCEPT !.single = FALSE] : q \in requests} \cup {new}
      /\ UNCHANGED <<rotating, cookie, timeUp, meta, tokens, last>>
  BY DEF Csrf!Send, Csrf!TokenOf
<1>2. posted \in Nat /\ posted' \in Nat /\ 1..posted \subseteq 1..posted' /\ posted + 1 \in 1..posted'
  BY <1>1 DEF CsrfInv, RequestsAreTyped
<1>3. new \in Request'
  <2>1. meta[t] \in 1..MaxTokens /\ cookie \in 0..MaxTokens
    BY DEF CsrfInv, Csrf!TypeOK
  <2> QED BY <1>2, <2>1 DEF Request
<1>4. \A q \in Request : LET k == [q EXCEPT !.single = FALSE] IN
        /\ k \in Request' /\ ~k.single /\ k.calm = q.calm /\ k.reply = q.reply /\ k.write = q.write
        /\ k.cookie = q.cookie /\ k.token = q.token
  BY <1>2 DEF Request, Answers
<1>5. \A k \in requests' : k = new \/
        /\ k \in Request' /\ ~k.single
        /\ \E q \in requests : /\ k.calm = q.calm /\ k.reply = q.reply /\ k.write = q.write
                              /\ k.cookie = q.cookie /\ k.token = q.token
  <2>1. requests \subseteq Request
    BY DEF CsrfInv, RequestsAreTyped
  <2>2. \A k \in requests' : k = new \/ \E q \in requests : k = [q EXCEPT !.single = FALSE]
    BY <1>1
  <2>3. ASSUME NEW k \in requests', k # new
        PROVE  /\ k \in Request' /\ ~k.single
               /\ \E q \in requests : /\ k.calm = q.calm /\ k.reply = q.reply /\ k.write = q.write
                                     /\ k.cookie = q.cookie /\ k.token = q.token
    <3>1. PICK q \in requests : k = [q EXCEPT !.single = FALSE]
      BY <2>2, <2>3
    <3>2. q \in Request
      BY <2>1
    <3>3. /\ k \in Request' /\ ~k.single /\ k.calm = q.calm /\ k.reply = q.reply
          /\ k.write = q.write /\ k.cookie = q.cookie /\ k.token = q.token
      BY <1>4, <3>1, <3>2
    <3> QED BY <3>3
  <2> HIDE DEF new
  <2> QED BY <2>3
<1>6. /\ new.reply = None /\ new.cookie = cookie /\ new.token = meta[t] /\ (new.calm <=> last = t)
      /\ (new.single <=> requests = {})
  OBVIOUS
<1>7. Csrf!TypeOK'
  BY <1>1 DEF CsrfInv, Csrf!TypeOK
<1>8. RequestsAreTyped'
  BY <1>2, <1>3, <1>5 DEF RequestsAreTyped
<1>9. TimeUpIsGone'
  BY <1>1, <1>5, <1>6 DEF CsrfInv, TimeUpIsGone
<1>10. ASSUME ~rotating PROVE LastIsFresh' /\ SingleKnowsTheCookie' /\ CalmIsValid'
  <2>1. LastIsFresh /\ SingleKnowsTheCookie /\ CalmIsValid
    BY <1>10 DEF CsrfInv
  <2>2. LastIsFresh'
    BY <1>1, <2>1 DEF LastIsFresh
  <2>3. SingleKnowsTheCookie'
    <3>1. requests = {} => requests' = {new}
      BY <1>1
    <3> QED BY <1>1, <1>5, <1>6, <3>1 DEF SingleKnowsTheCookie
  <2>4. new.calm => new.cookie # 0 /\ new.token = new.cookie /\ ~timeUp
    BY <1>6, <2>1, PagesAssumption DEF LastIsFresh, TimeUpIsGone, CsrfInv
  <2>5. CalmIsValid'
    BY <1>1, <1>5, <1>6, <2>1, <2>4 DEF CalmIsValid, Csrf!Valid
  <2> QED BY <2>2, <2>3, <2>5
<1> QED BY <1>1, <1>7, <1>8, <1>9, <1>10 DEF CsrfInv

LEMMA ReceiveKeeps == ASSUME CsrfInv, NEW q \in requests, Csrf!Receive(q) PROVE CsrfInv'
PROOF
<1>1. /\ q.reply # None /\ requests' = requests \ {q}
      /\ cookie' = IF q.reply.set # 0 THEN q.reply.set ELSE cookie
      /\ meta' = [meta EXCEPT ![q.tab] = q.reply.header]
      /\ last' = IF q.single THEN q.tab ELSE None
      /\ UNCHANGED <<rotating, timeUp, tokens, posted>>
  BY DEF Csrf!Receive, Csrf!SetToken
<1>2. q.tab \in Tabs /\ q.reply \in Answers /\ q.single \in BOOLEAN
  BY <1>1 DEF CsrfInv, RequestsAreTyped, Request
<1>3. q.reply.header \in 1..MaxTokens /\ q.reply.set \in 0..MaxTokens
  BY <1>2 DEF Answers
<1>4. cookie' \in 0..MaxTokens /\ meta' \in [Tabs -> 1..MaxTokens] /\ last' \in Tabs \cup {None}
      /\ meta'[q.tab] = q.reply.header
  BY <1>1, <1>2, <1>3 DEF CsrfInv, Csrf!TypeOK
<1>5. Csrf!TypeOK'
  BY <1>1, <1>4 DEF CsrfInv, Csrf!TypeOK
<1>6. RequestsAreTyped'
  BY <1>1 DEF CsrfInv, RequestsAreTyped, Request, Answers
<1>7. TimeUpIsGone'
  BY <1>1 DEF CsrfInv, TimeUpIsGone
<1>8. ASSUME ~rotating PROVE LastIsFresh' /\ SingleKnowsTheCookie' /\ CalmIsValid'
  <2>1. LastIsFresh /\ SingleKnowsTheCookie /\ CalmIsValid
    BY <1>8 DEF CsrfInv
  <2>2. q.reply.header # 0
    BY <1>3
  <2>3. LastIsFresh'
    BY <1>1, <1>4, <2>1, <2>2 DEF LastIsFresh, SingleKnowsTheCookie
  <2>4. \A p \in requests' : ~p.single
    BY <1>1, <2>1 DEF SingleKnowsTheCookie
  <2>5. CalmIsValid'
    BY <1>1, <2>1 DEF CalmIsValid, Csrf!Valid
  <2> QED BY <2>3, <2>4, <2>5 DEF SingleKnowsTheCookie
<1> QED BY <1>1, <1>5, <1>6, <1>7, <1>8 DEF CsrfInv

-----------------------------------------------------------------------------
(* The steps of the server.                                                  *)

\* An answer that keeps the cookie's token or replaces it, and refuses no valid write.
LEMMA AnswerKeeps ==
  ASSUME CsrfInv, NEW q \in requests, q.reply = None, NEW a \in Answers,
         requests' = (requests \ {q}) \cup {[q EXCEPT !.reply = a]},
         UNCHANGED <<rotating, cookie, meta, posted, last>>,
         tokens' \in 0..MaxTokens, timeUp' \in BOOLEAN, timeUp' => timeUp /\ a.set = 0,
         q.write /\ Csrf!Valid(q) /\ ~rotating => a.ok,
         ~rotating => IF a.set = 0 THEN a.header = q.cookie ELSE a.header = a.set
  PROVE  CsrfInv'
PROOF
<1> DEFINE k == [q EXCEPT !.reply = a]
<1>1. q \in Request
  BY DEF CsrfInv, RequestsAreTyped
<1>2. /\ k \in Request /\ k.reply = a /\ k.write = q.write /\ k.calm = q.calm
      /\ k.single = q.single /\ k.cookie = q.cookie
  BY <1>1 DEF Request
<1>3. \A p \in requests' : p = k \/ (p \in requests /\ p # q)
  OBVIOUS
<1>4. k.reply # None
  <2>1. Answers \subseteq [ok : BOOLEAN, header : Nat, set : Nat]
    BY DEF Answers
  <2> QED BY <1>2, <2>1, PagesAssumption
<1>5. Csrf!TypeOK'
  BY DEF CsrfInv, Csrf!TypeOK
<1>6. RequestsAreTyped'
  BY <1>2, <1>3 DEF CsrfInv, RequestsAreTyped, Request, Answers
<1>7. TimeUpIsGone'
  BY <1>2, <1>3 DEF CsrfInv, TimeUpIsGone
<1>8. ASSUME ~rotating PROVE LastIsFresh' /\ SingleKnowsTheCookie' /\ CalmIsValid'
  <2>1. LastIsFresh /\ SingleKnowsTheCookie /\ CalmIsValid
    BY <1>8 DEF CsrfInv
  <2>2. LastIsFresh'
    BY <2>1 DEF LastIsFresh
  <2>3. SingleKnowsTheCookie'
    <3>1. \A p \in requests' : p.single => p = k
      BY <1>3, <2>1 DEF SingleKnowsTheCookie
    <3>2. k.single => requests' = {k} /\ k.cookie = cookie'
      BY <1>2, <2>1 DEF SingleKnowsTheCookie
    <3>3. k.single => IF a.set = 0 THEN a.header = cookie' ELSE a.header = a.set
      BY <1>2, <1>8, <3>2
    <3> QED BY <1>2, <3>1, <3>2, <3>3 DEF SingleKnowsTheCookie
  <2>4. CalmIsValid'
    <3>1. q.calm /\ q.write => a.ok
      BY <1>8, <2>1 DEF CalmIsValid
    <3>2. \A p \in requests : Csrf!Valid(p) => Csrf!Valid(p)'
      BY DEF Csrf!Valid
    <3> QED BY <1>2, <1>3, <1>4, <2>1, <3>1, <3>2 DEF CalmIsValid
  <2> QED BY <2>2, <2>3, <2>4
<1> QED BY <1>5, <1>6, <1>7, <1>8 DEF CsrfInv

LEMMA HandleKeeps == ASSUME CsrfInv, NEW q \in requests, Csrf!Handle(q) PROVE CsrfInv'
PROOF
<1> DEFINE current == IF q.cookie # 0 THEN q.cookie ELSE tokens + 1
           generated == IF q.cookie # 0 THEN tokens ELSE tokens + 1
           answer(ok, header, set) == [ok |-> ok, header |-> header, set |-> set]
<1>1. q.reply = None /\ tokens' <= MaxTokens /\ UNCHANGED <<rotating, cookie, meta, posted, last>>
  BY DEF Csrf!Handle
<1>2. q \in Request /\ tokens \in Nat /\ q.cookie \in 0..MaxTokens /\ timeUp \in BOOLEAN
      /\ q.write \in BOOLEAN /\ MaxTokens \in Nat
  BY PagesAssumption DEF CsrfInv, Csrf!TypeOK, RequestsAreTyped, Request
<1>3. CASE /\ ~q.write \/ (Csrf!Valid(q) /\ ~rotating)
           /\ requests' = (requests \ {q}) \cup
                {[q EXCEPT !.reply = answer(TRUE, current, IF q.cookie # 0 THEN 0 ELSE current)]}
           /\ tokens' = generated /\ timeUp' = (timeUp /\ q.cookie # 0)
  <2> DEFINE a == answer(TRUE, current, IF q.cookie # 0 THEN 0 ELSE current)
  <2>1. tokens' \in 0..MaxTokens /\ current \in 1..MaxTokens /\ timeUp' \in BOOLEAN
    BY <1>1, <1>2, <1>3
  <2>2. a \in Answers
    BY <1>2, <2>1 DEF Answers
  <2>3. a.ok /\ a.header = current /\ a.set = IF q.cookie # 0 THEN 0 ELSE current
    OBVIOUS
  <2>4. timeUp' => timeUp /\ a.set = 0
    BY <1>3, <2>3
  <2>5. IF a.set = 0 THEN a.header = q.cookie ELSE a.header = a.set
    BY <2>1, <2>3
  <2> HIDE DEF a
  <2>6. requests' = (requests \ {q}) \cup {[q EXCEPT !.reply = a]}
    BY <1>3 DEF a
  <2> QED BY <1>1, <2>1, <2>2, <2>3, <2>4, <2>5, <2>6, AnswerKeeps
<1>4. CASE /\ q.write /\ Csrf!Valid(q) /\ rotating
           /\ requests' = (requests \ {q}) \cup
                {[q EXCEPT !.reply = answer(TRUE, current, tokens + 1)]}
           /\ tokens' = tokens + 1 /\ UNCHANGED timeUp
  <2> DEFINE a == answer(TRUE, current, tokens + 1)
  <2>1. tokens' \in 0..MaxTokens /\ current \in 1..MaxTokens /\ tokens + 1 \in 0..MaxTokens
    BY <1>1, <1>2, <1>4
  <2>2. a \in Answers /\ a.ok
    BY <2>1 DEF Answers
  <2>3. ~timeUp'
    BY <1>4 DEF Csrf!Valid
  <2> HIDE DEF a
  <2>4. requests' = (requests \ {q}) \cup {[q EXCEPT !.reply = a]}
    BY <1>4 DEF a
  <2> QED BY <1>1, <1>2, <1>4, <2>1, <2>2, <2>3, <2>4, AnswerKeeps
<1>5. CASE /\ q.write /\ ~Csrf!Valid(q)
           /\ requests' = (requests \ {q}) \cup
                {[q EXCEPT !.reply = answer(FALSE, generated + 1, generated + 1)]}
           /\ tokens' = generated + 1 /\ timeUp' = FALSE
  <2> DEFINE a == answer(FALSE, generated + 1, generated + 1)
  <2>1. tokens' \in 0..MaxTokens /\ generated + 1 \in 1..MaxTokens
    BY <1>1, <1>2, <1>5
  <2>2. a \in Answers /\ a.header = a.set /\ a.set # 0
    BY <2>1 DEF Answers
  <2> HIDE DEF a
  <2>3. requests' = (requests \ {q}) \cup {[q EXCEPT !.reply = a]}
    BY <1>5 DEF a
  <2> QED BY <1>1, <1>5, <2>1, <2>2, <2>3, AnswerKeeps
<1> QED BY <1>3, <1>4, <1>5 DEF Csrf!Handle

LEMMA CsrfStepIsSound == ASSUME CsrfInv, Csrf!Next PROVE CsrfInv'
  BY RotateKeeps, ExpireKeeps, SendKeeps, HandleKeeps, ReceiveKeeps DEF Csrf!Next

-----------------------------------------------------------------------------
(* Both.                                                                     *)

pagesVars == <<part, tableVars, cursorVars, rulesVars, sendingVars, csrfVars>>

\* Whatever fails, is answered late or is opened again: a form is saved once at a time
\* and the buttons and the bar of submitApi(), uploadApi() and the other helpers end as they
\* began, with the exceptions the properties name; and setCsrfToken() leaves a page whose
\* answer was alone with the token VerifyCsrfToken accepts its next write with.
THEOREM SavesStaySound == Spec => []SavesAreSound
PROOF
<1>1. Init => FormsInv /\ CsrfInv
  BY FormsInitIsSound, CsrfInitIsSound DEF Init
<1>2. FormsInv /\ CsrfInv /\ [Next]_pagesVars => FormsInv' /\ CsrfInv'
  <2> SUFFICES ASSUME FormsInv, CsrfInv, [Next]_pagesVars PROVE FormsInv' /\ CsrfInv'
    OBVIOUS
  <2>1. Sending!Next \/ UNCHANGED sendingVars
    BY DEF Next, pagesVars
  <2>2. Csrf!Next \/ UNCHANGED csrfVars
    BY DEF Next, pagesVars
  <2> QED BY <2>1, <2>2, FormsStepIsSound, FormsStutter, CsrfStepIsSound, CsrfStutters
<1>3. FormsInv => Sending!TypeOK /\ Sending!OneSaveAtATime /\ Sending!LabelsComeBack /\ Sending!BarIsEmptied
  <2> SUFFICES ASSUME FormsInv
               PROVE  Sending!TypeOK /\ Sending!OneSaveAtATime /\ Sending!LabelsComeBack /\ Sending!BarIsEmptied
    OBVIOUS
  <2>1. Sending!OneSaveAtATime
    BY DEF FormsInv, SentWaits, Sending!OneSaveAtATime, Forms_
  <2>2. Sending!LabelsComeBack
    BY DEF FormsInv, BusyHasACause, Sending!LabelsComeBack, Sending!AtRest
  <2>3. Sending!BarIsEmptied
    BY DEF FormsInv, BarHasACause, Sending!BarIsEmptied, Sending!AtRest
  <2> QED BY <2>1, <2>2, <2>3 DEF FormsInv
<1>4. CsrfInv => Csrf!TypeOK /\ Csrf!AnswerRenewsThePage
  BY DEF CsrfInv, CalmIsValid, Csrf!AnswerRenewsThePage
<1>5. FormsInv /\ CsrfInv => SavesAreSound
  BY <1>3, <1>4 DEF SavesAreSound
<1> QED BY <1>1, <1>2, <1>5, PTL DEF Spec, pagesVars

-----------------------------------------------------------------------------
(* SERVER TABLES                                                             *)

Places == {"absent", "in", "out", "gone"}
Counters == [total : 0..Cardinality(Rows), filtered : 0..Cardinality(Rows)]
Snapshot == [Rows -> [place : Places, rev : 0..MaxRev]]
Listed(B) == {r \in Rows : B[r].place = "in"}
Kept(B) == {r \in Rows : B[r].place \in {"in", "out"}}

PageReply == [ok : BOOLEAN, clock : 0..clock, rows : [Rows -> Table!Revs], totals : Counters]
Draw == [draw : 1..iDraw, start : {0, PageLength}, reply : {None} \cup PageReply]
CallReply == [ok : BOOLEAN, clock : 0..clock, rev : 0..MaxRev]
Call == [id : 1..made, op : Table!Ops, row : Rows, reply : {None} \cup CallReply]

\* Requests and calls are what they are declared to be, and only the newest request counts.
RequestsAreNumbered ==
  /\ clock \in Nat /\ seen \in 0..clock /\ base \in 0..clock /\ made \in Nat
  /\ draws \subseteq Draw /\ calls \subseteq Call
  /\ \A p, q \in draws : p.draw = q.draw => p = q
  /\ \A c \in calls : c.reply # None => (c.reply.ok => c.reply.clock > 0)

\* Where a row can be later on.
Beyond(place) == CASE place = "absent" -> Places
                   [] place = "in" -> {"in", "out", "gone"}
                   [] place = "out" -> {"out", "gone"}
                   [] place = "gone" -> {"gone"}
\* Which operation brings a row where it is.
LeadsTo(place) == CASE place = "absent" -> "none" [] place = "in" -> "create"
                    [] place = "out" -> "hide" [] place = "gone" -> "delete"

Accepted(c) == c.reply # None /\ c.reply.clock > 0

\* What the server has done for a call that was accepted stays done.
DoneIn(B, c) ==
  LET p == B[c.row].place IN
  /\ c.op = "create" => p # "absent" /\ c.reply.rev = 0
  /\ c.op = "hide" => p \in {"out", "gone"}
  /\ c.op = "delete" => p = "gone"
  /\ c.op = "update" => p = "gone" \/ (p # "absent" /\ c.reply.rev <= B[c.row].rev)

CallsStayDone == \A c \in calls : Accepted(c) => DoneIn(stored, c)

\* B is the server as it was at clock k, but for edits that have been applied since: what
\* differs from the server is due to a call that is still to return.
Explains(B, k, st, cs) ==
  /\ \A r \in Rows :
       /\ st[r].place \in Beyond(B[r].place)
       /\ B[r].place # st[r].place =>
            \E c \in cs : /\ c.row = r /\ Accepted(c) /\ c.reply.clock > k
                             /\ c.op = LeadsTo(st[r].place)
       /\ {B[r].place, st[r].place} \subseteq {"in", "out"} /\ B[r].rev # st[r].rev =>
            \E c \in cs : /\ c.row = r /\ Accepted(c) /\ c.reply.clock > k
                             /\ c.op = "update" /\ c.reply.rev = st[r].rev
  /\ \A c \in cs : Accepted(c) =>
       IF c.reply.clock <= k THEN DoneIn(B, c)
       ELSE c.op = "create" => B[c.row].place = "absent"

\* Rows and counters are those of B, but for n removals the filtered counter counts twice.
Shows(B, rows, counters, n) ==
  /\ counters = [total |-> Cardinality(Kept(B)), filtered |-> Table!From(n, Cardinality(Listed(B)))]
  /\ \A r \in Rows : rows[r] # None => B[r].place = "in" /\ rows[r] = B[r].rev

Newest == {q \in draws : q.draw = iDraw}

\* An answer under way to the newest request, unless it was overtaken by an edit.
AnswerIsExplained ==
  \A q \in Newest :
    q.reply # None /\ q.reply.ok /\ q.reply.clock >= seen =>
      /\ \E B \in Snapshot : Shows(B, q.reply.rows, q.reply.totals, 0) /\ Explains(B, q.reply.clock, stored, calls)
      /\ (\A r \in Rows : q.reply.rows[r] = None) => q.start >= q.reply.totals.filtered

\* The table, when its newest request has been answered and nothing has set it back.
TableIsExplained ==
  Newest = {} /\ ~astray =>
    /\ \E B \in Snapshot : Shows(B, shown, totals, removed) /\ Explains(B, base, stored, calls)
    /\ (\A r \in Rows : shown[r] = None) => askedAt >= totals.filtered /\ removed = 0

-----------------------------------------------------------------------------
(* Counting.                                                                 *)

LEMMA SameCardinality == \A S : Table!Cardinality(S) = Cardinality(S)
  BY DEF Cardinality, Table!Cardinality

LEMMA CountsAreBounded ==
  ASSUME NEW S \in SUBSET Rows
  PROVE  IsFiniteSet(S) /\ Cardinality(S) \in 0..Cardinality(Rows) /\ (Cardinality(S) = 0 <=> S = {})
PROOF
<1>1. IsFiniteSet(Rows)
  BY PagesAssumption
<1>2. IsFiniteSet(S) /\ Cardinality(S) <= Cardinality(Rows)
  BY <1>1, FS_Subset
<1>3. Cardinality(S) \in Nat /\ Cardinality(Rows) \in Nat
  BY <1>1, <1>2, FS_CardinalityType
<1>4. Cardinality(S) = 0 <=> S = {}
  BY <1>2, FS_EmptySet
<1> QED BY <1>2, <1>3, <1>4

LEMMA OneLessIsCounted ==
  ASSUME NEW S \in SUBSET Rows, NEW r \in S
  PROVE  Table!MinusOne(Cardinality(S)) = Cardinality(S \ {r})
PROOF
<1>1. IsFiniteSet(S) /\ Cardinality(S) \in Nat /\ Cardinality(S) # 0
  BY CountsAreBounded
<1>2. Cardinality(S \ {r}) = Cardinality(S) - 1
  BY <1>1, FS_RemoveElement
<1> QED BY <1>1, <1>2 DEF Table!MinusOne

LEMMA TableBounds ==
  /\ PageLength \in Nat /\ PageLength # 0 /\ MaxDraws \in Nat /\ MaxDraws # 0 /\ MaxCalls \in Nat
  /\ MaxRev \in Nat /\ MaxFaults \in Nat /\ 0 \in 0..MaxRev /\ 1 \in 1..MaxDraws
  /\ None \notin Nat /\ Cardinality(Rows) \in Nat /\ 0 \in 0..Cardinality(Rows)
PROOF
<1>1. /\ PageLength \in Nat /\ PageLength # 0 /\ MaxDraws \in Nat /\ MaxDraws # 0 /\ MaxCalls \in Nat
      /\ MaxRev \in Nat /\ MaxFaults \in Nat /\ None \notin Nat
  BY PagesAssumption
<1>2. Cardinality(Rows) \in Nat
  BY PagesAssumption, FS_CardinalityType
<1> QED BY <1>1, <1>2

\* The type invariant, one variable at a time.
TableShape ==
  /\ stored \in Snapshot /\ shown \in [Rows -> Table!Revs] /\ totals \in Counters
  /\ pager \in 0..Cardinality(Rows) /\ removed \in Nat
  /\ iDraw \in 1..MaxDraws /\ start \in {0, PageLength} /\ askedAt \in {0, PageLength}
  /\ wrapper \in BOOLEAN /\ waiting \in BOOLEAN /\ astray \in BOOLEAN
  /\ settled \in {"none", "drawn", "ignored", "failed", "edited"}

LEMMA TableTypeIsShape == Table!TypeOK <=> TableShape
  BY SameCardinality DEF Table!TypeOK, TableShape, Snapshot, Places, Counters

LEMMA TableTypeIsShapeNext == Table!TypeOK' <=> TableShape'
  BY SameCardinality DEF Table!TypeOK, TableShape, Snapshot, Places, Counters

\* The panel for no rows, with the quantifier in place of a set.
NoneShown == \A r \in Rows : shown[r] = None
PanelHasACause ==
  settled \notin {"none", "ignored"} => (wrapper <=> ~NoneShown)

LEMMA PanelIsTheSame ==
  ASSUME wrapper \in BOOLEAN PROVE Table!EmptyPanelHasACause <=> PanelHasACause
PROOF
<1>1. Table!Shown(shown) # {} <=> ~NoneShown
  BY DEF Table!Shown, NoneShown
<1> QED BY <1>1 DEF Table!EmptyPanelHasACause, PanelHasACause

TableInv ==
  /\ TableShape /\ RequestsAreNumbered /\ CallsStayDone
  /\ AnswerIsExplained /\ TableIsExplained
  /\ PanelHasACause /\ (settled = "none" => wrapper)

-----------------------------------------------------------------------------
(* What explains a table.                                                    *)

LEMMA PlacesAreOrdered ==
  /\ Beyond("absent") = Places /\ Beyond("in") = {"in", "out", "gone"}
  /\ Beyond("out") = {"out", "gone"} /\ Beyond("gone") = {"gone"}
  /\ LeadsTo("in") = "create" /\ LeadsTo("out") = "hide" /\ LeadsTo("gone") = "delete"
  /\ LeadsTo("absent") = "none"
  BY DEF Beyond, LeadsTo

\* Calls that do not matter to clock k may come and go.
LEMMA ExplainsStays ==
  ASSUME NEW B, NEW k, NEW st, NEW cs, NEW cs2, Explains(B, k, st, cs),
         \A c \in cs : Accepted(c) /\ c.reply.clock > k => c \in cs2,
         \A c \in cs2 : Accepted(c) => c \in cs
  PROVE  Explains(B, k, st, cs2)
  BY DEF Explains

\* The server explains itself.
LEMMA ServerExplains ==
  ASSUME NEW k \in Nat, NEW st \in Snapshot, NEW cs,
         \A c \in cs : Accepted(c) => c.reply.clock <= k /\ DoneIn(st, c)
  PROVE  Explains(st, k, st, cs)
PROOF
<1>1. \A r \in Rows : st[r].place \in Beyond(st[r].place)
  BY DEF Snapshot, Places, Beyond
<1> QED BY <1>1 DEF Explains

\* An accepted call, newer than what is explained, is one more cause.
LEMMA ExplainsMore ==
  ASSUME NEW k \in Nat, NEW st \in Snapshot, NEW st2 \in Snapshot, NEW B \in Snapshot,
         NEW cs, NEW c, NEW d, Explains(B, k, st, cs), c \in cs, ~Accepted(c),
         d.row \in Rows, d.op \in Table!Ops, Accepted(d), d.reply.clock > k, d.reply.clock \in Nat,
         \A r \in Rows : r # d.row => st2[r] = st[r],
         d.op = "create" => st[d.row].place = "absent" /\ st2[d.row].place = "in",
         d.op = "hide" => st[d.row].place = "in" /\ st2[d.row] = [st[d.row] EXCEPT !.place = "out"],
         d.op = "delete" => st[d.row].place \in {"in", "out"} /\ st2[d.row].place = "gone",
         d.op = "update" => st[d.row].place \in {"in", "out"} /\ st2[d.row].place = st[d.row].place
                            /\ d.reply.rev = st2[d.row].rev
  PROVE  Explains(B, k, st2, (cs \ {c}) \cup {d})
PROOF
<1> DEFINE cs2 == (cs \ {c}) \cup {d}
<1>1. \A e \in cs : Accepted(e) => e \in cs2
  OBVIOUS
<1>2. d \in cs2
  OBVIOUS
<1>3. \A r \in Rows : B[r].place \in Places /\ st[r].place \in Places /\ st2[r].place \in Places
  BY DEF Snapshot
<1>10. d.op = "hide" => st2[d.row].place = "out" /\ st2[d.row].rev = st[d.row].rev
  BY DEF Snapshot
<1>4. ASSUME NEW r \in Rows, r # d.row
      PROVE  /\ st2[r].place \in Beyond(B[r].place)
             /\ B[r].place # st2[r].place =>
                  \E e \in cs2 : e.row = r /\ Accepted(e) /\ e.reply.clock > k /\ e.op = LeadsTo(st2[r].place)
             /\ {B[r].place, st2[r].place} \subseteq {"in", "out"} /\ B[r].rev # st2[r].rev =>
                  \E e \in cs2 : e.row = r /\ Accepted(e) /\ e.reply.clock > k /\ e.op = "update" /\ e.reply.rev = st2[r].rev
  <2>1. st2[r] = st[r]
    BY <1>4
  <2> HIDE DEF cs2
  <2> QED BY <1>1, <2>1 DEF Explains
<1>5. st2[d.row].place \in Beyond(B[d.row].place)
  <2>1. st[d.row].place \in Beyond(B[d.row].place)
    BY DEF Explains
  <2>2. CASE d.op = "update"
    BY <2>1, <2>2
  <2>3. CASE d.op # "update"
    BY <1>3, <1>10, <2>1, <2>3, PlacesAreOrdered DEF Table!Ops, Places
  <2> QED BY <2>2, <2>3
<1>6. B[d.row].place # st2[d.row].place =>
        \E e \in cs2 : e.row = d.row /\ Accepted(e) /\ e.reply.clock > k /\ e.op = LeadsTo(st2[d.row].place)
  <2>1. CASE d.op # "update"
    <3>1. d.op = LeadsTo(st2[d.row].place)
      BY <1>10, <2>1, PlacesAreOrdered DEF Table!Ops
    <3> QED BY <1>2, <3>1
  <2>2. CASE d.op = "update"
    <3> HIDE DEF cs2
    <3> QED BY <1>1, <2>2 DEF Explains
  <2> QED BY <2>1, <2>2
<1>7. {B[d.row].place, st2[d.row].place} \subseteq {"in", "out"} /\ B[d.row].rev # st2[d.row].rev =>
        \E e \in cs2 : e.row = d.row /\ Accepted(e) /\ e.reply.clock > k /\ e.op = "update" /\ e.reply.rev = st2[d.row].rev
  <2>1. CASE d.op = "update"
    BY <1>2, <2>1
  <2>2. CASE d.op = "hide"
    <3>1. st2[d.row].rev = st[d.row].rev /\ st[d.row].place = "in"
      BY <1>10, <2>2
    <3> HIDE DEF cs2
    <3> QED BY <1>1, <3>1 DEF Explains
  <2>3. CASE d.op = "create"
    <3>1. st[d.row].place \in Beyond(B[d.row].place) /\ st[d.row].place = "absent"
      BY <2>3 DEF Explains
    <3>2. B[d.row].place = "absent"
      BY <1>3, <3>1 DEF Beyond, Places
    <3> QED BY <3>2
  <2>4. CASE d.op = "delete"
    BY <2>4
  <2> QED BY <2>1, <2>2, <2>3, <2>4 DEF Table!Ops
<1>8. \A e \in cs2 : Accepted(e) =>
        IF e.reply.clock <= k THEN DoneIn(B, e) ELSE e.op = "create" => B[e.row].place = "absent"
  <2>1. d.op = "create" => B[d.row].place = "absent"
    <3>1. d.op = "create" => st[d.row].place \in Beyond(B[d.row].place) /\ st[d.row].place = "absent"
      BY DEF Explains
    <3> QED BY <1>3, <3>1 DEF Beyond, Places
  <2>2. ~(d.reply.clock <= k)
    OBVIOUS
  <2>3. \A e \in cs : Accepted(e) =>
          IF e.reply.clock <= k THEN DoneIn(B, e) ELSE e.op = "create" => B[e.row].place = "absent"
    BY DEF Explains
  <2> QED BY <2>1, <2>2, <2>3
<1> HIDE DEF cs2
<1>9. Explains(B, k, st2, cs2)
  BY <1>4, <1>5, <1>6, <1>7, <1>8 DEF Explains
<1> QED BY <1>9 DEF cs2

-----------------------------------------------------------------------------
(* The steps of the table itself.                                            *)

LEMMA TableStarts ==
  ASSUME Table!Init PROVE TableInv
PROOF
<1> USE TableBounds
<1>1. stored \in Snapshot /\ shown \in [Rows -> Table!Revs] /\ totals \in Counters
  BY DEF Table!Init, Snapshot, Places, Table!Revs, Counters
<1>2. TableShape
  BY <1>1 DEF Table!Init, TableShape
<1>3. [draw |-> 1, start |-> 0, reply |-> None] \in Draw
  BY DEF Table!Init, Draw
<1>4. RequestsAreNumbered /\ CallsStayDone
  BY <1>3 DEF Table!Init, RequestsAreNumbered, CallsStayDone
<1>5. [draw |-> 1, start |-> 0, reply |-> None] \in Newest /\ (\A q \in Newest : q.reply = None)
  BY DEF Table!Init, Newest
<1>6. AnswerIsExplained /\ TableIsExplained
  BY <1>5 DEF AnswerIsExplained, TableIsExplained
<1>7. PanelHasACause /\ (settled = "none" => wrapper)
  BY DEF Table!Init, PanelHasACause
<1> QED BY <1>2, <1>4, <1>6, <1>7 DEF TableInv

LEMMA LooksKeepTable ==
  ASSUME TableInv, waiting' \in BOOLEAN,
         UNCHANGED <<stored, clock, shown, totals, pager, iDraw, start, draws, calls, made, wrapper, seen,
                     base, removed, askedAt, astray, settled>>
  PROVE  TableInv'
PROOF
<1>1. TableShape'
  BY DEF TableInv, TableShape
<1>2. RequestsAreNumbered'
  BY DEF TableInv, RequestsAreNumbered, Draw, PageReply, Call, CallReply
<1>3. CallsStayDone'
  BY DEF TableInv, CallsStayDone
<1>4. Newest' = Newest
  BY DEF Newest
<1>5. AnswerIsExplained'
  BY <1>4 DEF TableInv, AnswerIsExplained
<1>6. TableIsExplained'
  BY <1>4 DEF TableInv, TableIsExplained
<1>7. PanelHasACause' /\ (settled = "none" => wrapper)'
  BY DEF TableInv, PanelHasACause, NoneShown
<1> QED BY <1>1, <1>2, <1>3, <1>5, <1>6, <1>7 DEF TableInv

\* A new request: nothing of what is shown needs an explanation before it is answered.
LEMMA RequestIsOpen ==
  ASSUME TableShape, RequestsAreNumbered, NEW s \in {0, PageLength}, Table!Request(s), clock' = clock
  PROVE  /\ iDraw' \in 1..MaxDraws /\ start' \in {0, PageLength} /\ waiting' \in BOOLEAN
         /\ draws' \subseteq Draw'
         /\ (\A p, q \in draws' : p.draw = q.draw => p = q)
         /\ AnswerIsExplained' /\ TableIsExplained'
PROOF
<1> DEFINE new == [draw |-> iDraw + 1, start |-> s, reply |-> None]
<1>1. iDraw' = iDraw + 1 /\ start' = s /\ draws' = draws \cup {new} /\ waiting' = TRUE
  BY DEF Table!Request, Table!ShowLoading
<1>2. iDraw \in 1..MaxDraws /\ iDraw < MaxDraws /\ MaxDraws \in Nat
  BY TableBounds DEF TableShape, Table!Request
<1>3. iDraw' \in 1..MaxDraws /\ iDraw \in Nat
  BY <1>1, <1>2
<1>4. new.draw = iDraw + 1 /\ new.start = s /\ new.reply = None
  OBVIOUS
<1>5. new \in Draw'
  BY <1>1, <1>3 DEF Draw
<1> HIDE DEF new
<1>6. \A q \in draws : q \in Draw' /\ q.draw \in 1..iDraw
  <2>1. \A q \in draws : q \in Draw
    BY DEF RequestsAreNumbered
  <2>2. Draw \subseteq Draw'
    BY <1>1, <1>3 DEF Draw, PageReply
  <2> QED BY <2>1, <2>2 DEF Draw
<1>7. draws' \subseteq Draw'
  BY <1>1, <1>5, <1>6
<1>8. \A q \in draws : q.draw # iDraw + 1
  BY <1>3, <1>6
<1>9. \A p, q \in draws' : p.draw = q.draw => p = q
  BY <1>1, <1>4, <1>8 DEF RequestsAreNumbered
<1>10. \A q \in draws' : q.draw = iDraw' => q = new
  BY <1>1, <1>8
<1>11. new \in Newest' /\ (\A q \in Newest' : q.reply = None)
  BY <1>1, <1>4, <1>10 DEF Newest
<1>12. AnswerIsExplained' /\ TableIsExplained'
  BY <1>11 DEF AnswerIsExplained, TableIsExplained
<1> QED BY <1>1, <1>3, <1>4, <1>7, <1>9, <1>10, <1>12

LEMMA AskKeepsTable ==
  ASSUME TableInv, Table!Ask PROVE TableInv'
PROOF
<1>1. PICK s \in {0, PageLength} : Table!Request(s)
  BY DEF Table!Ask, Table!Reload, Table!ButtonTo, TableInv, TableShape
<1>2. TableShape /\ RequestsAreNumbered
  BY DEF TableInv
<1>3. UNCHANGED <<stored, clock, calls, made, look, faults, shown, totals, pager, wrapper, seen, base, removed, askedAt, astray, settled>>
  BY DEF Table!Ask
<1>4. /\ iDraw' \in 1..MaxDraws /\ start' \in {0, PageLength} /\ waiting' \in BOOLEAN
      /\ draws' \subseteq Draw'
      /\ (\A p, q \in draws' : p.draw = q.draw => p = q)
      /\ AnswerIsExplained' /\ TableIsExplained'
  BY <1>1, <1>2, <1>3, RequestIsOpen
<1>5. TableShape'
  BY <1>2, <1>3, <1>4 DEF TableShape
<1>6. RequestsAreNumbered'
  BY <1>2, <1>3, <1>4 DEF RequestsAreNumbered, Call, CallReply
<1>7. CallsStayDone'
  BY <1>3 DEF TableInv, CallsStayDone
<1>8. PanelHasACause' /\ (settled = "none" => wrapper)'
  BY <1>3 DEF TableInv, PanelHasACause, NoneShown
<1> QED BY <1>4, <1>5, <1>6, <1>7, <1>8 DEF TableInv

\* What the server answers for a page, and what a failed request is taken for.
LEMMA PagesAreExplained ==
  ASSUME TableInv, NEW q \in draws, NEW on \in Table!PagesAt(q.start)
  PROVE  /\ Table!Page(on) \in PageReply /\ Table!Page(on).clock = clock
         /\ Shows(stored, Table!Page(on).rows, Table!Page(on).totals, 0)
         /\ ((\A r \in Rows : Table!Page(on).rows[r] = None) => q.start >= Table!Page(on).totals.filtered)
PROOF
<1>1. stored \in Snapshot /\ clock \in Nat /\ q.start \in {0, PageLength} /\ q \in Draw
  BY DEF TableInv, TableShape, RequestsAreNumbered, Draw
<1>2. Table!At("in") = Listed(stored) /\ Table!At("in") \cup Table!At("out") = Kept(stored)
  BY DEF Table!At, Listed, Kept
<1>3. on \subseteq Listed(stored) /\ Listed(stored) \subseteq Rows /\ Kept(stored) \subseteq Rows
  BY <1>2 DEF Table!PagesAt, Listed, Kept
<1>4. /\ Table!Page(on).ok = TRUE /\ Table!Page(on).clock = clock
      /\ Table!Page(on).rows = [r \in Rows |-> IF r \in on THEN stored[r].rev ELSE None]
      /\ Table!Page(on).totals = [total |-> Cardinality(Kept(stored)), filtered |-> Cardinality(Listed(stored))]
  BY <1>2, SameCardinality DEF Table!Page
<1>5. /\ IsFiniteSet(Listed(stored)) /\ Cardinality(Listed(stored)) \in 0..Cardinality(Rows)
      /\ Cardinality(Kept(stored)) \in 0..Cardinality(Rows)
      /\ Cardinality(on) \in 0..Cardinality(Rows) /\ (Cardinality(on) = 0 <=> on = {})
  BY <1>3, CountsAreBounded
<1>6. \A r \in Rows : stored[r].rev \in 0..MaxRev /\ stored[r].rev \in Nat
  BY <1>1, TableBounds DEF Snapshot
<1>7. Table!Page(on).rows \in [Rows -> Table!Revs] /\ Table!Page(on).totals \in Counters
  BY <1>4, <1>5, <1>6 DEF Table!Revs, Counters
<1>8. Table!Page(on) \in PageReply
  <2>1. Table!Page(on) = [ok |-> TRUE, clock |-> clock, rows |-> Table!Page(on).rows, totals |-> Table!Page(on).totals]
    BY <1>2, SameCardinality DEF Table!Page
  <2>2. \A a \in [Rows -> Table!Revs], b \in Counters :
          [ok |-> TRUE, clock |-> clock, rows |-> a, totals |-> b] \in PageReply
    BY <1>1 DEF PageReply
  <2> QED BY <1>7, <2>1, <2>2
<1>9. Shows(stored, Table!Page(on).rows, Table!Page(on).totals, 0)
  <2>1. \A r \in Rows : Table!Page(on).rows[r] # None => stored[r].place = "in" /\ Table!Page(on).rows[r] = stored[r].rev
    BY <1>3, <1>4 DEF Listed
  <2>2. Table!From(0, Cardinality(Listed(stored))) = Cardinality(Listed(stored))
    BY <1>5, TableBounds DEF Table!From
  <2> QED BY <1>4, <2>1, <2>2 DEF Shows
<1>10. ASSUME \A r \in Rows : Table!Page(on).rows[r] = None PROVE q.start >= Table!Page(on).totals.filtered
  <2>1. on = {}
    <3>1. \A r \in on : Table!Page(on).rows[r] \in Nat
      BY <1>3, <1>4, <1>6
    <3> QED BY <1>3, <1>10, <3>1, TableBounds
  <2>2. Table!Least(PageLength, Table!From(q.start, Cardinality(Listed(stored)))) = 0
    BY <1>2, <1>5, <2>1, SameCardinality DEF Table!PagesAt
  <2>3. Cardinality(Listed(stored)) <= q.start
    <3> DEFINE n == Cardinality(Listed(stored))
    <3>1. n \in Nat /\ q.start \in Nat /\ PageLength \in Nat /\ PageLength # 0
      BY <1>1, <1>5, TableBounds
    <3>2. Table!Least(PageLength, Table!From(q.start, n)) = 0
      BY <2>2
    <3> HIDE DEF n
    <3>3. n <= q.start
      BY <3>1, <3>2 DEF Table!Least, Table!From
    <3> QED BY <3>3 DEF n
  <2> QED BY <1>1, <1>4, <1>5, <2>3, TableBounds
<1> QED BY <1>4, <1>8, <1>9, <1>10

LEMMA NoPageIsAReply ==
  ASSUME clock \in Nat PROVE Table!NoPage \in PageReply /\ ~Table!NoPage.ok
PROOF
<1>1. [r \in Rows |-> None] \in [Rows -> Table!Revs]
  BY DEF Table!Revs
<1>2. [total |-> 0, filtered |-> 0] \in Counters
  BY TableBounds DEF Counters
<1> QED BY <1>1, <1>2 DEF Table!NoPage, PageReply

\* The server answers a request, or the request fails.
LEMMA ReplyKeepsTable ==
  ASSUME TableInv, NEW q \in draws, Table!Reply(q) PROVE TableInv'
PROOF
<1>1. q.reply = None /\ q \in Draw /\ clock \in Nat
  BY DEF Table!Reply, TableInv, RequestsAreNumbered
<1>2. PICK p \in PageReply :
        /\ draws' = (draws \ {q}) \cup {[q EXCEPT !.reply = p]}
        /\ p.ok => /\ p.clock = clock /\ Shows(stored, p.rows, p.totals, 0)
                   /\ (\A r \in Rows : p.rows[r] = None) => q.start >= p.totals.filtered
  <2>1. CASE \E on \in Table!PagesAt(q.start) : draws' = (draws \ {q}) \cup {[q EXCEPT !.reply = Table!Page(on)]}
    BY <2>1, PagesAreExplained
  <2>2. CASE draws' = (draws \ {q}) \cup {[q EXCEPT !.reply = Table!NoPage]}
    BY <1>1, <2>2, NoPageIsAReply
  <2> QED BY <2>1, <2>2 DEF Table!Reply
<1>3. UNCHANGED <<stored, clock, calls, made, look, shown, totals, pager, iDraw, start, wrapper, waiting, timers,
                  seen, base, removed, askedAt, astray, settled>>
  BY DEF Table!Reply
<1> DEFINE a == [q EXCEPT !.reply = p]
<1>4. a \in Draw /\ a.draw = q.draw /\ a.start = q.start /\ a.reply = p
  BY <1>1 DEF Draw
<1> HIDE DEF a
<1>5. draws' = (draws \ {q}) \cup {a}
  BY <1>2 DEF a
<1>7. TableShape'
  BY <1>3 DEF TableInv, TableShape
<1>8. RequestsAreNumbered'
  <2>1. draws' \subseteq Draw
    BY <1>4, <1>5 DEF TableInv, RequestsAreNumbered
  <2>2. Draw' = Draw /\ Call' = Call
    BY <1>3 DEF Draw, PageReply, Call, CallReply
  <2>3. \A x, y \in draws' : x.draw = y.draw => x = y
    BY <1>4, <1>5 DEF TableInv, RequestsAreNumbered
  <2> QED BY <1>3, <2>1, <2>2, <2>3 DEF TableInv, RequestsAreNumbered
<1>9. CallsStayDone'
  BY <1>3 DEF TableInv, CallsStayDone
<1>10. AnswerIsExplained'
  <2>1. Explains(stored, clock, stored, calls) /\ stored \in Snapshot
    <3>1. \A c \in calls : Accepted(c) => c.reply.clock <= clock /\ DoneIn(stored, c)
      BY DEF TableInv, RequestsAreNumbered, CallsStayDone, Accepted, Call, CallReply
    <3>2. stored \in Snapshot
      BY DEF TableInv, TableShape
    <3> QED BY <1>1, <3>1, <3>2, ServerExplains
  <2>2. SUFFICES ASSUME NEW x \in Newest', x.reply # None, x.reply.ok, x.reply.clock >= seen
                 PROVE  /\ \E B \in Snapshot : Shows(B, x.reply.rows, x.reply.totals, 0) /\ Explains(B, x.reply.clock, stored, calls)
                        /\ (\A r \in Rows : x.reply.rows[r] = None) => x.start >= x.reply.totals.filtered
    BY <1>3 DEF AnswerIsExplained
  <2>3. CASE x = a
    BY <1>2, <1>4, <2>1, <2>2, <2>3
  <2>4. CASE x # a
    <3>1. x \in Newest
      BY <1>3, <1>5, <2>4 DEF Newest
    <3> QED BY <2>2, <3>1 DEF TableInv, AnswerIsExplained
  <2> QED BY <2>3, <2>4
<1>11. TableIsExplained'
  <2>1. Newest' = {} => Newest = {}
    BY <1>3, <1>4, <1>5 DEF Newest
  <2> QED BY <1>3, <2>1 DEF TableInv, TableIsExplained
<1>12. PanelHasACause' /\ (settled = "none" => wrapper)'
  BY <1>3 DEF TableInv, PanelHasACause, NoneShown
<1> QED BY <1>7, <1>8, <1>9, <1>10, <1>11, <1>12 DEF TableInv

\* The answer to a request reaches the browser: it is drawn if no newer request is out.
LEMMA SettleKeepsTable ==
  ASSUME TableInv, NEW q \in draws, Table!Settle(q) PROVE TableInv'
PROOF
<1>1. /\ q.reply # None /\ draws' = draws \ {q} /\ wrapper' = (Table!Shown(q.reply.rows) # {})
      /\ UNCHANGED <<stored, clock, calls, made, iDraw, start>> /\ Table!HideLoading
  BY DEF Table!Settle
<1>2. q \in Draw /\ q.reply \in PageReply
  BY <1>1 DEF TableInv, RequestsAreNumbered, Draw
<1>3. waiting' \in BOOLEAN
  BY <1>1 DEF Table!HideLoading, TableInv, TableShape
<1>4. \A x \in draws' : x \in draws /\ x # q
  BY <1>1
<1>5. /\ draws' \subseteq Draw' /\ calls' \subseteq Call'
      /\ (\A x, y \in draws' : x.draw = y.draw => x = y)
      /\ (\A c \in calls' : c.reply # None => (c.reply.ok => c.reply.clock > 0))
  <2>1. Draw' = Draw /\ Call' = Call
    BY <1>1 DEF Draw, PageReply, Call, CallReply
  <2> QED BY <1>1, <1>4, <2>1 DEF TableInv, RequestsAreNumbered
<1>6. CallsStayDone'
  BY <1>1 DEF TableInv, CallsStayDone
<1>7. CASE q.draw < iDraw
  <2>1. settled' = "ignored" /\ UNCHANGED <<shown, totals, pager, seen, base, removed, askedAt, astray>>
    BY <1>7 DEF Table!Settle
  <2>2. TableShape'
    BY <1>1, <1>3, <2>1 DEF TableInv, TableShape
  <2>3. RequestsAreNumbered'
    BY <1>1, <1>5, <2>1 DEF TableInv, RequestsAreNumbered
  <2>4. q.draw \in Nat /\ iDraw \in Nat
    BY <1>2, TableBounds DEF Draw, TableInv, TableShape
  <2>5. Newest' = Newest
    BY <1>1, <1>7, <2>4 DEF Newest
  <2>6. AnswerIsExplained'
    BY <1>1, <2>1, <2>5 DEF TableInv, AnswerIsExplained
  <2>7. TableIsExplained'
    BY <1>1, <2>1, <2>5 DEF TableInv, TableIsExplained
  <2>8. PanelHasACause' /\ (settled = "none" => wrapper)'
    BY <2>1 DEF PanelHasACause
  <2> QED BY <1>6, <2>2, <2>3, <2>6, <2>7, <2>8 DEF TableInv
<1>8. CASE ~(q.draw < iDraw)
  <2>1. /\ settled' = IF q.reply.ok THEN "drawn" ELSE "failed"
        /\ shown' = q.reply.rows /\ totals' = q.reply.totals /\ pager' = q.reply.totals.filtered
        /\ removed' = 0 /\ askedAt' = q.start
        /\ base' = q.reply.clock /\ seen' = Table!Latest(seen, q.reply.clock)
        /\ astray' = (~q.reply.ok \/ q.reply.clock < seen)
    BY <1>8 DEF Table!Settle
  <2>2. /\ q.reply.ok \in BOOLEAN /\ q.reply.clock \in 0..clock /\ q.reply.rows \in [Rows -> Table!Revs]
        /\ q.reply.totals \in Counters /\ q.reply.totals.filtered \in 0..Cardinality(Rows)
        /\ clock \in Nat /\ seen \in 0..clock /\ q.start \in {0, PageLength}
    BY <1>2 DEF PageReply, Counters, Draw, TableInv, RequestsAreNumbered
  <2>3. q.draw = iDraw
    BY <1>2, <1>8, TableBounds DEF Draw, TableInv, TableShape
  <2>4. TableShape'
    BY <1>1, <1>3, <2>1, <2>2 DEF TableInv, TableShape
  <2>5. base' \in 0..clock' /\ seen' \in 0..clock'
    BY <1>1, <2>1, <2>2 DEF Table!Latest
  <2>6. RequestsAreNumbered'
    BY <1>1, <1>5, <2>5 DEF TableInv, RequestsAreNumbered
  <2>7. Newest' = {}
    BY <1>1, <1>4, <2>3 DEF Newest, TableInv, RequestsAreNumbered
  <2>8. AnswerIsExplained'
    BY <2>7 DEF AnswerIsExplained
  <2>9. TableIsExplained'
    <3>1. q \in Newest
      BY <2>3 DEF Newest
    <3>2. SUFFICES ASSUME ~astray'
                   PROVE  /\ \E B \in Snapshot : Shows(B, shown', totals', removed') /\ Explains(B, base', stored', calls')
                          /\ (\A r \in Rows : shown'[r] = None) => askedAt' >= totals'.filtered /\ removed' = 0
      BY DEF TableIsExplained
    <3>5. q.reply.ok /\ ~(q.reply.clock < seen)
      BY <2>1, <3>2
    <3>3. q.reply.ok /\ q.reply.clock >= seen
      BY <2>2, <3>5
    <3>4. /\ \E B \in Snapshot : Shows(B, q.reply.rows, q.reply.totals, 0) /\ Explains(B, q.reply.clock, stored, calls)
          /\ (\A r \in Rows : q.reply.rows[r] = None) => q.start >= q.reply.totals.filtered
      BY <1>1, <3>1, <3>3 DEF TableInv, AnswerIsExplained
    <3> QED BY <1>1, <2>1, <3>1, <3>4
  <2>10. PanelHasACause' /\ (settled = "none" => wrapper)'
    BY <1>1, <2>1 DEF PanelHasACause, NoneShown, Table!Shown
  <2> QED BY <1>6, <2>4, <2>6, <2>8, <2>9, <2>10 DEF TableInv
<1> QED BY <1>7, <1>8

LEMMA SendKeepsTable ==
  ASSUME TableInv, NEW op \in Table!Ops, NEW r \in Rows, Table!Send(op, r) PROVE TableInv'
PROOF
<1> DEFINE new == [id |-> made + 1, op |-> op, row |-> r, reply |-> None]
<1>1. /\ made' = made + 1 /\ calls' = calls \cup {new}
      /\ UNCHANGED <<stored, clock, look, faults, shown, totals, pager, iDraw, start, draws, wrapper, waiting,
                     timers, seen, base, removed, askedAt, astray, settled>>
  BY DEF Table!Send, Table!table
<1>2. made \in Nat
  BY DEF TableInv, RequestsAreNumbered
<1>3. new \in Call' /\ ~Accepted(new) /\ new.reply = None
  BY <1>1, <1>2 DEF Call, Accepted
<1> HIDE DEF new
<1>4. TableShape'
  BY <1>1 DEF TableInv, TableShape
<1>5. RequestsAreNumbered'
  <2>1. Draw' = Draw /\ Call \subseteq Call'
    BY <1>1, <1>2 DEF Draw, PageReply, Call, CallReply
  <2> QED BY <1>1, <1>2, <1>3, <2>1 DEF TableInv, RequestsAreNumbered
<1>6. CallsStayDone'
  BY <1>1, <1>3 DEF TableInv, CallsStayDone
<1>7. \A B \in Snapshot, k \in Nat : Explains(B, k, stored, calls) => Explains(B, k, stored', calls')
  <2> TAKE B \in Snapshot, k \in Nat
  <2> HAVE Explains(B, k, stored, calls)
  <2> QED BY <1>1, <1>3, ExplainsStays
<1>8. Newest' = Newest /\ (\A q \in Newest : q.reply # None => q.reply.clock \in Nat) /\ base \in Nat
  BY <1>1 DEF Newest, TableInv, RequestsAreNumbered, Draw, PageReply
<1>9. AnswerIsExplained'
  BY <1>1, <1>7, <1>8 DEF TableInv, AnswerIsExplained
<1>10. TableIsExplained'
  BY <1>1, <1>7, <1>8 DEF TableInv, TableIsExplained
<1>11. PanelHasACause' /\ (settled = "none" => wrapper)'
  BY <1>1 DEF TableInv, PanelHasACause, NoneShown
<1> QED BY <1>4, <1>5, <1>6, <1>9, <1>10, <1>11 DEF TableInv

-----------------------------------------------------------------------------
(* The steps of the calls.                                                   *)

\* A row that was in B is taken out of it, and with it the call that hid or deleted it.
LEMMA ExplainsWithoutRow ==
  ASSUME NEW B \in Snapshot, NEW st \in Snapshot, NEW k, NEW cs, NEW c \in cs, NEW away,
         Explains(B, k, st, cs), DoneIn(st, c), c.row \in Rows, B[c.row].place = "in",
         \A x \in cs : x.row \in Rows /\ x.op \in Table!Ops,
         \/ c.op = "delete" /\ away = "gone"
         \/ c.op = "hide" /\ away = "out"
  PROVE  Explains([B EXCEPT ![c.row].place = away], k, st, cs \ {c})
PROOF
<1> DEFINE A == [B EXCEPT ![c.row].place = away]
           left == cs \ {c}
<1>1. /\ A[c.row].place = away /\ A[c.row].rev = B[c.row].rev
      /\ \A r \in Rows : r # c.row => A[r] = B[r]
  BY DEF Snapshot
<1>2. away \in {"out", "gone"} /\ st[c.row].place \in {"out", "gone"} /\ (away = "gone" => st[c.row].place = "gone")
  BY DEF DoneIn
<1>3. \A x \in left : x \in cs
  OBVIOUS
<1>4. \A x \in cs : x.row # c.row \/ x.op # c.op => x \in left
  OBVIOUS
<1> HIDE DEF A, left
<1>5. ASSUME NEW r \in Rows
      PROVE  /\ st[r].place \in Beyond(A[r].place)
             /\ A[r].place # st[r].place =>
                  \E x \in left : x.row = r /\ Accepted(x) /\ x.reply.clock > k /\ x.op = LeadsTo(st[r].place)
             /\ {A[r].place, st[r].place} \subseteq {"in", "out"} /\ A[r].rev # st[r].rev =>
                  \E x \in left : x.row = r /\ Accepted(x) /\ x.reply.clock > k /\ x.op = "update" /\ x.reply.rev = st[r].rev
  <2>1. CASE r # c.row
    BY <1>1, <1>4, <2>1 DEF Explains
  <2>2. CASE r = c.row
    <3>1. st[r].place \in Beyond(A[r].place)
      BY <1>1, <1>2, <2>2, PlacesAreOrdered
    <3>2. ASSUME A[r].place # st[r].place
          PROVE  \E x \in left : x.row = r /\ Accepted(x) /\ x.reply.clock > k /\ x.op = LeadsTo(st[r].place)
      <4>1. c.op = "hide" /\ st[r].place = "gone" /\ LeadsTo(st[r].place) = "delete"
        BY <1>1, <1>2, <2>2, <3>2, PlacesAreOrdered
      <4>2. PICK x \in cs : x.row = r /\ Accepted(x) /\ x.reply.clock > k /\ x.op = LeadsTo(st[r].place)
        BY <2>2, <4>1 DEF Explains
      <4> QED BY <1>4, <4>1, <4>2
    <3>3. ASSUME {A[r].place, st[r].place} \subseteq {"in", "out"}, A[r].rev # st[r].rev
          PROVE  \E x \in left : x.row = r /\ Accepted(x) /\ x.reply.clock > k /\ x.op = "update" /\ x.reply.rev = st[r].rev
      <4>1. PICK x \in cs : x.row = r /\ Accepted(x) /\ x.reply.clock > k /\ x.op = "update" /\ x.reply.rev = st[r].rev
        BY <1>1, <2>2, <3>3 DEF Explains
      <4>2. c.op # "update"
        OBVIOUS
      <4> QED BY <1>4, <4>1, <4>2
    <3> QED BY <3>1, <3>2, <3>3
  <2> QED BY <2>1, <2>2
<1>6. ASSUME NEW x \in left, Accepted(x)
      PROVE  IF x.reply.clock <= k THEN DoneIn(A, x) ELSE x.op = "create" => A[x.row].place = "absent"
  <2>1. /\ x \in cs /\ x.row \in Rows /\ x.op \in Table!Ops
        /\ IF x.reply.clock <= k THEN DoneIn(B, x) ELSE x.op = "create" => B[x.row].place = "absent"
    BY <1>3, <1>6 DEF Explains
  <2>2. CASE x.row # c.row
    BY <1>1, <2>1, <2>2 DEF DoneIn
  <2>3. CASE x.row = c.row
    BY <1>1, <1>2, <2>1, <2>3 DEF DoneIn
  <2> QED BY <2>2, <2>3
<1>7. Explains(A, k, st, left)
  BY <1>5, <1>6 DEF Explains
<1> QED BY <1>7 DEF A, left

\* A row of B is brought to the revision of a call that wrote it, unless it is newer already.
LEMMA ExplainsEdit ==
  ASSUME NEW B \in Snapshot, NEW st \in Snapshot, NEW k, NEW cs, NEW c \in cs,
         Explains(B, k, st, cs), DoneIn(st, c), c.row \in Rows, B[c.row].place = "in",
         \A x \in cs : x.row \in Rows /\ x.op \in Table!Ops,
         \A x \in cs : Accepted(x) => x.reply.rev \in Nat,
         c.op \in {"update", "create"}, c.reply.rev \in 0..MaxRev, B[c.row].rev <= c.reply.rev
  PROVE  Explains([B EXCEPT ![c.row].rev = c.reply.rev], k, st, cs \ {c})
PROOF
<1> DEFINE A == [B EXCEPT ![c.row].rev = c.reply.rev]
           left == cs \ {c}
<1>1. /\ A[c.row].place = "in" /\ A[c.row].rev = c.reply.rev
      /\ \A r \in Rows : r # c.row => A[r] = B[r]
  BY DEF Snapshot
<1>2. /\ c.reply.rev \in Nat /\ B[c.row].rev \in Nat /\ st[c.row].rev \in Nat
      /\ st[c.row].place \in Beyond("in")
      /\ (st[c.row].place \in {"in", "out"} => c.reply.rev <= st[c.row].rev)
  <2>1. /\ c.reply.rev \in Nat /\ B[c.row].rev \in Nat /\ st[c.row].rev \in Nat
    BY TableBounds DEF Snapshot
  <2>2. st[c.row].place \in Beyond("in")
    BY DEF Explains
  <2>3. st[c.row].place \in {"in", "out"} => c.reply.rev <= st[c.row].rev
    BY <2>1 DEF DoneIn
  <2> QED BY <2>1, <2>2, <2>3
<1>3. \A x \in left : x \in cs
  OBVIOUS
<1>4. \A x \in cs : x.row # c.row \/ x.op # c.op \/ x.reply.rev # c.reply.rev => x \in left
  OBVIOUS
<1> HIDE DEF A, left
<1>5. ASSUME NEW r \in Rows
      PROVE  /\ st[r].place \in Beyond(A[r].place)
             /\ A[r].place # st[r].place =>
                  \E x \in left : x.row = r /\ Accepted(x) /\ x.reply.clock > k /\ x.op = LeadsTo(st[r].place)
             /\ {A[r].place, st[r].place} \subseteq {"in", "out"} /\ A[r].rev # st[r].rev =>
                  \E x \in left : x.row = r /\ Accepted(x) /\ x.reply.clock > k /\ x.op = "update" /\ x.reply.rev = st[r].rev
  <2>1. CASE r # c.row
    BY <1>1, <1>4, <2>1 DEF Explains
  <2>2. CASE r = c.row
    <3>1. st[r].place \in Beyond(A[r].place)
      BY <1>1, <1>2, <2>2
    <3>2. ASSUME A[r].place # st[r].place
          PROVE  \E x \in left : x.row = r /\ Accepted(x) /\ x.reply.clock > k /\ x.op = LeadsTo(st[r].place)
      <4>1. LeadsTo(st[r].place) \in {"hide", "delete"}
        BY <1>1, <1>2, <2>2, <3>2, PlacesAreOrdered
      <4>2. PICK x \in cs : x.row = r /\ Accepted(x) /\ x.reply.clock > k /\ x.op = LeadsTo(st[r].place)
        BY <1>1, <2>2, <3>2 DEF Explains
      <4> QED BY <1>4, <4>1, <4>2
    <3>3. ASSUME {A[r].place, st[r].place} \subseteq {"in", "out"}, A[r].rev # st[r].rev
          PROVE  \E x \in left : x.row = r /\ Accepted(x) /\ x.reply.clock > k /\ x.op = "update" /\ x.reply.rev = st[r].rev
      <4>1. c.reply.rev <= st[r].rev /\ c.reply.rev # st[r].rev /\ {B[r].place, st[r].place} \subseteq {"in", "out"}
        BY <1>1, <1>2, <2>2, <3>3
      <4>2. B[r].rev # st[r].rev
        BY <1>2, <2>2, <4>1
      <4>3. PICK x \in cs : x.row = r /\ Accepted(x) /\ x.reply.clock > k /\ x.op = "update" /\ x.reply.rev = st[r].rev
        BY <4>1, <4>2 DEF Explains
      <4> QED BY <1>4, <4>1, <4>3
    <3> QED BY <3>1, <3>2, <3>3
  <2> QED BY <2>1, <2>2
<1>6. ASSUME NEW x \in left, Accepted(x)
      PROVE  IF x.reply.clock <= k THEN DoneIn(A, x) ELSE x.op = "create" => A[x.row].place = "absent"
  <2>1. /\ x \in cs /\ x.row \in Rows /\ x.op \in Table!Ops /\ x.reply.rev \in Nat
        /\ IF x.reply.clock <= k THEN DoneIn(B, x) ELSE x.op = "create" => B[x.row].place = "absent"
    BY <1>3, <1>6 DEF Explains
  <2>2. CASE x.row # c.row
    BY <1>1, <2>1, <2>2 DEF DoneIn
  <2>3. CASE x.row = c.row
    BY <1>1, <1>2, <2>1, <2>3 DEF DoneIn
  <2> QED BY <2>2, <2>3
<1>7. Explains(A, k, st, left)
  BY <1>5, <1>6 DEF Explains
<1> QED BY <1>7 DEF A, left

\* What the server does for a call it accepts.
LEMMA ChangesAreOfRows ==
  ASSUME TableShape, NEW op \in Table!Ops, NEW r \in Rows, ~Table!Refuses(op, r)
  PROVE  /\ Table!Changed(op, r) \in [place : Places, rev : 0..MaxRev]
         /\ op = "create" => stored[r].place = "absent" /\ Table!Changed(op, r) = [place |-> "in", rev |-> 0]
         /\ op = "hide" => stored[r].place = "in" /\ Table!Changed(op, r) = [stored[r] EXCEPT !.place = "out"]
         /\ op = "delete" => stored[r].place \in {"in", "out"} /\ Table!Changed(op, r) = [place |-> "gone", rev |-> 0]
         /\ op = "update" => /\ stored[r].place \in {"in", "out"}
                             /\ Table!Changed(op, r) = [stored[r] EXCEPT !.rev = @ + 1]
PROOF
<1>1. stored[r] \in [place : Places, rev : 0..MaxRev] /\ 0 \in 0..MaxRev /\ MaxRev \in Nat
  BY TableBounds DEF TableShape, Snapshot
<1>2. CASE op = "create"
  BY <1>1, <1>2 DEF Table!Refuses, Table!Changed, Places
<1>3. CASE op = "hide"
  BY <1>1, <1>3 DEF Table!Refuses, Table!Changed, Places
<1>4. CASE op = "delete"
  BY <1>1, <1>4 DEF Table!Refuses, Table!Changed, Places
<1>5. CASE op = "update"
  <2>1. stored[r].place \in {"in", "out"} /\ stored[r].rev # MaxRev
    BY <1>5 DEF Table!Refuses
  <2>2. Table!Changed(op, r) = [stored[r] EXCEPT !.rev = @ + 1]
    BY <1>5 DEF Table!Changed
  <2>3. stored[r].rev + 1 \in 0..MaxRev
    BY <1>1, <2>1
  <2> QED BY <1>1, <1>5, <2>1, <2>2, <2>3
<1> QED BY <1>2, <1>3, <1>4, <1>5 DEF Table!Ops

\* A call that is refused, or whose answer is on its way, explains nothing.
LEMMA RefusalKeepsTable ==
  ASSUME TableInv, NEW c \in calls, Table!Execute(c), Table!Refuses(c.op, c.row) PROVE TableInv'
PROOF
<1> DEFINE d == [c EXCEPT !.reply = [ok |-> FALSE, clock |-> 0, rev |-> 0]]
<1>1. /\ c.reply = None /\ calls' = (calls \ {c}) \cup {d}
      /\ UNCHANGED <<stored, clock, made, shown, totals, pager, iDraw, start, draws, wrapper, waiting, timers,
                     seen, base, removed, askedAt, astray, settled>>
  BY DEF Table!Execute, Table!table
<1>2. c \in Call /\ clock \in Nat
  BY DEF TableInv, RequestsAreNumbered
<1>3. d \in Call /\ ~Accepted(d) /\ ~d.reply.ok
  <2>1. [ok |-> FALSE, clock |-> 0, rev |-> 0] \in CallReply
    BY <1>2, TableBounds DEF CallReply
  <2>2. d \in Call
    BY <1>2, <2>1 DEF Call
  <2>3. d.reply = [ok |-> FALSE, clock |-> 0, rev |-> 0]
    BY <1>2 DEF Call
  <2>4. ~d.reply.ok /\ d.reply.clock = 0
    BY <2>3
  <2> HIDE DEF d
  <2> QED BY <2>2, <2>4 DEF Accepted
<1> HIDE DEF d
<1>4. TableShape'
  BY <1>1 DEF TableInv, TableShape
<1>5. RequestsAreNumbered'
  <2>1. Draw' = Draw /\ Call' = Call
    BY <1>1 DEF Draw, PageReply, Call, CallReply
  <2> QED BY <1>1, <1>3, <2>1 DEF TableInv, RequestsAreNumbered
<1>6. CallsStayDone'
  BY <1>1, <1>3 DEF TableInv, CallsStayDone
<1>7. \A B \in Snapshot, k \in Nat : Explains(B, k, stored, calls) => Explains(B, k, stored', calls')
  <2> TAKE B \in Snapshot, k \in Nat
  <2> HAVE Explains(B, k, stored, calls)
  <2>1. ~Accepted(c)
    BY <1>1 DEF Accepted
  <2> QED BY <1>1, <1>3, <2>1, ExplainsStays
<1>8. Newest' = Newest /\ (\A q \in Newest : q.reply # None => q.reply.clock \in Nat) /\ base \in Nat
  BY <1>1 DEF Newest, TableInv, RequestsAreNumbered, Draw, PageReply
<1>9. AnswerIsExplained'
  BY <1>1, <1>7, <1>8 DEF TableInv, AnswerIsExplained
<1>10. TableIsExplained'
  BY <1>1, <1>7, <1>8 DEF TableInv, TableIsExplained
<1>11. PanelHasACause' /\ (settled = "none" => wrapper)'
  BY <1>1 DEF TableInv, PanelHasACause, NoneShown
<1> QED BY <1>4, <1>5, <1>6, <1>9, <1>10, <1>11 DEF TableInv

\* A call that changes a row of the server is the cause of what is different from now on.
LEMMA ExecutionKeepsTable ==
  ASSUME TableInv, NEW c \in calls, Table!Execute(c), ~Table!Refuses(c.op, c.row) PROVE TableInv'
PROOF
<1>1. PICK ok \in BOOLEAN :
        calls' = (calls \ {c}) \cup
          {[c EXCEPT !.reply = [ok |-> ok, clock |-> clock + 1, rev |-> stored'[c.row].rev]]}
  BY DEF Table!Execute
<1>2. /\ c.reply = None /\ clock' = clock + 1
      /\ stored' = [stored EXCEPT ![c.row] = Table!Changed(c.op, c.row)]
      /\ UNCHANGED <<made, shown, totals, pager, iDraw, start, draws, wrapper, waiting, timers,
                     seen, base, removed, askedAt, astray, settled>>
  BY DEF Table!Execute, Table!table
<1>3. /\ c \in Call /\ c.row \in Rows /\ c.op \in Table!Ops /\ clock \in Nat /\ TableShape
      /\ seen \in 0..clock /\ base \in 0..clock /\ stored \in Snapshot
  BY DEF TableInv, TableShape, RequestsAreNumbered, Call
<1>4. /\ Table!Changed(c.op, c.row) \in [place : Places, rev : 0..MaxRev]
      /\ c.op = "create" => stored[c.row].place = "absent" /\ Table!Changed(c.op, c.row) = [place |-> "in", rev |-> 0]
      /\ c.op = "hide" => stored[c.row].place = "in" /\ Table!Changed(c.op, c.row) = [stored[c.row] EXCEPT !.place = "out"]
      /\ c.op = "delete" => stored[c.row].place \in {"in", "out"} /\ Table!Changed(c.op, c.row) = [place |-> "gone", rev |-> 0]
      /\ c.op = "update" => /\ stored[c.row].place \in {"in", "out"}
                            /\ Table!Changed(c.op, c.row) = [stored[c.row] EXCEPT !.rev = @ + 1]
  BY <1>3, ChangesAreOfRows
<1>5. stored'[c.row] = Table!Changed(c.op, c.row) /\ (\A r \in Rows : r # c.row => stored'[r] = stored[r])
  BY <1>2, <1>3 DEF Snapshot
<1>6. stored' \in Snapshot
  BY <1>2, <1>3, <1>4 DEF Snapshot
<1> DEFINE d == [c EXCEPT !.reply = [ok |-> ok, clock |-> clock + 1, rev |-> stored'[c.row].rev]]
<1>7. [ok |-> ok, clock |-> clock + 1, rev |-> stored'[c.row].rev] \in CallReply'
  BY <1>2, <1>3, <1>6 DEF CallReply, Snapshot
<1>8. /\ d \in Call' /\ d.row = c.row /\ d.op = c.op /\ d.reply \in CallReply'
      /\ d.reply.clock = clock + 1 /\ d.reply.rev = stored'[c.row].rev /\ d.reply # None
  <2>1. d.row = c.row /\ d.op = c.op
        /\ d.reply = [ok |-> ok, clock |-> clock + 1, rev |-> stored'[c.row].rev]
    BY <1>3 DEF Call
  <2>2. d \in Call'
    BY <1>2, <1>3, <1>7 DEF Call
  <2>3. CallReply' \subseteq [ok : BOOLEAN, clock : Nat, rev : Nat]
    BY <1>2, <1>3, TableBounds DEF CallReply
  <2>4. d.reply # None
    BY <1>7, <2>1, <2>3, PagesAssumption
  <2> QED BY <1>7, <2>1, <2>2, <2>4
<1>9. calls' = (calls \ {c}) \cup {d}
  BY <1>1
<1> HIDE DEF d
<1>10. Accepted(d) /\ ~Accepted(c) /\ clock + 1 \in Nat
  BY <1>2, <1>3, <1>8 DEF Accepted
<1>11. TableShape'
  BY <1>2, <1>3, <1>6 DEF TableShape
<1>12. RequestsAreNumbered'
  <2>1. Draw \subseteq Draw' /\ Call \subseteq Call'
    BY <1>2, <1>3 DEF Draw, PageReply, Call, CallReply
  <2>2. clock' \in Nat /\ seen' \in 0..clock' /\ base' \in 0..clock'
    BY <1>2, <1>3
  <2>3. draws' \subseteq Draw' /\ calls' \subseteq Call'
    BY <1>2, <1>8, <1>9, <2>1 DEF TableInv, RequestsAreNumbered
  <2>4. \A x \in calls' : x.reply # None => (x.reply.ok => x.reply.clock > 0)
    <3>1. d.reply.clock > 0
      BY <1>3, <1>8
    <3> QED BY <1>9, <3>1 DEF TableInv, RequestsAreNumbered
  <2> QED BY <1>2, <2>2, <2>3, <2>4 DEF TableInv, RequestsAreNumbered
<1>13. /\ d.op = "create" => stored[d.row].place = "absent" /\ stored'[d.row].place = "in" /\ stored'[d.row].rev = 0
       /\ d.op = "hide" => stored[d.row].place = "in" /\ stored'[d.row] = [stored[d.row] EXCEPT !.place = "out"]
       /\ d.op = "delete" => stored[d.row].place \in {"in", "out"} /\ stored'[d.row].place = "gone"
       /\ d.op = "update" => /\ stored[d.row].place \in {"in", "out"} /\ stored'[d.row].place = stored[d.row].place
                             /\ stored'[d.row].rev = stored[d.row].rev + 1
  BY <1>3, <1>4, <1>5, <1>8 DEF Snapshot
<1>14. CallsStayDone'
  <2>1. SUFFICES ASSUME NEW x \in calls', Accepted(x) PROVE DoneIn(stored', x)
    BY DEF CallsStayDone
  <2>2. CASE x = d
    <3>1. d.op = "hide" => stored'[d.row].place = "out"
      BY <1>3, <1>8, <1>13 DEF Snapshot
    <3>2. stored'[d.row].rev \in Nat
      BY <1>3, <1>6, <1>8 DEF Snapshot
    <3> QED BY <1>3, <1>8, <1>13, <2>2, <3>1, <3>2 DEF DoneIn
  <2>3. CASE x # d
    <3>1. x \in calls /\ DoneIn(stored, x) /\ x.row \in Rows /\ x.op \in Table!Ops
      BY <1>9, <2>1, <2>3 DEF TableInv, CallsStayDone, RequestsAreNumbered, Call
    <3>2. CASE x.row # d.row
      BY <1>5, <1>8, <3>1, <3>2 DEF DoneIn
    <3>3. CASE x.row = d.row
      <4>1. x.reply.rev \in Nat /\ stored[d.row].rev \in Nat
        <5>1. x.reply \in CallReply
          BY <2>1, <3>1 DEF Accepted, TableInv, RequestsAreNumbered, Call
        <5> QED BY <1>3, <1>8, <5>1 DEF CallReply, Snapshot
      <4>2. d.op = "hide" => stored'[d.row].place = "out" /\ stored'[d.row].rev = stored[d.row].rev
        BY <1>3, <1>8, <1>13 DEF Snapshot
      <4>3. d.op \in {"create", "hide", "delete", "update"}
        BY <1>3, <1>8 DEF Table!Ops
      <4>4. CASE d.op = "create"
        BY <1>13, <3>1, <3>3, <4>4 DEF DoneIn, Table!Ops
      <4>5. CASE d.op = "hide"
        BY <1>13, <3>1, <3>3, <4>1, <4>2, <4>5 DEF DoneIn
      <4>6. CASE d.op = "delete"
        BY <1>13, <3>1, <3>3, <4>6 DEF DoneIn
      <4>7. CASE d.op = "update"
        BY <1>13, <3>1, <3>3, <4>1, <4>7 DEF DoneIn
      <4> QED BY <4>3, <4>4, <4>5, <4>6, <4>7
    <3> QED BY <3>2, <3>3
  <2> QED BY <2>2, <2>3
<1>15. ASSUME NEW B \in Snapshot, NEW k \in 0..clock, Explains(B, k, stored, calls)
       PROVE  Explains(B, k, stored', calls')
  <2>1. k \in Nat /\ d.reply.clock > k /\ d.reply.clock \in Nat
    BY <1>3, <1>8
  <2>2. d.row \in Rows /\ d.op \in Table!Ops
    BY <1>3, <1>8
  <2>3. Explains(B, k, stored', (calls \ {c}) \cup {d})
    BY <1>3, <1>5, <1>6, <1>8, <1>10, <1>13, <1>15, <2>1, <2>2, ExplainsMore
  <2> QED BY <1>9, <2>3
<1>16. Newest' = Newest /\ (\A q \in Newest : q.reply # None => q.reply.clock \in 0..clock)
  BY <1>2 DEF Newest, TableInv, RequestsAreNumbered, Draw, PageReply
<1>17. AnswerIsExplained'
  BY <1>2, <1>15, <1>16 DEF TableInv, AnswerIsExplained
<1>18. TableIsExplained'
  BY <1>2, <1>3, <1>15, <1>16 DEF TableInv, TableIsExplained
<1>19. PanelHasACause' /\ (settled = "none" => wrapper)'
  BY <1>2 DEF TableInv, PanelHasACause, NoneShown
<1> QED BY <1>11, <1>12, <1>14, <1>17, <1>18, <1>19 DEF TableInv

\* An edit that reaches the page makes every older answer to a request void.
LEMMA ReturnKeepsAnswers ==
  ASSUME TableInv, NEW c \in calls, c.reply # None, calls' = calls \ {c},
         seen' = Table!Latest(seen, c.reply.clock), UNCHANGED <<stored, iDraw, draws>>
  PROVE  AnswerIsExplained' /\ Newest' = Newest
PROOF
<1>1. Newest' = Newest
  BY DEF Newest
<1>2. SUFFICES ASSUME NEW q \in Newest, q.reply # None, q.reply.ok, q.reply.clock >= seen'
               PROVE  /\ \E B \in Snapshot : Shows(B, q.reply.rows, q.reply.totals, 0) /\ Explains(B, q.reply.clock, stored, calls')
                      /\ (\A r \in Rows : q.reply.rows[r] = None) => q.start >= q.reply.totals.filtered
  BY <1>1 DEF AnswerIsExplained
<1>3. /\ q.reply.clock \in Nat /\ c.reply.clock \in Nat /\ seen \in Nat
  BY <1>2 DEF TableInv, RequestsAreNumbered, Newest, Draw, PageReply, Call, CallReply
<1>4. q.reply.clock >= seen /\ ~(c.reply.clock > q.reply.clock)
  BY <1>2, <1>3 DEF Table!Latest
<1>5. PICK B \in Snapshot : Shows(B, q.reply.rows, q.reply.totals, 0) /\ Explains(B, q.reply.clock, stored, calls)
  BY <1>2, <1>4 DEF TableInv, AnswerIsExplained
<1>6. Explains(B, q.reply.clock, stored, calls')
  <2>1. \A x \in calls : Accepted(x) /\ x.reply.clock > q.reply.clock => x \in calls'
    BY <1>4
  <2>2. \A x \in calls' : Accepted(x) => x \in calls
    OBVIOUS
  <2> QED BY <1>5, <2>1, <2>2, ExplainsStays
<1>7. (\A r \in Rows : q.reply.rows[r] = None) => q.start >= q.reply.totals.filtered
  BY <1>2, <1>4 DEF TableInv, AnswerIsExplained
<1> QED BY <1>5, <1>6, <1>7

\* What every answer to a call leaves as it is.
LEMMA ReturnIsOfOneCall ==
  ASSUME TableInv, NEW c \in calls, Table!Return(c)
  PROVE  /\ c.reply # None /\ calls' = calls \ {c} /\ seen' = Table!Latest(seen, c.reply.clock)
         /\ UNCHANGED <<stored, clock, made, look, faults, base>>
         /\ c \in Call /\ c.row \in Rows /\ c.op \in Table!Ops
         /\ c.reply \in CallReply /\ c.reply.clock \in Nat /\ c.reply.rev \in 0..MaxRev
         /\ clock' \in Nat /\ seen' \in 0..clock' /\ base' \in 0..clock' /\ made' \in Nat /\ calls' \subseteq Call'
         /\ (\A x \in calls' : x.reply # None => (x.reply.ok => x.reply.clock > 0))
         /\ CallsStayDone' /\ (c.reply.ok => Accepted(c) /\ DoneIn(stored, c))
PROOF
<1>1. /\ c.reply # None /\ calls' = calls \ {c} /\ seen' = Table!Latest(seen, c.reply.clock)
      /\ UNCHANGED <<stored, clock, made, look, faults, base>>
  BY DEF Table!Return
<1>2. c \in Call /\ c.row \in Rows /\ c.op \in Table!Ops /\ c.reply \in CallReply
  BY <1>1 DEF TableInv, RequestsAreNumbered, Call
<1>3. clock \in Nat /\ seen \in 0..clock /\ base \in 0..clock /\ made \in Nat
  BY DEF TableInv, RequestsAreNumbered
<1>4. c.reply.clock \in 0..clock /\ c.reply.clock \in Nat /\ c.reply.rev \in 0..MaxRev
  BY <1>2, <1>3 DEF CallReply
<1>5. clock' \in Nat /\ seen' \in 0..clock' /\ base' \in 0..clock' /\ made' \in Nat
  BY <1>1, <1>3, <1>4 DEF Table!Latest
<1>6. calls' \subseteq Call' /\ (\A x \in calls' : x.reply # None => (x.reply.ok => x.reply.clock > 0))
  <2>1. Call' = Call
    BY <1>1 DEF Call, CallReply
  <2> QED BY <1>1, <2>1 DEF TableInv, RequestsAreNumbered
<1>7. CallsStayDone'
  BY <1>1 DEF TableInv, CallsStayDone
<1>8. c.reply.ok => Accepted(c) /\ DoneIn(stored, c)
  BY <1>1 DEF TableInv, RequestsAreNumbered, CallsStayDone, Accepted
<1> QED BY <1>1, <1>2, <1>4, <1>5, <1>6, <1>7, <1>8

\* The answer of a call that failed, or was lost.
LEMMA FailureKeepsTable ==
  ASSUME TableInv, NEW c \in calls, Table!Return(c), ~c.reply.ok PROVE TableInv'
PROOF
<1>1. /\ astray' = (astray \/ base < c.reply.clock)
      /\ UNCHANGED <<shown, totals, pager, removed, askedAt, iDraw, start, draws, wrapper, waiting, timers, settled>>
  BY DEF Table!Return
<1>2. /\ c.reply # None /\ calls' = calls \ {c} /\ seen' = Table!Latest(seen, c.reply.clock)
      /\ UNCHANGED <<stored, clock, made, look, faults, base>>
      /\ c.reply.clock \in Nat
      /\ clock' \in Nat /\ seen' \in 0..clock' /\ base' \in 0..clock' /\ made' \in Nat /\ calls' \subseteq Call'
      /\ (\A x \in calls' : x.reply # None => (x.reply.ok => x.reply.clock > 0))
      /\ CallsStayDone'
  BY ReturnIsOfOneCall
<1>3. TableShape'
  BY <1>1, <1>2 DEF TableInv, TableShape
<1>4. RequestsAreNumbered'
  <2>1. Draw' = Draw
    BY <1>1, <1>2 DEF Draw, PageReply
  <2> QED BY <1>1, <1>2, <2>1 DEF TableInv, RequestsAreNumbered
<1>5. AnswerIsExplained' /\ Newest' = Newest
  BY <1>1, <1>2, ReturnKeepsAnswers
<1>6. TableIsExplained'
  <2>1. SUFFICES ASSUME Newest = {}, ~astray'
                 PROVE  /\ \E B \in Snapshot : Shows(B, shown, totals, removed) /\ Explains(B, base, stored, calls')
                        /\ (\A r \in Rows : shown[r] = None) => askedAt >= totals.filtered /\ removed = 0
    BY <1>1, <1>2, <1>5 DEF TableIsExplained
  <2>2. ~astray /\ ~(base < c.reply.clock)
    BY <1>1, <2>1
  <2>3. base \in Nat
    BY DEF TableInv, RequestsAreNumbered
  <2>4. PICK B \in Snapshot : Shows(B, shown, totals, removed) /\ Explains(B, base, stored, calls)
    BY <2>1, <2>2 DEF TableInv, TableIsExplained
  <2>5. \A x \in calls : Accepted(x) /\ x.reply.clock > base => x \in calls'
    BY <1>2, <2>2, <2>3
  <2>6. \A x \in calls' : Accepted(x) => x \in calls
    BY <1>2
  <2>7. Explains(B, base, stored, calls')
    BY <2>4, <2>5, <2>6, ExplainsStays
  <2> QED BY <2>1, <2>2, <2>4, <2>7 DEF TableInv, TableIsExplained
<1>7. PanelHasACause' /\ (settled = "none" => wrapper)'
  BY <1>1 DEF TableInv, PanelHasACause, NoneShown
<1> QED BY <1>2, <1>3, <1>4, <1>5, <1>6, <1>7 DEF TableInv

\* The answer is about a row that is not in the table: the table is asked for again.
LEMMA MissingRowKeepsTable ==
  ASSUME TableInv, NEW c \in calls, Table!Return(c), c.reply.ok, shown[c.row] = None PROVE TableInv'
PROOF
<1>1. /\ Table!Request(start) /\ UNCHANGED <<shown, totals, pager, removed, askedAt, wrapper, settled>>
      /\ astray' = (astray \/ (shown[c.row] # None
                               /\ (c.reply.clock < base
                                   \/ (c.op \in {"update", "create"} /\ c.reply.rev < shown[c.row]))))
  BY DEF Table!Return, Table!Apply, Table!ReloadWhenMissing, Table!Reload
<1>2. /\ c.reply # None /\ calls' = calls \ {c} /\ seen' = Table!Latest(seen, c.reply.clock)
      /\ UNCHANGED <<stored, clock, made, look, faults, base>>
      /\ clock' \in Nat /\ seen' \in 0..clock' /\ base' \in 0..clock' /\ made' \in Nat /\ calls' \subseteq Call'
      /\ (\A x \in calls' : x.reply # None => (x.reply.ok => x.reply.clock > 0))
      /\ CallsStayDone'
  BY ReturnIsOfOneCall
<1>3. TableShape /\ RequestsAreNumbered /\ start \in {0, PageLength}
  BY DEF TableInv, TableShape
<1>4. /\ iDraw' \in 1..MaxDraws /\ start' \in {0, PageLength} /\ waiting' \in BOOLEAN
      /\ draws' \subseteq Draw'
      /\ (\A p, q \in draws' : p.draw = q.draw => p = q)
      /\ AnswerIsExplained' /\ TableIsExplained'
  BY <1>1, <1>2, <1>3, RequestIsOpen
<1>5. astray' \in BOOLEAN
  BY <1>1
<1>6. TableShape'
  BY <1>1, <1>2, <1>3, <1>4, <1>5 DEF TableShape
<1>7. RequestsAreNumbered'
  BY <1>2, <1>4 DEF RequestsAreNumbered
<1>8. PanelHasACause' /\ (settled = "none" => wrapper)'
  BY <1>1 DEF TableInv, PanelHasACause, NoneShown
<1> QED BY <1>2, <1>4, <1>6, <1>7, <1>8 DEF TableInv

\* Nothing overtook the answer that is applied, when the table is not astray after it.
LEMMA AppliedInOrder ==
  ASSUME TableInv, NEW c \in calls, Table!Return(c), c.reply.ok, shown[c.row] # None
  PROVE  /\ Table!Apply(c) /\ settled' = "edited" /\ astray' \in BOOLEAN
         /\ (~astray' => ~astray /\ (c.op \in {"update", "create"} => ~(c.reply.rev < shown[c.row])))
PROOF
<1>1. /\ Table!Apply(c) /\ settled' = "edited"
      /\ astray' = (astray \/ (shown[c.row] # None
                               /\ (c.reply.clock < base
                                   \/ (c.op \in {"update", "create"} /\ c.reply.rev < shown[c.row]))))
  BY DEF Table!Return
<1>2. astray' \in BOOLEAN
  BY <1>1
<1>3. ~astray' => ~astray /\ (c.op \in {"update", "create"} => ~(c.reply.rev < shown[c.row]))
  BY <1>1
<1> QED BY <1>1, <1>2, <1>3

\* A start that is moved because its page is gone is the start of a page.
LEMMA PageStaysAPage ==
  ASSUME start \in {0, PageLength}, NEW n \in Nat PROVE Table!Overflowed(n) \in {0, PageLength}
PROOF
<1> DEFINE end == Table!Least(start + PageLength, n)
           s == IF start < end THEN start ELSE Table!From(PageLength, end)
<1>1. PageLength \in Nat /\ PageLength # 0 /\ start \in Nat /\ start <= PageLength
  BY TableBounds
<1>2. end \in Nat
  BY <1>1 DEF Table!Least
<1>3. ~(start < end) => Table!From(PageLength, end) = 0
  BY <1>1, <1>2 DEF Table!From
<1>4. s = 0 \/ s = PageLength
  BY <1>3
<1>5. 0 % PageLength = 0 /\ PageLength % PageLength = 0
  BY <1>1
<1>6. Table!Overflowed(n) = s - (s % PageLength)
  BY DEF Table!Overflowed
<1> HIDE DEF s
<1> QED BY <1>1, <1>4, <1>5, <1>6

\* A row was deleted or hidden: it is taken out, the total counts one less and the
\* filtered counter two.
LEMMA RemovalKeepsTable ==
  ASSUME TableInv, NEW c \in calls, Table!Return(c), c.reply.ok, shown[c.row] # None,
         c.op \in {"delete", "hide"}
  PROVE  TableInv'
PROOF
<1> DEFINE gone == c.op = "delete"
           away == IF c.op = "delete" THEN "gone" ELSE "out"
           left == [shown EXCEPT ![c.row] = None]
           first == Table!Overflowed(Table!MinusOne(totals.filtered))
<1>1. /\ Table!Apply(c) /\ settled' = "edited" /\ astray' \in BOOLEAN /\ (~astray' => ~astray)
  BY AppliedInOrder
<1>2. /\ c.reply # None /\ calls' = calls \ {c} /\ seen' = Table!Latest(seen, c.reply.clock)
      /\ UNCHANGED <<stored, clock, made, look, faults, base>> /\ c.row \in Rows
      /\ clock' \in Nat /\ seen' \in 0..clock' /\ base' \in 0..clock' /\ made' \in Nat /\ calls' \subseteq Call'
      /\ (\A x \in calls' : x.reply # None => (x.reply.ok => x.reply.clock > 0))
      /\ CallsStayDone' /\ DoneIn(stored, c)
  BY ReturnIsOfOneCall
<1>3. /\ shown' = left /\ removed' = removed + 1
      /\ totals' = Table!Corrected(gone)
      /\ wrapper' = (Table!Shown(left) # {})
      /\ IF Table!Shown(left) = {} THEN Table!Request(first)
         ELSE start' = first /\ UNCHANGED <<iDraw, draws, waiting, timers>>
      /\ UNCHANGED <<pager, askedAt>>
  <2>1. CASE c.op = "delete"
    <3>1. Table!RemoveRow(c.row, TRUE)
      BY <1>1, <2>1 DEF Table!Apply
    <3> QED BY <2>1, <3>1 DEF Table!RemoveRow
  <2>2. CASE c.op = "hide"
    <3>1. Table!RemoveRow(c.row, FALSE)
      BY <1>1, <2>2 DEF Table!Apply
    <3> QED BY <2>2, <3>1 DEF Table!RemoveRow
  <2> QED BY <2>1, <2>2
<1>4. /\ TableShape /\ RequestsAreNumbered /\ start \in {0, PageLength} /\ shown \in [Rows -> Table!Revs]
      /\ totals \in Counters /\ Cardinality(Rows) \in Nat
  BY TableBounds DEF TableInv, TableShape
<1>5. left \in [Rows -> Table!Revs] /\ left[c.row] = None /\ (\A r \in Rows : r # c.row => left[r] = shown[r])
  BY <1>2, <1>4 DEF Table!Revs
<1>6. totals' \in Counters /\ removed \in Nat /\ removed' \in Nat
  BY <1>3, <1>4 DEF Table!Corrected, Table!MinusOne, Counters, TableShape
<1>20. first \in {0, PageLength}
  <2>1. Table!MinusOne(totals.filtered) \in Nat
    BY <1>4 DEF Counters, Table!MinusOne
  <2> QED BY <1>4, <2>1, PageStaysAPage
<1> HIDE DEF first
<1>7. (Table!Shown(left) = {}) <=> (\A r \in Rows : left[r] = None)
  BY DEF Table!Shown
<1> HIDE DEF left
<1>8. PanelHasACause' /\ (settled = "none" => wrapper)'
  BY <1>1, <1>3, <1>7 DEF PanelHasACause, NoneShown
<1>9. wrapper' \in BOOLEAN
  BY <1>3
<1>10. CASE Table!Shown(left) = {}
  <2>1. Table!Request(first)
    BY <1>3, <1>10
  <2>2. /\ iDraw' \in 1..MaxDraws /\ start' \in {0, PageLength} /\ waiting' \in BOOLEAN
        /\ draws' \subseteq Draw'
        /\ (\A p, q \in draws' : p.draw = q.draw => p = q)
          /\ AnswerIsExplained' /\ TableIsExplained'
    BY <1>2, <1>4, <1>20, <2>1, RequestIsOpen
  <2>3. TableShape'
    BY <1>1, <1>2, <1>3, <1>4, <1>5, <1>6, <1>9, <2>2 DEF TableShape
  <2>4. RequestsAreNumbered'
    BY <1>2, <2>2 DEF RequestsAreNumbered
  <2> QED BY <1>2, <1>8, <2>2, <2>3, <2>4 DEF TableInv
<1>11. CASE Table!Shown(left) # {}
  <2>1. start' = first /\ UNCHANGED <<iDraw, draws, waiting, timers>>
    BY <1>3, <1>11
  <2>2. TableShape'
    BY <1>1, <1>2, <1>3, <1>4, <1>5, <1>6, <1>9, <1>20, <2>1 DEF TableShape
  <2>3. RequestsAreNumbered'
    <3>1. Draw' = Draw
      BY <1>2, <2>1 DEF Draw, PageReply
    <3> QED BY <1>2, <2>1, <3>1 DEF TableInv, RequestsAreNumbered
  <2>4. AnswerIsExplained' /\ Newest' = Newest
    BY <1>2, <2>1, ReturnKeepsAnswers
  <2>5. TableIsExplained'
    <3>1. SUFFICES ASSUME Newest = {}, ~astray'
                   PROVE  /\ \E B \in Snapshot : Shows(B, left, totals', removed + 1) /\ Explains(B, base, stored, calls')
                          /\ (\A r \in Rows : left[r] = None) => askedAt >= totals'.filtered /\ removed' = 0
      BY <1>2, <1>3, <2>1, <2>4 DEF TableIsExplained
    <3>2. PICK B \in Snapshot : Shows(B, shown, totals, removed) /\ Explains(B, base, stored, calls)
      BY <1>1, <3>1 DEF TableInv, TableIsExplained
    <3>3. B[c.row].place = "in" /\ away \in Places
      BY <1>2, <3>2 DEF Shows, Places
    <3> DEFINE A == [B EXCEPT ![c.row].place = away]
    <3>4. /\ A \in Snapshot /\ A[c.row].place = away
          /\ \A r \in Rows : r # c.row => A[r] = B[r]
      BY <1>2, <3>2, <3>3 DEF Snapshot
    <3>5. Explains(A, base, stored, calls')
      <4>1. stored \in Snapshot /\ (\A x \in calls : x.row \in Rows /\ x.op \in Table!Ops)
        BY DEF TableInv, TableShape, RequestsAreNumbered, Call
      <4>2. \/ c.op = "delete" /\ away = "gone"
            \/ c.op = "hide" /\ away = "out"
        OBVIOUS
      <4> HIDE DEF away
      <4>3. Explains([B EXCEPT ![c.row].place = away], base, stored, calls \ {c})
        BY <1>2, <3>2, <3>3, <4>1, <4>2, ExplainsWithoutRow
      <4> QED BY <1>2, <4>3
    <3> HIDE DEF A
    <3>6. Shows(A, left, totals', removed + 1)
      <4>1. /\ totals = [total |-> Cardinality(Kept(B)), filtered |-> Table!From(removed, Cardinality(Listed(B)))]
            /\ \A r \in Rows : shown[r] # None => B[r].place = "in" /\ shown[r] = B[r].rev
        BY <3>2 DEF Shows
      <4>2. Listed(B) \subseteq Rows /\ Kept(B) \subseteq Rows /\ c.row \in Listed(B) /\ c.row \in Kept(B)
        BY <1>2, <3>3 DEF Listed, Kept
      <4>3. Listed(A) = Listed(B) \ {c.row}
        BY <3>3, <3>4 DEF Listed
      <4>4. Kept(A) = IF gone THEN Kept(B) \ {c.row} ELSE Kept(B)
        BY <3>3, <3>4, <4>2 DEF Kept
      <4>5. /\ Table!MinusOne(Cardinality(Listed(B))) = Cardinality(Listed(B) \ {c.row})
            /\ Table!MinusOne(Cardinality(Kept(B))) = Cardinality(Kept(B) \ {c.row})
        BY <4>2, OneLessIsCounted
      <4>8. Table!MinusOne(Table!MinusOne(totals.filtered)) = Table!From(removed + 1, Cardinality(Listed(A)))
        <5>1. Cardinality(Listed(B)) \in Nat /\ Cardinality(Listed(B)) # 0
          BY <4>2, CountsAreBounded, TableBounds
        <5>2. Cardinality(Listed(A)) = Table!MinusOne(Cardinality(Listed(B)))
          BY <4>3, <4>5
        <5>3. totals.filtered = Table!From(removed, Cardinality(Listed(B)))
          BY <4>1
        <5> QED BY <1>6, <5>1, <5>2, <5>3 DEF Table!MinusOne, Table!From
      <4>6. totals' = [total |-> Cardinality(Kept(A)), filtered |-> Table!From(removed + 1, Cardinality(Listed(A)))]
        BY <1>3, <4>1, <4>4, <4>5, <4>8 DEF Table!Corrected
      <4>7. \A r \in Rows : left[r] # None => A[r].place = "in" /\ left[r] = A[r].rev
        BY <1>5, <3>4, <4>1
      <4> QED BY <4>6, <4>7 DEF Shows
    <3> QED BY <1>7, <1>11, <3>4, <3>5, <3>6
  <2> QED BY <1>2, <1>8, <2>2, <2>3, <2>4, <2>5 DEF TableInv
<1> QED BY <1>10, <1>11

\* A row was saved: it shows what was saved.
LEMMA EditKeepsTable ==
  ASSUME TableInv, NEW c \in calls, Table!Return(c), c.reply.ok, shown[c.row] # None,
         c.op \notin {"delete", "hide"}
  PROVE  TableInv'
PROOF
<1>1. /\ Table!Apply(c) /\ settled' = "edited" /\ astray' \in BOOLEAN
      /\ (~astray' => ~astray /\ (c.op \in {"update", "create"} => ~(c.reply.rev < shown[c.row])))
  BY AppliedInOrder
<1>2. /\ c.reply # None /\ calls' = calls \ {c} /\ seen' = Table!Latest(seen, c.reply.clock)
      /\ UNCHANGED <<stored, clock, made, look, faults, base>> /\ c.row \in Rows /\ c.op \in Table!Ops
      /\ c.reply.rev \in 0..MaxRev
      /\ clock' \in Nat /\ seen' \in 0..clock' /\ base' \in 0..clock' /\ made' \in Nat /\ calls' \subseteq Call'
      /\ (\A x \in calls' : x.reply # None => (x.reply.ok => x.reply.clock > 0))
      /\ CallsStayDone' /\ DoneIn(stored, c)
  BY ReturnIsOfOneCall
<1>3. c.op \in {"update", "create"}
  BY <1>2 DEF Table!Ops
<1>4. /\ shown' = [shown EXCEPT ![c.row] = c.reply.rev] /\ wrapper' = TRUE
      /\ UNCHANGED <<totals, pager, removed, askedAt, iDraw, start, draws, waiting, timers>>
  BY <1>1, <1>3 DEF Table!Apply, Table!UpdateRow, Table!Fresh
<1>5. TableShape /\ RequestsAreNumbered /\ shown \in [Rows -> Table!Revs] /\ c.reply.rev \in Nat /\ c.reply.rev # None
  BY <1>2, TableBounds DEF TableInv, TableShape
<1>6. /\ shown' \in [Rows -> Table!Revs] /\ shown'[c.row] = c.reply.rev /\ shown'[c.row] # None
      /\ (\A r \in Rows : r # c.row => shown'[r] = shown[r])
  BY <1>2, <1>4, <1>5 DEF Table!Revs
<1>7. TableShape'
  BY <1>1, <1>2, <1>4, <1>5, <1>6 DEF TableShape
<1>8. RequestsAreNumbered'
  <2>1. Draw' = Draw
    BY <1>2, <1>4 DEF Draw, PageReply
  <2> QED BY <1>2, <1>4, <2>1 DEF TableInv, RequestsAreNumbered
<1>9. AnswerIsExplained' /\ Newest' = Newest
  BY <1>2, <1>4, ReturnKeepsAnswers
<1>10. PanelHasACause' /\ (settled = "none" => wrapper)'
  BY <1>2, <1>4, <1>6 DEF PanelHasACause, NoneShown
<1>11. TableIsExplained'
  <2>1. SUFFICES ASSUME Newest = {}, ~astray'
                 PROVE  /\ \E B \in Snapshot : Shows(B, shown', totals, removed) /\ Explains(B, base, stored, calls')
                        /\ (\A r \in Rows : shown'[r] = None) => askedAt >= totals.filtered /\ removed = 0
    BY <1>2, <1>4, <1>9 DEF TableIsExplained
  <2>2. PICK B \in Snapshot : Shows(B, shown, totals, removed) /\ Explains(B, base, stored, calls)
    BY <1>1, <2>1 DEF TableInv, TableIsExplained
  <2>3. /\ totals = [total |-> Cardinality(Kept(B)), filtered |-> Table!From(removed, Cardinality(Listed(B)))]
        /\ \A r \in Rows : shown[r] # None => B[r].place = "in" /\ shown[r] = B[r].rev
    BY <2>2 DEF Shows
  <2>4. B[c.row].place = "in" /\ B[c.row].rev \in 0..MaxRev /\ shown[c.row] = B[c.row].rev
    BY <1>2, <2>3 DEF Snapshot
  <2>5. B[c.row].rev <= c.reply.rev
    <3>1. ~(c.reply.rev < shown[c.row])
      BY <1>1, <1>3, <2>1
    <3> QED BY <1>5, <2>4, <3>1, TableBounds
  <2> DEFINE A == [B EXCEPT ![c.row].rev = c.reply.rev]
  <2>6. /\ A \in Snapshot /\ A[c.row].rev = c.reply.rev
        /\ (\A r \in Rows : A[r].place = B[r].place) /\ (\A r \in Rows : r # c.row => A[r] = B[r])
    BY <1>2, <2>2 DEF Snapshot
  <2>7. Explains(A, base, stored, calls')
    <3>1. stored \in Snapshot /\ (\A x \in calls : x.row \in Rows /\ x.op \in Table!Ops)
      BY DEF TableInv, TableShape, RequestsAreNumbered, Call
    <3>2. \A x \in calls : Accepted(x) => x.reply.rev \in Nat
      BY TableBounds DEF TableInv, RequestsAreNumbered, Call, CallReply, Accepted
    <3>3. Explains([B EXCEPT ![c.row].rev = c.reply.rev], base, stored, calls \ {c})
      BY <1>2, <1>3, <2>2, <2>4, <2>5, <3>1, <3>2, ExplainsEdit
    <3> QED BY <1>2, <3>3
  <2> HIDE DEF A
  <2>8. Shows(A, shown', totals, removed)
    <3>1. Listed(A) = Listed(B) /\ Kept(A) = Kept(B)
      BY <2>6 DEF Listed, Kept
    <3>2. \A r \in Rows : shown'[r] # None => A[r].place = "in" /\ shown'[r] = A[r].rev
      BY <1>6, <2>3, <2>4, <2>6
    <3> QED BY <2>3, <3>1, <3>2 DEF Shows
  <2> QED BY <1>2, <1>6, <2>6, <2>7, <2>8
<1> QED BY <1>2, <1>7, <1>8, <1>9, <1>10, <1>11 DEF TableInv

-----------------------------------------------------------------------------
LEMMA TableStepsKeep ==
  ASSUME TableInv, Table!Next PROVE TableInv'
PROOF
<1>1. CASE Table!UseSkeleton
  <2>1. waiting' \in BOOLEAN
    BY <1>1 DEF Table!UseSkeleton, Table!table, TableInv, TableShape
  <2> QED BY <1>1, <2>1, LooksKeepTable DEF Table!UseSkeleton, Table!table
<1>2. CASE Table!Ask
  BY <1>2, AskKeepsTable
<1>3. CASE Table!Unblock
  BY <1>3, LooksKeepTable DEF Table!Unblock
<1>4. CASE \E q \in draws : Table!Reply(q) \/ Table!Settle(q)
  BY <1>4, ReplyKeepsTable, SettleKeepsTable
<1>5. CASE \E op \in Table!Ops, r \in Rows : Table!Send(op, r)
  BY <1>5, SendKeepsTable
<1>6. CASE \E c \in calls : Table!Execute(c) \/ Table!Return(c)
  <2>1. ASSUME NEW c \in calls, Table!Execute(c) PROVE TableInv'
    BY <2>1, RefusalKeepsTable, ExecutionKeepsTable
  <2>2. ASSUME NEW c \in calls, Table!Return(c) PROVE TableInv'
    BY <2>2, FailureKeepsTable, MissingRowKeepsTable, RemovalKeepsTable, EditKeepsTable
  <2> QED BY <1>6, <2>1, <2>2
<1> QED BY <1>1, <1>2, <1>3, <1>4, <1>5, <1>6 DEF Table!Next

\* Once no answer is out, nothing explains a difference: what is shown is what the server has.
LEMMA TableInvIsEnough ==
  ASSUME TableInv PROVE TableIsSound
PROOF
<1>1. Table!TypeOK /\ wrapper \in BOOLEAN /\ stored \in Snapshot
  BY TableTypeIsShape DEF TableInv, TableShape
<1>2. Table!EmptyPanelHasACause
  BY <1>1, PanelIsTheSame DEF TableInv
<1>3. Table!At("in") = Listed(stored) /\ Table!At("in") \cup Table!At("out") = Kept(stored)
  BY DEF Table!At, Listed, Kept
<1>4. ASSUME Table!Quiet, ~astray
      PROVE  /\ \A r \in Table!Shown(shown) : stored[r] = [place |-> "in", rev |-> shown[r]]
             /\ totals.filtered = Table!From(removed, Cardinality(Listed(stored)))
             /\ totals.total = Cardinality(Kept(stored))
             /\ NoneShown => askedAt >= Cardinality(Listed(stored))
  <2>1. Newest = {} /\ calls = {}
    BY <1>4 DEF Table!Quiet, Newest
  <2>2. PICK B \in Snapshot : Shows(B, shown, totals, removed) /\ Explains(B, base, stored, calls)
    BY <1>4, <2>1 DEF TableInv, TableIsExplained
  <2>3. /\ \A r \in Rows : B[r].place = stored[r].place
        /\ \A r \in Rows : B[r].place \in {"in", "out"} => B[r].rev = stored[r].rev
    BY <2>1, <2>2 DEF Explains
  <2>4. Listed(B) = Listed(stored) /\ Kept(B) = Kept(stored)
    BY <2>3 DEF Listed, Kept
  <2>5. totals.filtered = Table!From(removed, Cardinality(Listed(stored))) /\ totals.total = Cardinality(Kept(stored))
    BY <2>2, <2>4 DEF Shows
  <2>6. ASSUME NEW r \in Table!Shown(shown) PROVE stored[r] = [place |-> "in", rev |-> shown[r]]
    <3>1. r \in Rows /\ B[r].place = "in" /\ shown[r] = B[r].rev
      BY <2>2 DEF Table!Shown, Shows
    <3>2. stored[r] \in [place : Places, rev : 0..MaxRev] /\ stored[r].place = "in" /\ stored[r].rev = shown[r]
      BY <1>1, <2>3, <3>1 DEF Snapshot
    <3> QED BY <3>2
  <2>7. ASSUME NoneShown PROVE askedAt >= Cardinality(Listed(stored))
    <3>1. askedAt >= totals.filtered /\ removed = 0
      BY <1>4, <2>1, <2>7 DEF TableInv, TableIsExplained, NoneShown
    <3>2. Listed(stored) \in SUBSET Rows
      BY DEF Listed
    <3>3. Cardinality(Listed(stored)) \in 0..Cardinality(Rows)
      BY <3>2, CountsAreBounded
    <3> QED BY <2>5, <3>1, <3>3, TableBounds DEF Table!From
  <2> QED BY <2>5, <2>6, <2>7
<1>5. Table!EditsAgreeWithServer
  BY <1>3, <1>4, SameCardinality DEF Table!EditsAgreeWithServer
<1>6. Table!HiddenRowsHaveACause
  <2>1. ASSUME Table!Quiet, ~wrapper, ~astray, settled # "ignored"
        PROVE  askedAt >= Cardinality(Listed(stored))
    <3>1. NoneShown
      BY <2>1 DEF TableInv, PanelHasACause
    <3> QED BY <1>4, <2>1, <3>1
  <2> QED BY <1>3, <2>1, SameCardinality DEF Table!HiddenRowsHaveACause
<1> QED BY <1>1, <1>2, <1>5, <1>6 DEF TableIsSound

LEMMA TableInvHolds ==
  Spec => []TableInv
PROOF
<1> DEFINE all == <<part, tableVars, cursorVars, rulesVars, sendingVars, csrfVars>>
<1>1. Init => TableInv
  BY TableStarts DEF Init
<1>2. ASSUME TableInv, [Next]_all PROVE TableInv'
  <2>1. CASE Table!Next
    BY <1>2, <2>1, TableStepsKeep
  <2>2. CASE UNCHANGED tableVars
    <3>1. waiting' \in BOOLEAN
      BY <1>2, <2>2 DEF TableInv, TableShape, tableVars
    <3> QED BY <1>2, <2>2, <3>1, LooksKeepTable DEF tableVars
  <2>3. Table!Next \/ UNCHANGED tableVars
    BY <1>2 DEF Next
  <2> QED BY <2>1, <2>2, <2>3
<1>3. Spec => Init /\ [][Next]_all
  BY DEF Spec
<1> QED BY <1>1, <1>2, <1>3, PTL

\* Whatever the order of the answers, and for any rows, pages and number of requests: once
\* every answer is in and none was overtaken, lost or failed, a server table that was edited in
\* place shows the rows and the total of the server, its filtered counter is too low by the rows
\* removed since the last draw and by no more, and the panel for an empty table has a cause.
THEOREM TablesStaySound ==
  Spec => []TableIsSound
PROOF
<1>1. TableInv => TableIsSound
  BY TableInvIsEnough
<1> QED BY <1>1, TableInvHolds, PTL

-----------------------------------------------------------------------------
(* CURSOR TABLES                                                             *)

Load == [page : 1..Pages, direction : {"initial", "next", "previous", "reload"},
         reply : {None} \cup [ok : BOOLEAN, edition : 0..MaxEdits]]

\* The way back is made of pages, no longer than the pages asked for.
CursorShape ==
  /\ built \in BOOLEAN /\ torn \in BOOLEAN /\ behind \in BOOLEAN
  /\ cursors \in [request : 1..Pages, next : 0..Pages]
  /\ history \in Seq(1..Pages) /\ load \in {None} \cup Load
  /\ loads \in 0..MaxLoads /\ edition \in 0..MaxEdits /\ lost \in Nat
  /\ Len(history) <= loads /\ (load # None => Len(history) < loads)
  /\ sheet \in [page : 0..Pages, edition : 0..MaxEdits]
  /\ controls \in [mounted : BOOLEAN, page : 0..MaxLoads + 1, previous : BOOLEAN, next : BOOLEAN]

\* The way back starts at the first page, also when it is that of an earlier table, and
\* else goes through every page up to the present one.
HistoryIsTheWay ==
  /\ torn => history # <<>>
  /\ history # <<>> => history[1] = 1
  /\ ~torn => /\ Len(history) = cursors.request - 1
              /\ \A i \in 1..Len(history) : history[i] = i

\* The page asked for is where its button led when it was clicked.
LoadFollows ==
  /\ cursors.next \in {0, Cursor!After(cursors.request)}
  /\ load # None =>
       /\ load.direction = "initial" => load.page = 1 /\ (torn \/ history = <<>>)
       /\ load.direction = "next" => load.page = cursors.next
       /\ load.direction = "previous" => history # <<>> /\ load.page = history[Len(history)]
       /\ load.direction = "reload" => load.page = cursors.request

\* Rows are in the table of an instance, are those of the cursors, and the controls are theirs.
SheetIsThePage ==
  /\ built => controls.mounted
  /\ ~built => sheet.page = 0
  /\ sheet.page # 0 =>
       /\ sheet.page = cursors.request /\ cursors.next = Cursor!After(cursors.request)
       /\ controls.page = Len(history) + 1 /\ controls.next = (cursors.next # 0)

\* Old rows wait for a reload, and a reply that was overtaken by a change has dropped one.
OldRowsWait ==
  /\ sheet.page # 0 /\ sheet.edition # edition => load # None \/ behind
  /\ load # None /\ load.reply # None /\ load.reply.ok /\ load.reply.edition # edition => behind

CursorInv == CursorShape /\ HistoryIsTheWay /\ LoadFollows /\ SheetIsThePage /\ OldRowsWait

-----------------------------------------------------------------------------
(* Pages and the way back.                                                   *)

LEMMA CursorBounds ==
  /\ Pages \in Nat \ {0} /\ MaxLoads \in Nat /\ MaxEdits \in Nat
  /\ None \notin Load /\ None \notin [ok : BOOLEAN, edition : 0..MaxEdits]
PROOF
<1>1. Pages \in Nat \ {0} /\ MaxLoads \in Nat /\ MaxEdits \in Nat
  BY PagesAssumption
<1>2. 1..Pages \subseteq Nat /\ 0..MaxEdits \subseteq Nat
  BY <1>1
<1>3. [ok : BOOLEAN, edition : 0..MaxEdits] \subseteq [ok : BOOLEAN, edition : Nat]
  BY <1>2
<1>4. Load \subseteq [page : Nat, direction : {"initial", "next", "previous", "reload"},
                      reply : {None} \cup [ok : BOOLEAN, edition : Nat]]
  BY <1>2, <1>3 DEF Load
<1> QED BY <1>1, <1>3, <1>4, PagesAssumption

\* A way back that is not empty has a last page.
LEMMA WayBackHasALast ==
  ASSUME NEW h \in Seq(1..Pages)
  PROVE  /\ Len(h) \in Nat /\ (h = <<>> <=> Len(h) = 0)
         /\ h # <<>> => Len(h) \in 1..Len(h) /\ 1 \in 1..Len(h)
         /\ \A i \in 1..Len(h) : h[i] \in 1..Pages
PROOF
<1>1. Len(h) \in Nat /\ \A i \in 1..Len(h) : h[i] \in 1..Pages
  BY ElementOfSeq, LenProperties
<1>2. h = <<>> <=> Len(h) = 0
  BY EmptySeq
<1> QED BY <1>1, <1>2

\* The page after the present one is a page or there is none.
LEMMA AfterIsAPage ==
  ASSUME NEW p \in 1..Pages
  PROVE  Cursor!After(p) \in 0..Pages /\ (Cursor!After(p) # 0 <=> p < Pages)
         /\ (Cursor!After(p) # 0 => Cursor!After(p) = p + 1)
  BY CursorBounds DEF Cursor!After

\* A page that is asked for: the request is counted, and its page stays where it led.
LEMMA AskIsALoad ==
  ASSUME CursorShape, load = None, NEW p \in 1..Pages,
         NEW d \in {"initial", "next", "previous", "reload"}, Cursor!Ask(p, d)
  PROVE  /\ load' = [page |-> p, direction |-> d, reply |-> None]
         /\ load' \in Load /\ load' # None /\ load'.page = p /\ load'.direction = d
         /\ load'.reply = None
         /\ loads' \in 0..MaxLoads /\ Len(history) < loads'
PROOF
<1>1. load' = [page |-> p, direction |-> d, reply |-> None]
  BY DEF Cursor!Ask
<1>2. load' \in Load
  BY <1>1 DEF Load
<1>3. loads' \in 0..MaxLoads /\ Len(history) < loads'
  <2>1. loads < MaxLoads /\ loads' = loads + 1 /\ loads \in 0..MaxLoads /\ Len(history) <= loads
    BY DEF Cursor!Ask, CursorShape
  <2>2. history \in Seq(1..Pages) /\ Len(history) \in Nat
    BY DEF CursorShape
  <2> QED BY <2>1, <2>2, CursorBounds
<1> QED BY <1>1, <1>2, <1>3, CursorBounds

LEMMA CursorStarts == ASSUME Cursor!Init PROVE CursorInv
PROOF
<1>1. /\ builds = 0 /\ built = FALSE /\ cursors = [request |-> 1, next |-> 0] /\ history = <<>>
      /\ load = None /\ loads = 0 /\ sheet = [page |-> 0, edition |-> 0]
      /\ controls = [mounted |-> FALSE, page |-> 0, previous |-> FALSE, next |-> FALSE]
      /\ edition = 0 /\ lost = 0 /\ torn = FALSE /\ behind = FALSE
  BY DEF Cursor!Init, Cursor!Empty, Cursor!NoControls
<1>2. CursorShape
  <2>1. 0 \in 0..MaxLoads /\ 0 \in 0..MaxLoads + 1 /\ 0 \in 0..MaxEdits /\ 0 \in 0..Pages /\ 1 \in 1..Pages
    BY CursorBounds
  <2>2. <<>> \in Seq(1..Pages) /\ Len(<<>>) = 0
    OBVIOUS
  <2>3. cursors \in [request : 1..Pages, next : 0..Pages] /\ sheet \in [page : 0..Pages, edition : 0..MaxEdits]
    BY <1>1, <2>1
  <2>4. controls \in [mounted : BOOLEAN, page : 0..MaxLoads + 1, previous : BOOLEAN, next : BOOLEAN]
    BY <1>1, <2>1
  <2>5. history \in Seq(1..Pages) /\ Len(history) <= loads /\ load = None
    BY <1>1, <2>2
  <2>6. loads \in 0..MaxLoads /\ edition \in 0..MaxEdits /\ lost \in Nat
    BY <1>1, <2>1
  <2>7. built \in BOOLEAN /\ torn \in BOOLEAN /\ behind \in BOOLEAN
    BY <1>1
  <2> QED BY <2>3, <2>4, <2>5, <2>6, <2>7 DEF CursorShape
<1>3. HistoryIsTheWay /\ LoadFollows /\ SheetIsThePage /\ OldRowsWait
  BY <1>1 DEF HistoryIsTheWay, LoadFollows, SheetIsThePage, OldRowsWait
<1> QED BY <1>2, <1>3 DEF CursorInv

LEMMA CreateKeepsCursor == ASSUME CursorInv, Cursor!Create PROVE CursorInv'
PROOF
<1> USE DEF CursorInv
<1>1. /\ built' = TRUE /\ sheet' = [page |-> 0, edition |-> 0]
      /\ controls' = [mounted |-> TRUE, page |-> 0, previous |-> FALSE, next |-> FALSE]
      /\ torn' = (torn \/ history # <<>>)
      /\ UNCHANGED <<cursors, history, edition, lost, behind>>
  BY DEF Cursor!Create, Cursor!Empty, Cursor!NoControls
<1>2. CASE load = None
  <2>1. Cursor!Ask(1, "initial")
    BY <1>2 DEF Cursor!Create
  <2>2. /\ load' \in Load /\ load' # None /\ load'.page = 1 /\ load'.direction = "initial"
        /\ load'.reply = None /\ loads' \in 0..MaxLoads /\ Len(history) < loads'
    BY <1>2, <2>1, CursorBounds, AskIsALoad
  <2>3. CursorShape'
    BY <1>1, <2>2, CursorBounds DEF CursorShape
  <2>4. HistoryIsTheWay'
    BY <1>1 DEF HistoryIsTheWay
  <2>5. LoadFollows'
    BY <1>1, <2>2 DEF LoadFollows, Cursor!After
  <2>6. SheetIsThePage' /\ OldRowsWait'
    BY <1>1, <2>2 DEF SheetIsThePage, OldRowsWait
  <2> QED BY <2>3, <2>4, <2>5, <2>6
<1>3. CASE load # None
  <2>1. UNCHANGED <<load, loads>>
    BY <1>3 DEF Cursor!Create
  <2>2. CursorShape'
    BY <1>1, <2>1, CursorBounds DEF CursorShape
  <2>3. HistoryIsTheWay'
    BY <1>1 DEF HistoryIsTheWay
  <2>4. LoadFollows'
    BY <1>1, <2>1 DEF LoadFollows, Cursor!After
  <2>5. SheetIsThePage' /\ OldRowsWait'
    BY <1>1, <2>1 DEF SheetIsThePage, OldRowsWait
  <2> QED BY <2>2, <2>3, <2>4, <2>5
<1> QED BY <1>2, <1>3

LEMMA DestroyKeepsCursor == ASSUME CursorInv, Cursor!Destroy PROVE CursorInv'
PROOF
<1>1. /\ built' = FALSE /\ sheet' = [page |-> 0, edition |-> 0]
      /\ controls' = [mounted |-> FALSE, page |-> 0, previous |-> FALSE, next |-> FALSE]
      /\ UNCHANGED <<cursors, history, load, loads, edition, lost, torn, behind>>
  BY DEF Cursor!Destroy, Cursor!Empty, Cursor!NoControls
<1>2. CursorShape'
  <2>1. 0 \in 0..MaxLoads + 1 /\ 0 \in 0..MaxEdits /\ 0 \in 0..Pages
    BY CursorBounds
  <2>2. /\ sheet' \in [page : 0..Pages, edition : 0..MaxEdits]
        /\ controls' \in [mounted : BOOLEAN, page : 0..MaxLoads + 1, previous : BOOLEAN, next : BOOLEAN]
    BY <1>1, <2>1
  <2> QED BY <1>1, <2>2 DEF CursorInv, CursorShape, Load
<1>3. HistoryIsTheWay' /\ LoadFollows'
  BY <1>1 DEF CursorInv, HistoryIsTheWay, LoadFollows, Cursor!After
<1>4. SheetIsThePage' /\ OldRowsWait'
  BY <1>1 DEF CursorInv, SheetIsThePage, OldRowsWait
<1> QED BY <1>2, <1>3, <1>4 DEF CursorInv

\* A page is asked for from the table as it is: the rows, the way back and the controls stay.
LEMMA AskKeepsCursor ==
  ASSUME CursorInv, load = None, NEW p \in 1..Pages,
         NEW d \in {"next", "previous", "reload"}, Cursor!Ask(p, d),
         UNCHANGED <<built, cursors, history, sheet, controls, torn, behind>>,
         edition' \in 0..MaxEdits, lost' \in Nat,
         d = "next" => p = cursors.next,
         d = "previous" => history # <<>> /\ p = history[Len(history)],
         d = "reload" => p = cursors.request
  PROVE  CursorInv'
PROOF
<1>1. /\ load' \in Load /\ load' # None /\ load'.page = p /\ load'.direction = d
      /\ load'.reply = None /\ loads' \in 0..MaxLoads /\ Len(history) < loads'
  BY AskIsALoad DEF CursorInv
<1>2. CursorShape'
  BY <1>1 DEF CursorInv, CursorShape
<1>3. HistoryIsTheWay'
  BY DEF CursorInv, HistoryIsTheWay
<1>4. LoadFollows'
  BY <1>1 DEF CursorInv, LoadFollows, Cursor!After
<1>5. SheetIsThePage' /\ OldRowsWait'
  BY <1>1 DEF CursorInv, SheetIsThePage, OldRowsWait, Cursor!After
<1> QED BY <1>2, <1>3, <1>4, <1>5 DEF CursorInv

LEMMA ClicksKeepCursor ==
  ASSUME CursorInv, Cursor!ClickNext \/ Cursor!ClickPrevious PROVE CursorInv'
PROOF
<1>1. CASE Cursor!ClickNext
  <2>1. /\ load = None /\ cursors.next # 0 /\ Cursor!Ask(cursors.next, "next")
        /\ UNCHANGED <<built, cursors, history, sheet, controls, edition, lost, torn, behind>>
    BY <1>1 DEF Cursor!ClickNext, Cursor!CanLoad
  <2>2. cursors.next \in 1..Pages /\ edition \in 0..MaxEdits /\ lost \in Nat
    BY <2>1, CursorBounds DEF CursorInv, CursorShape
  <2> QED BY <2>1, <2>2, AskKeepsCursor
<1>2. CASE Cursor!ClickPrevious
  <2>1. /\ load = None /\ history # <<>> /\ Cursor!Ask(history[Len(history)], "previous")
        /\ UNCHANGED <<built, cursors, history, sheet, controls, edition, lost, torn, behind>>
    BY <1>2 DEF Cursor!ClickPrevious, Cursor!CanLoad, Cursor!Last
  <2>2. history[Len(history)] \in 1..Pages /\ edition \in 0..MaxEdits /\ lost \in Nat
    BY <2>1, WayBackHasALast DEF CursorInv, CursorShape
  <2> QED BY <2>1, <2>2, AskKeepsCursor
<1> QED BY <1>1, <1>2

\* A reload is asked for, or dropped and noted.
LEMMA EditKeepsCursor == ASSUME CursorInv, Cursor!EditAndReload PROVE CursorInv'
PROOF
<1>1. /\ edition' = edition + 1 /\ edition < MaxEdits /\ built
      /\ UNCHANGED <<built, cursors, history, sheet, controls, lost, torn>>
  BY DEF Cursor!EditAndReload
<1>2. edition' \in 0..MaxEdits /\ lost \in Nat /\ cursors.request \in 1..Pages
  BY <1>1, CursorBounds DEF CursorInv, CursorShape
<1>3. CASE load = None
  <2>1. Cursor!Ask(cursors.request, "reload") /\ UNCHANGED behind
    BY <1>1, <1>3 DEF Cursor!EditAndReload, Cursor!CanLoad
  <2> QED BY <1>1, <1>2, <1>3, <2>1, AskKeepsCursor
<1>4. CASE load # None
  <2>1. behind' = TRUE /\ UNCHANGED <<load, loads>>
    BY <1>1, <1>4 DEF Cursor!EditAndReload, Cursor!CanLoad
  <2>2. CursorShape'
    BY <1>1, <1>2, <2>1 DEF CursorInv, CursorShape, Load
  <2>3. HistoryIsTheWay' /\ LoadFollows'
    BY <1>1, <2>1 DEF CursorInv, HistoryIsTheWay, LoadFollows, Cursor!After
  <2>4. SheetIsThePage' /\ OldRowsWait'
    BY <1>1, <2>1 DEF CursorInv, SheetIsThePage, OldRowsWait, Cursor!After
  <2> QED BY <2>2, <2>3, <2>4 DEF CursorInv
<1> QED BY <1>3, <1>4

LEMMA ReplyKeepsCursor == ASSUME CursorInv, Cursor!Reply PROVE CursorInv'
PROOF
<1>1. /\ load # None /\ load \in Load /\ load.reply = None
      /\ UNCHANGED <<builds, built, cursors, history, loads, sheet, controls, edition, torn, behind>>
  BY DEF CursorInv, CursorShape, Cursor!Reply
<1>2. PICK r \in [ok : BOOLEAN, edition : 0..MaxEdits] :
        /\ load' = [load EXCEPT !.reply = r] /\ lost' \in Nat
        /\ r.ok => r.edition = edition
  <2>1. edition \in 0..MaxEdits /\ lost \in Nat /\ 0 \in 0..MaxEdits
    BY CursorBounds DEF CursorInv, CursorShape
  <2>2. CASE /\ load' = [load EXCEPT !.reply = [ok |-> TRUE, edition |-> edition]]
             /\ UNCHANGED lost
    <3>1. [ok |-> TRUE, edition |-> edition] \in [ok : BOOLEAN, edition : 0..MaxEdits]
      BY <2>1
    <3> QED BY <2>1, <2>2, <3>1
  <2>3. CASE /\ lost' = lost + 1
             /\ load' = [load EXCEPT !.reply = [ok |-> FALSE, edition |-> 0]]
    <3>1. [ok |-> FALSE, edition |-> 0] \in [ok : BOOLEAN, edition : 0..MaxEdits]
      BY <2>1
    <3>2. lost' \in Nat
      BY <2>1, <2>3
    <3> QED BY <2>3, <3>1, <3>2
  <2> QED BY <2>2, <2>3 DEF Cursor!Reply
<1>3. /\ load' \in Load /\ load' # None /\ load'.reply = r
      /\ load'.page = load.page /\ load'.direction = load.direction
  <2>1. load' \in Load /\ load'.reply = r
        /\ load'.page = load.page /\ load'.direction = load.direction
    BY <1>1, <1>2 DEF Load
  <2> QED BY <2>1, CursorBounds
<1>4. CursorShape'
  BY <1>1, <1>2, <1>3 DEF CursorInv, CursorShape, Load
<1>5. HistoryIsTheWay' /\ SheetIsThePage'
  BY <1>1 DEF CursorInv, HistoryIsTheWay, SheetIsThePage, Cursor!After
<1>6. LoadFollows'
  BY <1>1, <1>3 DEF CursorInv, LoadFollows, Cursor!After
<1>7. OldRowsWait'
  BY <1>1, <1>2, <1>3 DEF CursorInv, OldRowsWait
<1> QED BY <1>4, <1>5, <1>6, <1>7 DEF CursorInv

\* What becomes of the way back when a page arrives: it is still made of pages, starts at
\* the first one, and, unless it is that of an earlier table, leads up to the page that arrives.
LEMMA TurnedIsTheWay ==
  ASSUME CursorInv, load # None
  PROVE  /\ Cursor!Turned(load.direction) \in Seq(1..Pages)
         /\ Len(Cursor!Turned(load.direction)) <= Len(history) + 1
         /\ Cursor!Turned(load.direction) # <<>> => Cursor!Turned(load.direction)[1] = 1
         /\ ~torn \/ Cursor!Turned(load.direction) = <<>> =>
              /\ Len(Cursor!Turned(load.direction)) = load.page - 1
              /\ \A i \in 1..Len(Cursor!Turned(load.direction)) :
                   Cursor!Turned(load.direction)[i] = i
PROOF
<1> DEFINE h == Cursor!Turned(load.direction)
<1>1. /\ history \in Seq(1..Pages) /\ Len(history) \in Nat /\ cursors.request \in 1..Pages
      /\ cursors.next \in 0..Pages
      /\ load.page \in 1..Pages /\ load.direction \in {"initial", "next", "previous", "reload"}
  BY DEF CursorInv, CursorShape, Load
<1>2. HistoryIsTheWay /\ LoadFollows
  BY DEF CursorInv
<1>3. CASE load.direction = "next"
  <2>1. h = Append(history, cursors.request)
    BY <1>3 DEF Cursor!Turned
  <2>2. /\ h \in Seq(1..Pages) /\ Len(h) = Len(history) + 1 /\ h # <<>>
        /\ \A i \in 1..Len(history) : h[i] = history[i]
        /\ h[Len(history) + 1] = cursors.request
    BY <1>1, <2>1
  <2>3. h[1] = 1
    <3>1. CASE history = <<>>
      BY <1>1, <1>2, <2>2, <3>1 DEF HistoryIsTheWay
    <3>2. CASE history # <<>>
      BY <1>1, <1>2, <2>2, <3>2 DEF HistoryIsTheWay
    <3> QED BY <3>1, <3>2
  <2>4. ~torn => Len(h) = load.page - 1 /\ \A i \in 1..Len(h) : h[i] = i
    <3>1. load.page = cursors.request + 1
      BY <1>1, <1>2, <1>3, AfterIsAPage DEF LoadFollows
    <3>2. ASSUME ~torn PROVE Len(h) = load.page - 1 /\ \A i \in 1..Len(h) : h[i] = i
      <4>1. Len(history) = cursors.request - 1 /\ \A i \in 1..Len(history) : history[i] = i
        BY <1>2, <3>2 DEF HistoryIsTheWay
      <4>2. Len(h) = load.page - 1 /\ h[Len(history) + 1] = Len(history) + 1
        BY <1>1, <2>2, <3>1, <4>1
      <4>3. ASSUME NEW i \in 1..Len(h) PROVE h[i] = i
        <5>1. i \in 1..Len(history) \/ i = Len(history) + 1
          BY <1>1, <2>2
        <5> QED BY <2>2, <4>1, <4>2, <5>1
      <4> QED BY <4>2, <4>3
    <3> QED BY <3>2
  <2> QED BY <1>1, <2>2, <2>3, <2>4
<1>4. CASE load.direction = "previous"
  <2>1. history # <<>> /\ load.page = history[Len(history)]
    BY <1>2, <1>4 DEF LoadFollows
  <2>2. h = SubSeq(history, 1, Len(history) - 1)
    BY <1>4, <2>1 DEF Cursor!Turned, Cursor!Front
  <2>3. /\ h \in Seq(1..Pages) /\ Len(h) = Len(history) - 1
        /\ \A i \in 1..Len(h) : h[i] = history[i]
    <3>1. Len(history) \in Nat \ {0}
      BY <1>1, <2>1, WayBackHasALast
    <3>2. \A i \in 1..Len(history) - 1 : i \in 1..Len(history) /\ history[i] \in 1..Pages
      BY <1>1, <3>1, WayBackHasALast
    <3>3. /\ h \in Seq(1..Pages)
          /\ Len(h) = IF 1 <= Len(history) - 1 THEN Len(history) - 1 - 1 + 1 ELSE 0
          /\ \A i \in 1..Len(history) - 1 - 1 + 1 : h[i] = history[1 + i - 1]
      BY <2>2, <3>1, <3>2, SubSeqProperties
    <3>4. Len(h) = Len(history) - 1
      <4>1. \A n \in Nat \ {0} : (IF 1 <= n - 1 THEN n - 1 - 1 + 1 ELSE 0) = n - 1
        OBVIOUS
      <4> HIDE DEF h
      <4> QED BY <3>1, <3>3, <4>1
    <3>5. \A i \in 1..Len(h) : h[i] = history[i]
      BY <3>1, <3>3, <3>4
    <3> QED BY <3>3, <3>4, <3>5
  <2>4. ASSUME h # <<>> PROVE h[1] = 1
    <3>1. 1 \in 1..Len(h)
      BY <2>3, <2>4, WayBackHasALast
    <3>2. history[1] = 1
      BY <1>2, <2>1 DEF HistoryIsTheWay
    <3> QED BY <2>3, <3>1, <3>2
  <2>5. ~torn => Len(h) = load.page - 1 /\ \A i \in 1..Len(h) : h[i] = i
    BY <1>1, <1>2, <2>1, <2>3 DEF HistoryIsTheWay
  <2>6. ASSUME h = <<>> PROVE Len(h) = load.page - 1 /\ \A i \in 1..Len(h) : h[i] = i
    <3>1. Len(h) = 0 /\ Len(history) = 1
      BY <1>1, <2>3, <2>6
    <3>2. load.page = 1
      BY <1>2, <2>1, <3>1 DEF HistoryIsTheWay
    <3> QED BY <3>1, <3>2
  <2> QED BY <1>1, <2>3, <2>4, <2>5, <2>6
<1>5. CASE load.direction \in {"initial", "reload"}
  <2>1. h = history
    BY <1>5 DEF Cursor!Turned
  <2>2. torn => history # <<>>
    BY <1>2 DEF HistoryIsTheWay
  <2>3. ~torn => Len(h) = load.page - 1 /\ \A i \in 1..Len(h) : h[i] = i
    BY <1>1, <1>2, <1>5, <2>1 DEF HistoryIsTheWay, LoadFollows
  <2> QED BY <1>1, <1>2, <2>1, <2>2, <2>3 DEF HistoryIsTheWay
<1> HIDE DEF h
<1> QED BY <1>1, <1>3, <1>4, <1>5 DEF h

LEMMA ArriveKeepsCursor == ASSUME CursorInv, Cursor!Arrive PROVE CursorInv'
PROOF
<1>1. /\ load # None /\ load \in Load /\ load.reply # None /\ load.reply.ok
      /\ load.reply \in [ok : BOOLEAN, edition : 0..MaxEdits] /\ load.page \in 1..Pages
      /\ load' = None /\ UNCHANGED <<builds, built, loads, edition, lost>>
      /\ history' = Cursor!Turned(load.direction)
      /\ cursors' = [request |-> load.page, next |-> Cursor!After(load.page)]
      /\ torn' = (torn /\ history' # <<>>)
  BY DEF CursorInv, CursorShape, Load, Cursor!Arrive
<1>2. /\ history' \in Seq(1..Pages) /\ Len(history') <= Len(history) + 1
      /\ history' # <<>> => history'[1] = 1
      /\ ~torn' => /\ Len(history') = load.page - 1
                   /\ \A i \in 1..Len(history') : history'[i] = i
  BY <1>1, TurnedIsTheWay
<1>3. /\ built \in BOOLEAN /\ torn' \in BOOLEAN /\ Len(history') <= loads
      /\ loads \in 0..MaxLoads /\ edition \in 0..MaxEdits /\ lost \in Nat
      /\ cursors' \in [request : 1..Pages, next : 0..Pages] /\ Len(history') \in Nat
  <2>1. Len(history) < loads /\ Len(history) \in Nat /\ loads \in 0..MaxLoads
        /\ built \in BOOLEAN /\ torn \in BOOLEAN /\ edition \in 0..MaxEdits /\ lost \in Nat
    BY <1>1 DEF CursorInv, CursorShape
  <2>2. Len(history') \in Nat /\ Len(history') <= loads
    BY <1>2, <2>1, CursorBounds
  <2>3. cursors' \in [request : 1..Pages, next : 0..Pages]
    BY <1>1, AfterIsAPage
  <2>4. torn' \in BOOLEAN
    BY <1>1, <2>1
  <2> QED BY <2>1, <2>2, <2>3, <2>4
<1>4. HistoryIsTheWay'
  BY <1>1, <1>2 DEF HistoryIsTheWay
<1>5. LoadFollows'
  BY <1>1 DEF LoadFollows, Cursor!After
<1>6. CASE built
  <2>1. /\ sheet' = [page |-> load.page, edition |-> load.reply.edition]
        /\ behind' = (behind /\ load.reply.edition # edition)
        /\ controls' = Cursor!Controls(history', Cursor!After(load.page))
    BY <1>6 DEF Cursor!Arrive
  <2>2. controls.mounted
    BY <1>6 DEF CursorInv, SheetIsThePage
  <2>3. controls' = [mounted |-> TRUE, page |-> Len(history') + 1, previous |-> history' # <<>>,
                     next |-> Cursor!After(load.page) # 0]
    BY <2>1, <2>2 DEF Cursor!Controls
  <2>4. controls' \in [mounted : BOOLEAN, page : 0..MaxLoads + 1, previous : BOOLEAN, next : BOOLEAN]
    <3>1. Len(history') + 1 \in 0..MaxLoads + 1
      BY <1>3, CursorBounds
    <3> QED BY <2>3, <3>1
  <2>5. sheet' \in [page : 0..Pages, edition : 0..MaxEdits] /\ behind' \in BOOLEAN
    <3>1. load.page \in 0..Pages /\ load.reply.edition \in 0..MaxEdits /\ behind \in BOOLEAN
      BY <1>1 DEF CursorInv, CursorShape
    <3> QED BY <2>1, <3>1
  <2>6. CursorShape'
    BY <1>1, <1>2, <1>3, <2>4, <2>5 DEF CursorShape
  <2>7. SheetIsThePage'
    BY <1>1, <1>6, <2>1, <2>3 DEF SheetIsThePage, Cursor!After
  <2>8. OldRowsWait'
    BY <1>1, <2>1 DEF CursorInv, OldRowsWait
  <2> QED BY <1>4, <1>5, <2>6, <2>7, <2>8 DEF CursorInv
<1>7. CASE ~built
  <2>1. UNCHANGED <<sheet, behind, controls>>
    BY <1>7 DEF Cursor!Arrive
  <2>2. sheet.page = 0
    BY <1>7 DEF CursorInv, SheetIsThePage
  <2>3. CursorShape'
    BY <1>1, <1>2, <1>3, <2>1 DEF CursorInv, CursorShape
  <2>4. SheetIsThePage' /\ OldRowsWait'
    BY <1>1, <1>7, <2>1, <2>2 DEF SheetIsThePage, OldRowsWait
  <2> QED BY <1>4, <1>5, <2>3, <2>4 DEF CursorInv
<1> QED BY <1>3, <1>6, <1>7

LEMMA FailKeepsCursor == ASSUME CursorInv, Cursor!Fail PROVE CursorInv'
PROOF
<1>1. /\ load # None /\ load' = None /\ behind' = TRUE
      /\ controls' = Cursor!Controls(history, cursors.next)
      /\ UNCHANGED <<builds, built, cursors, history, loads, sheet, edition, lost, torn>>
  BY DEF Cursor!Fail
<1>2. Len(history) < loads /\ Len(history) \in Nat /\ loads \in 0..MaxLoads
  BY <1>1 DEF CursorInv, CursorShape
<1>3. controls' \in [mounted : BOOLEAN, page : 0..MaxLoads + 1, previous : BOOLEAN, next : BOOLEAN]
  <2>1. Len(history) + 1 \in 0..MaxLoads + 1
    BY <1>2, CursorBounds
  <2> QED BY <1>1, <2>1 DEF CursorInv, CursorShape, Cursor!Controls
<1>4. /\ controls'.mounted = controls.mounted
      /\ controls.mounted => controls'.page = Len(history) + 1 /\ controls'.next = (cursors.next # 0)
  BY <1>1 DEF Cursor!Controls
<1>5. CursorShape'
  BY <1>1, <1>2, <1>3 DEF CursorInv, CursorShape
<1>6. HistoryIsTheWay' /\ LoadFollows'
  BY <1>1 DEF CursorInv, HistoryIsTheWay, LoadFollows, Cursor!After
<1>7. SheetIsThePage' /\ OldRowsWait'
  <2>1. built \in BOOLEAN
    BY DEF CursorInv, CursorShape
  <2> QED BY <1>1, <1>4, <2>1 DEF CursorInv, SheetIsThePage, OldRowsWait, Cursor!After
<1> QED BY <1>5, <1>6, <1>7 DEF CursorInv

LEMMA CursorStutters == ASSUME CursorInv, UNCHANGED cursorVars PROVE CursorInv'
PROOF
<1>1. UNCHANGED <<built, cursors, history, load, loads, sheet, controls, edition, lost, torn, behind>>
  BY DEF cursorVars
<1>2. CursorShape'
  BY <1>1 DEF CursorInv, CursorShape, Load
<1>3. HistoryIsTheWay' /\ LoadFollows'
  BY <1>1 DEF CursorInv, HistoryIsTheWay, LoadFollows, Cursor!After
<1>4. SheetIsThePage' /\ OldRowsWait'
  BY <1>1 DEF CursorInv, SheetIsThePage, OldRowsWait, Cursor!After
<1> QED BY <1>2, <1>3, <1>4 DEF CursorInv

LEMMA CursorStepsKeep ==
  ASSUME CursorInv, Cursor!Next \/ UNCHANGED cursorVars PROVE CursorInv'
  BY CreateKeepsCursor, DestroyKeepsCursor, ClicksKeepCursor, EditKeepsCursor, ReplyKeepsCursor,
     ArriveKeepsCursor, FailKeepsCursor, CursorStutters DEF Cursor!Next

\* A page that was asked for with Previous is the one before the page in the table.
LEMMA PreviousIsTheOneBefore ==
  ASSUME CursorInv, Cursor!Next \/ UNCHANGED cursorVars,
         load # None, load.direction = "previous", sheet.page # 0, ~torn,
         sheet'.page \notin {0, sheet.page}
  PROVE  sheet'.page + 1 = sheet.page
PROOF
<1>1. Cursor!Arrive
  <2>1. ~Cursor!Create /\ ~Cursor!Destroy
    BY DEF Cursor!Create, Cursor!Destroy, Cursor!Empty
  <2>2. sheet' # sheet
    OBVIOUS
  <2> QED BY <2>1, <2>2 DEF Cursor!Next, Cursor!ClickNext, Cursor!ClickPrevious,
       Cursor!EditAndReload, Cursor!Reply, Cursor!Fail, cursorVars
<1>2. sheet'.page = load.page /\ load.page \in 1..Pages
  BY <1>1 DEF Cursor!Arrive, CursorInv, CursorShape, Load
<1>3. /\ history # <<>> /\ load.page = history[Len(history)] /\ sheet.page = cursors.request
      /\ Len(history) = cursors.request - 1 /\ \A i \in 1..Len(history) : history[i] = i
  BY DEF CursorInv, LoadFollows, HistoryIsTheWay, SheetIsThePage
<1>4. history \in Seq(1..Pages) /\ Len(history) \in Nat /\ cursors.request \in 1..Pages
  BY DEF CursorInv, CursorShape
<1>5. load.page = Len(history)
  BY <1>3, <1>4
<1> QED BY <1>2, <1>3, <1>4, <1>5

LEMMA CursorInvIsEnough ==
  CursorInv => Cursor!TypeOK /\ Cursor!StatusIsThePage /\ Cursor!NextLeadsOn
               /\ Cursor!OldRowsHaveACause
PROOF
<1> SUFFICES ASSUME CursorInv
             PROVE  Cursor!TypeOK /\ Cursor!StatusIsThePage /\ Cursor!NextLeadsOn
                    /\ Cursor!OldRowsHaveACause
  OBVIOUS
<1>1. /\ cursors \in [request : 1..Pages, next : 0..Pages] /\ history \in Seq(1..Pages)
      /\ Len(history) <= loads /\ loads \in 0..MaxLoads /\ Len(history) \in Nat
  BY DEF CursorInv, CursorShape
<1>2. Cursor!TypeOK
  <2>1. Len(history) <= MaxLoads
    BY <1>1, CursorBounds
  <2> QED BY <2>1 DEF CursorInv, CursorShape, Cursor!TypeOK
<1>3. Cursor!StatusIsThePage
  BY <1>1 DEF CursorInv, SheetIsThePage, HistoryIsTheWay, Cursor!StatusIsThePage
<1>4. Cursor!NextLeadsOn
  <2>1. ASSUME sheet.page # 0
        PROVE  cursors.next = Cursor!After(sheet.page) /\ controls.next = (sheet.page < Pages)
    <3>1. /\ sheet.page = cursors.request /\ cursors.next = Cursor!After(cursors.request)
          /\ controls.next = (cursors.next # 0)
      BY <2>1 DEF CursorInv, SheetIsThePage
    <3> QED BY <1>1, <3>1, AfterIsAPage
  <2> QED BY <2>1 DEF Cursor!NextLeadsOn
<1>5. Cursor!OldRowsHaveACause
  BY DEF CursorInv, OldRowsWait, Cursor!OldRowsHaveACause
<1> QED BY <1>2, <1>3, <1>4, <1>5

\* However clicks, failures, reloads and new tables interleave, and for any number of pages:
\* the status under a cursor table names the page in it, Next leads to the one after it and
\* Previous shows the one before, and older rows are there because a reload was dropped or failed.
THEOREM CursorsAlwaysLeadOn ==
  Spec => CursorsLeadOn
PROOF
<1> DEFINE all == <<part, tableVars, cursorVars, rulesVars, sendingVars, csrfVars>>
<1>1. Init => CursorInv
  BY CursorStarts DEF Init
<1>2. [Next]_all => Cursor!Next \/ UNCHANGED cursorVars
  BY DEF Next
<1>3. CursorInv /\ [Next]_all => CursorInv'
  BY <1>2, CursorStepsKeep
<1>4. CursorInv /\ [Next]_all =>
        [load # None /\ load.direction = "previous" /\ sheet.page # 0 /\ ~torn
         /\ sheet'.page \notin {0, sheet.page} => sheet'.page + 1 = sheet.page]_Cursor!vars
  BY <1>2, PreviousIsTheOneBefore
<1>5. Spec => Init /\ [][Next]_all
  BY DEF Spec
<1> HIDE DEF all
<1> QED
  BY <1>1, <1>3, <1>4, <1>5, CursorInvIsEnough, PTL DEF CursorsLeadOn, Cursor!PreviousGoesBack
===============================================================================
