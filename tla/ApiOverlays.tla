------------------------------ MODULE ApiOverlays ------------------------------
(* ModalManager: standalone modals and offcanvases, each with an element of its own, *)
(* a controller in activeModals or activeOffcanvas, and content loaded from an       *)
(* endpoint (showModalApi, showOffcanvasApi) with retries under one time limit.      *)
EXTENDS Naturals, FiniteSets

CONSTANTS
  Ids,          \* overlays that can be made
  None,
  Retries,      \* apiConfig.retries
  MaxLoads,     \* bound: contents loaded
  MaxFaults     \* bound: fetches that fail or are not answered

VARIABLES
  made,         \* overlays that have been made
  present,      \* those whose element is in the document
  active,       \* those whose controller is in activeModals or activeOffcanvas
  hiding,       \* those that are on their way out
  body,         \* [Ids -> what the content element holds, and by which load]
  handlers,     \* overlays with an entry in handleRefresh or handleOffcanvasRefresh
  fetching,     \* loads under way
  loads, failures,
  overtaken,    \* overlays where two loads were under way at a time
  leaky         \* overlays that were disposed of by hand, or were gone when their load failed

vars == <<made, present, active, hiding, body, handlers, fetching, loads, failures, overtaken, leaky>>

\* Mutant: a load that starts leaves the old content.
ShowsNoLoader(o, kind, load) ==
  body' = IF o \in present /\ kind # "loader" THEN [body EXCEPT ![o] = [kind |-> kind, load |-> load]] ELSE body

\* Mutant: a load that fails leaves the loader.
ShowsNoError(o, kind, load) ==
  body' = IF o \in present /\ kind # "error" THEN [body EXCEPT ![o] = [kind |-> kind, load |-> load]] ELSE body

\* updateContent(): nothing happens once the element is gone.
Update(o, kind, load) ==
  body' = IF o \in present THEN [body EXCEPT ![o] = [kind |-> kind, load |-> load]] ELSE body

(* ------------------------------- overlays -------------------------------- *)
\* loadApiContent(): the loader is shown, then the first fetch goes out. refresh() and
\* loadContent() do not wait for a load that is under way.
StartLoad(o) ==
  /\ loads < MaxLoads /\ loads' = loads + 1
  /\ fetching' = fetching \cup
       {[id |-> loads + 1, of |-> o, attempt |-> 0, stage |-> "sent", expired |-> FALSE]}
  /\ overtaken' = IF \E l \in fetching : l.of = o THEN overtaken \cup {o} ELSE overtaken

\* The element is appended to the document and its controller listed.
Make(o) == made' = made \cup {o} /\ present' = present \cup {o} /\ active' = active \cup {o}

Show(o) ==
  /\ o \notin made /\ Make(o)
  /\ body' = [body EXCEPT ![o] = [kind |-> "loader", load |-> loads + 1]]
  /\ StartLoad(o)
  /\ UNCHANGED <<hiding, handlers, failures, leaky>>

Reload(o) ==
  /\ o \in active
  /\ StartLoad(o)
  /\ Update(o, "loader", loads + 1)
  /\ UNCHANGED <<made, present, active, hiding, handlers, failures, leaky>>

\* hide(), or the close button; closeAll() hides every overlay there is.
Hide(os) ==
  /\ os # {} /\ os \subseteq present \ hiding
  /\ hiding' = hiding \cup os
  /\ UNCHANGED <<made, present, active, body, handlers, fetching, loads, failures, overtaken, leaky>>

Forget(os) ==
  /\ present' = present \ os /\ active' = active \ os /\ hiding' = hiding \ os

\* The listener of the hidden event removes the element and all that is kept of it.
Hidden(o) ==
  /\ o \in hiding
  /\ Forget({o}) /\ handlers' = handlers \ {o}
  /\ UNCHANGED <<made, body, fetching, loads, failures, overtaken, leaky>>

\* dispose() of a controller leaves its Refresh handler, disposeAll() drops them all.
Dispose(o) ==
  /\ o \in active \ hiding
  /\ Forget({o}) /\ leaky' = leaky \cup {o}
  /\ UNCHANGED <<made, body, handlers, fetching, loads, failures, overtaken>>

DisposeAll ==
  /\ active # {} /\ hiding = {}
  /\ Forget(active) /\ handlers' = {}
  /\ UNCHANGED <<made, body, fetching, loads, failures, overtaken, leaky>>

(* -------------------------------- loading -------------------------------- *)
\* The signal that all attempts share times out, or the network fails: an attempt
\* that comes after the time limit fails at once.
FetchFails(l) ==
  /\ l \in fetching /\ l.stage = "sent"
  /\ \E expires \in BOOLEAN :
       /\ failures' = IF l.expired THEN failures ELSE failures + 1
       /\ failures' <= MaxFaults
       /\ fetching' = (fetching \ {l}) \cup
            {[l EXCEPT !.expired = @ \/ expires,
                       !.stage = IF l.attempt < Retries THEN "waiting" ELSE "failed"]}
  /\ UNCHANGED <<made, present, active, hiding, body, handlers, loads, overtaken, leaky>>

\* The pause before the next attempt is over.
TryAgain(l) ==
  /\ l \in fetching /\ l.stage = "waiting"
  /\ fetching' = (fetching \ {l}) \cup {[l EXCEPT !.stage = "sent", !.attempt = @ + 1]}
  /\ UNCHANGED <<made, present, active, hiding, body, handlers, loads, failures, overtaken, leaky>>

\* Any status is an answer, but only that of a success has content.
FetchAnswered(l) ==
  /\ l \in fetching /\ l.stage = "sent" /\ ~l.expired
  /\ \E ok \in BOOLEAN :
       /\ failures' = IF ok THEN failures ELSE failures + 1
       /\ failures' <= MaxFaults
       /\ fetching' = (fetching \ {l}) \cup {[l EXCEPT !.stage = IF ok THEN "ok" ELSE "failed"]}
  /\ UNCHANGED <<made, present, active, hiding, body, handlers, loads, overtaken, leaky>>

\* The content is shown, or the error and its Refresh button, whose handler is
\* registered even for an overlay that has gone.
LoadEnds(l) ==
  /\ l \in fetching /\ l.stage \in {"ok", "failed"}
  /\ fetching' = fetching \ {l}
  /\ IF l.stage = "ok"
     THEN Update(l.of, "content", l.id) /\ UNCHANGED <<handlers, leaky>>
     ELSE /\ Update(l.of, "error", l.id)
          /\ handlers' = handlers \cup {l.of}
          /\ leaky' = IF l.of \in present THEN leaky ELSE leaky \cup {l.of}
  /\ UNCHANGED <<made, present, active, hiding, loads, failures, overtaken>>

(* ---------------------------- specification ------------------------------ *)
Init ==
  /\ made = {} /\ present = {} /\ active = {} /\ hiding = {}
  /\ body = [o \in Ids |-> [kind |-> "none", load |-> 0]]
  /\ handlers = {} /\ fetching = {} /\ loads = 0 /\ failures = 0 /\ overtaken = {} /\ leaky = {}

Next ==
  \/ \E o \in Ids : Show(o) \/ Reload(o) \/ Hide({o}) \/ Hidden(o) \/ Dispose(o)
  \/ Hide(active \ hiding) \/ DisposeAll
  \/ \E l \in fetching : FetchFails(l) \/ TryAgain(l) \/ FetchAnswered(l) \/ LoadEnds(l)

\* A fetch is answered or runs into the time limit, and the pauses are timers.
Progress == \E l \in fetching : FetchFails(l) \/ TryAgain(l) \/ FetchAnswered(l) \/ LoadEnds(l)
Fairness == WF_vars(Progress)
Spec == Init /\ [][Next]_vars /\ Fairness

(* ------------------------------ properties ------------------------------- *)
TypeOK ==
  /\ made \subseteq Ids /\ {present, active, hiding, handlers, overtaken, leaky} \subseteq SUBSET made
  /\ body \in [Ids -> [kind : {"none", "loader", "content", "error"}, load : 0..MaxLoads]]

\* The manager lists exactly the overlays that are in the document, in whatever way
\* they came to an end: closeAll(), disposeAll() and the counts rely on it.
ListedIsPresent == active = present

\* The content is that of the last load, in an overlay that never had two loads under
\* way at a time: a slow answer replaces what a faster one has shown.
NewestIsShown ==
  \A o \in present \ overtaken : \A l \in fetching : l.of = o => body[o] = [kind |-> "loader", load |-> l.id]

\* Refresh handlers do not pile up: the handler of an overlay that has gone was
\* registered by a load that failed later, or left behind by dispose().
HandlersAreDropped == \A o \in handlers \ present : o \in leaky

\* A loader is not on the screen for ever: all attempts share one time limit.
LoaderGoes == \A o \in Ids : body[o].kind = "loader" ~> body[o].kind # "loader" \/ o \notin present
===============================================================================
