--------------------------------- MODULE Panel ---------------------------------
(* What the content area of an overlay promises its user: it shows the content  *)
(* that was asked for last, or says that this content could not be loaded and    *)
(* offers to try again; nothing that was asked for earlier ever comes back, and  *)
(* what happens in one overlay leaves the others alone.                          *)
EXTENDS Naturals

CONSTANT Areas
VARIABLES asked, area    \* for each area: the last request, and what it shows of it

Init ==
  /\ asked = [s \in Areas |-> 0]
  /\ area = [s \in Areas |-> [by |-> 0, kind |-> "blank"]]

\* The user opens the overlay for new content.
Open(s) ==
  /\ asked'[s] > asked[s]
  /\ asked' = [asked EXCEPT ![s] = asked'[s]]
  /\ area' = [area EXCEPT ![s] = [by |-> asked'[s], kind |-> "blank"]]

\* The content arrives, or the panel with the Retry button does.
Fill(s, kind) ==
  /\ asked[s] # 0 /\ area[s].kind # "content"
  /\ area' = [area EXCEPT ![s] = [by |-> asked[s], kind |-> kind]]
  /\ UNCHANGED asked

\* A second answer, to a second click on Retry, may bring the content once more or,
\* in an overlay that takes a failed setup for a failed load, the error panel.
Refill(s) ==
  /\ area[s].kind = "content"
  /\ area' = [area EXCEPT ![s] = [by |-> asked[s], kind |-> "error"]]
  /\ UNCHANGED asked

Next == \E s \in Areas : Open(s) \/ Refill(s) \/ \E kind \in {"content", "error"} : Fill(s, kind)
Spec == Init /\ [][Next]_<<asked, area>>
===============================================================================
