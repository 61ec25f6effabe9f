------------------------------- MODULE MCPages -------------------------------
(* The scripts of the data pages on small instances: the two kinds of tables, the *)
(* checking and the sending of forms, and the CSRF token all of them carry. A     *)
(* behaviour is about one of them: part says which.                               *)
EXTENDS MCFormCases, FiniteSets

CONSTANTS
  None,
  Rows, NewRows, PageLength, MaxDraws, MaxCalls, MaxRev, MaxFaults,   \* of ServerTable
  Pages, MaxBuilds, MaxLoads, MaxEdits, MaxLost,             \* of CursorTable
  Shells, FormsOf, Tools, MaxOpens, MaxSends, MaxFailures,   \* of Forms
  Tabs, MaxTokens, MaxRequests                               \* of CsrfToken

\* None is a value of its own; the table asks for its first page, and pages have rows; there is
\* a first page; a form is in one view, named like no tool; the page comes with a token.
ASSUME PagesAssumption ==
  /\ None \notin Nat \cup {"ok", "refused", "none"}
  /\ None \notin [ok : BOOLEAN, clock : Nat, rev : Nat]
  /\ None \notin [ok : BOOLEAN, header : Nat, set : Nat]
  /\ None \notin [ok : BOOLEAN, edition : Nat]
  /\ None \notin [page : Nat, direction : {"initial", "next", "previous", "reload"},
                  reply : {None} \cup [ok : BOOLEAN, edition : Nat]]
  /\ IsFiniteSet(Rows) /\ {PageLength, MaxDraws, Pages, MaxTokens} \subseteq Nat \ {0}
  /\ {MaxCalls, MaxRev, MaxFaults, MaxBuilds, MaxLoads, MaxEdits, MaxLost, MaxOpens, MaxSends,
      MaxFailures, MaxRequests} \subseteq Nat
  /\ Shells \subseteq Nat /\ Tools \subseteq {"login", "print", "export", "upload"}
  /\ \A s \in Shells :
       FormsOf[s] \cap {None, "login", "print", "export", "upload"} = {}
  /\ \A s, u \in Shells : s # u => FormsOf[s] \cap FormsOf[u] = {}
  /\ None \notin Tabs

VARIABLES
  part,
  stored, clock, shown, totals, pager, iDraw, start, draws, calls, made, look, wrapper, waiting,
  timers, faults, seen, base, removed, askedAt, astray, settled,
  builds, built, cursors, history, load, loads, sheet, controls, edition, lost, torn, behind,
  form, value, mark, errors, verdict, page, named, asking, sent, steps,
  content, opening, visible, opens, disabled, busy, dialog, sends, flights, failures, pending,
  bar, mixed, stranded,
  rotating, cookie, timeUp, meta, tokens, requests, posted, last

Table == INSTANCE ServerTable
Cursor == INSTANCE CursorTable
Rules == INSTANCE FormRules WITH
  Layout <- MCLayout, NameOf <- MCNameOf, KindOf <- MCKindOf, Facts <- MCFacts,
  Choices <- MCChoices, ArrayNames <- {"cc[]"}, Rows <- MCRows,
  ConfirmationOf <- MCConfirmationOf, Books <- MCBooks, Pairs <- MCPairs, MaxSteps <- 3,
  shown <- named, dialog <- asking
Sending == INSTANCE Forms WITH
  MaxFaults <- MaxFailures, faults <- failures
Csrf == INSTANCE CsrfToken

\* Two forms of one overlay, and one of another.
MCFormsOf == 1 :> {"user", "role"} @@ 2 :> {"filter"}

tableVars == <<stored, clock, shown, totals, pager, iDraw, start, draws, calls, made, look, wrapper,
               waiting, timers, faults, seen, base, removed, askedAt, astray, settled>>
cursorVars == <<builds, built, cursors, history, load, loads, sheet, controls, edition, lost, torn,
                behind>>
rulesVars == <<form, value, mark, errors, verdict, page, named, asking, sent, steps>>
sendingVars == <<content, opening, visible, opens, disabled, busy, dialog, sends, flights, failures,
                 pending, bar, mixed, stranded>>
csrfVars == <<rotating, cookie, timeUp, meta, tokens, requests, posted, last>>

Init ==
  /\ part \in {"table", "cursor", "rules", "sending", "csrf"}
  /\ Table!Init /\ Cursor!Init /\ Rules!Init /\ Sending!Init /\ Csrf!Init

Next ==
  /\ UNCHANGED part
  /\ \/ /\ part = "table" /\ Table!Next
        /\ UNCHANGED <<cursorVars, rulesVars, sendingVars, csrfVars>>
     \/ /\ part = "cursor" /\ Cursor!Next
        /\ UNCHANGED <<tableVars, rulesVars, sendingVars, csrfVars>>
     \/ /\ part = "rules" /\ Rules!Next
        /\ UNCHANGED <<tableVars, cursorVars, sendingVars, csrfVars>>
     \/ /\ part = "sending" /\ Sending!Next
        /\ UNCHANGED <<tableVars, cursorVars, rulesVars, csrfVars>>
     \/ /\ part = "csrf" /\ Csrf!Next
        /\ UNCHANGED <<tableVars, cursorVars, rulesVars, sendingVars>>

\* The fairness of each part, for the behaviours that are about it.
Fairness ==
  /\ WF_tableVars(part = "table" /\ Table!Answer)
  /\ WF_tableVars(part = "table" /\ Table!Unblock)
  /\ WF_cursorVars(part = "cursor" /\ Cursor!Answer)
  /\ WF_sendingVars(part = "sending" /\ Sending!Answer)
  /\ \A do \in Sending!Timers : WF_sendingVars(part = "sending" /\ Sending!FireOne(do))

Spec == Init /\ [][Next]_<<part, tableVars, cursorVars, rulesVars, sendingVars, csrfVars>> /\ Fairness

(* ------------------------------ properties ------------------------------- *)
\* Edits in place leave rows and total of a server table as the server has them and its
\* filtered counter off by the rows removed since the last draw, and whatever order its
\* answers come in, the panels it shows have a cause.
TableIsSound ==
  /\ Table!TypeOK
  /\ Table!EditsAgreeWithServer
  /\ Table!EmptyPanelHasACause /\ Table!HiddenRowsHaveACause

\* A row removed in place leaves the footer of a server table as a reload would draw it.
FooterIsReloaded == Table!FooterCountsTheRows

\* The status under a cursor table names the page in it, Next leads to the next page and
\* Previous to the one before, and older rows are there for a reason.
CursorsLeadOn ==
  /\ [](Cursor!TypeOK /\ Cursor!StatusIsThePage /\ Cursor!NextLeadsOn /\ Cursor!OldRowsHaveACause)
  /\ Cursor!PreviousGoesBack

\* What is sent obeys the rules it was checked against, a field that is refused breaks one,
\* toast, marks and errors are about the same fields, and required_if and required_unless
\* are opposites over every operator.
ChecksAreSound ==
  /\ [](Rules!TypeOK /\ Rules!RefusedFieldBreaksItsRule /\ Rules!MessagesAreTheMarks)
  /\ [](part = "rules" => Rules!IfAndUnlessAreOpposite)
  /\ Rules!SentFormObeysItsRules

\* A form is saved once at a time, its button comes back with its own text, the bar is
\* empty in the end, and the answer leaves the page with a token its next write is
\* accepted with.
SavesAreSound ==
  /\ Sending!TypeOK /\ Csrf!TypeOK
  /\ Sending!OneSaveAtATime /\ Sending!LabelsComeBack /\ Sending!BarIsEmptied
  /\ Csrf!AnswerRenewsThePage

\* The loading panel of a server table goes, the load of a cursor page ends, a button that
\* waits comes back, and the overlay of a saved form closes.
WaitingEnds ==
  /\ part = "table" /\ waiting ~> ~waiting
  /\ Cursor!LoadsEnd
  /\ Sending!ButtonsComeBack /\ Sending!SavedFormCloses
==============================================================================
