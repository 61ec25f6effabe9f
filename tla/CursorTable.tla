------------------------------ MODULE CursorTable ------------------------------
(* BootstrapDataTable in cursor mode: pages are reached one after the other with *)
(* the cursor the server gave, the way back is a history kept in the manager, and *)
(* the manager outlives the tables it creates. A cursor is the number of the page *)
(* it leads to; the first page, whose cursor is null, is 1.                      *)
EXTENDS Naturals, Sequences, SequencesExt

CONSTANTS
  Pages,       \* pages the server has
  None,
  MaxBuilds,   \* bound: calls of create()
  MaxLoads,    \* bound: pages asked for
  MaxEdits,    \* bound: changes of the data followed by reload()
  MaxLost      \* bound: requests that fail

VARIABLES
  builds,      \* calls of create()
  built,       \* there is a DataTables instance
  cursors,     \* cursorState: requestCursor and nextCursor (0: null)
  history,     \* cursorState.history
  load,        \* the request in flight, None when cursorState.loading is false
  loads,
  sheet,       \* the page whose rows are in the table (0: no rows), and their edition
  controls,    \* the buttons and the status text below the table
  edition,     \* edition of the data at the server
  lost,        \* requests that failed
  torn,        \* create() found the history of an earlier table
  behind       \* a reload was dropped or failed

vars == <<builds, built, cursors, history, load, loads, sheet, controls, edition, lost, torn, behind>>

NoControls == [mounted |-> FALSE, page |-> 0, previous |-> FALSE, next |-> FALSE]
Empty == [page |-> 0, edition |-> 0]
After(page) == IF page < Pages THEN page + 1 ELSE 0

\* loadCursorPage(): nothing without an instance, nothing while a page is loading.
CanLoad == built /\ load = None
Ask(page, direction) ==
  /\ loads < MaxLoads /\ loads' = loads + 1
  /\ load' = [page |-> page, direction |-> direction, reply |-> None]

\* Mutant: the Next button is always on.
NextIsAlwaysOn(h, next) ==
  IF controls.mounted
  THEN [mounted |-> TRUE, page |-> Len(h) + 1, previous |-> h # <<>>, next |-> TRUE]
  ELSE controls

\* updateCursorControls(): finds nothing once the controls are unmounted.
Controls(h, next) ==
  IF controls.mounted
  THEN [mounted |-> TRUE, page |-> Len(h) + 1, previous |-> h # <<>>, next |-> next # 0]
  ELSE controls

(* ------------------------------- the user -------------------------------- *)
\* create(): destroys the old table, mounts fresh controls and loads the first page;
\* cursors and history stay, and so does a load in flight.
Create ==
  /\ builds < MaxBuilds /\ builds' = builds + 1
  /\ built' = TRUE /\ sheet' = Empty
  /\ controls' = [NoControls EXCEPT !.mounted = TRUE]
  /\ torn' = (torn \/ history # <<>>)
  /\ IF load = None THEN Ask(1, "initial") ELSE UNCHANGED <<load, loads>>
  /\ UNCHANGED <<cursors, history, edition, lost, behind>>

Destroy ==
  /\ built
  /\ built' = FALSE /\ sheet' = Empty /\ controls' = NoControls
  /\ UNCHANGED <<builds, cursors, history, load, loads, edition, lost, torn, behind>>

ClickNext ==
  /\ CanLoad /\ controls.next /\ cursors.next # 0
  /\ Ask(cursors.next, "next")
  /\ UNCHANGED <<builds, built, cursors, history, sheet, controls, edition, lost, torn, behind>>

ClickPrevious ==
  /\ CanLoad /\ controls.previous /\ history # <<>>
  /\ Ask(Last(history), "previous")
  /\ UNCHANGED <<builds, built, cursors, history, sheet, controls, edition, lost, torn, behind>>

\* A view has changed a row and reloads: reload() is dropped while a page is loading.
EditAndReload ==
  /\ built /\ edition < MaxEdits /\ edition' = edition + 1
  /\ IF CanLoad THEN Ask(cursors.request, "reload") /\ UNCHANGED behind
     ELSE behind' = TRUE /\ UNCHANGED <<load, loads>>
  /\ UNCHANGED <<builds, built, cursors, history, sheet, controls, lost, torn>>

(* ----------------------------- the requests ------------------------------ *)
Reply ==
  /\ load # None /\ load.reply = None
  /\ \/ load' = [load EXCEPT !.reply = [ok |-> TRUE, edition |-> edition]] /\ UNCHANGED lost
     \/ /\ lost < MaxLost /\ lost' = lost + 1
        /\ load' = [load EXCEPT !.reply = [ok |-> FALSE, edition |-> 0]]
  /\ UNCHANGED <<builds, built, cursors, history, loads, sheet, controls, edition, torn, behind>>

Turned(direction) ==
  CASE direction = "next" -> Append(history, cursors.request)
    [] direction = "previous" -> IF history = <<>> THEN <<>> ELSE Front(history)
    [] OTHER -> history

\* The page arrives: history and cursors are set first, then the rows are drawn into
\* whatever instance the manager has now; without one that throws.
Arrive ==
  /\ load # None /\ load.reply # None /\ load.reply.ok
  /\ history' = Turned(load.direction)
  /\ cursors' = [request |-> load.page, next |-> After(load.page)]
  /\ IF built
     THEN /\ sheet' = [page |-> load.page, edition |-> load.reply.edition]
          /\ behind' = (behind /\ load.reply.edition # edition)
          /\ controls' = Controls(history', After(load.page))
     ELSE UNCHANGED <<sheet, behind, controls>>
  /\ torn' = (torn /\ history' # <<>>)
  /\ load' = None
  /\ UNCHANGED <<builds, built, loads, edition, lost>>

Fail ==
  /\ load # None /\ load.reply # None /\ ~load.reply.ok
  /\ controls' = Controls(history, cursors.next)
  /\ load' = None /\ behind' = TRUE
  /\ UNCHANGED <<builds, built, cursors, history, loads, sheet, edition, lost, torn>>

(* ---------------------------- specification ------------------------------ *)
Init ==
  /\ builds = 0 /\ built = FALSE /\ cursors = [request |-> 1, next |-> 0] /\ history = <<>>
  /\ load = None /\ loads = 0 /\ sheet = Empty /\ controls = NoControls
  /\ edition = 0 /\ lost = 0 /\ torn = FALSE /\ behind = FALSE

Next ==
  \/ Create \/ Destroy \/ ClickNext \/ ClickPrevious \/ EditAndReload
  \/ Reply \/ Arrive \/ Fail

\* $.ajax gives up after its timeout, so a request is answered and its handler runs.
Answer == Reply \/ Arrive \/ Fail
Fairness == WF_vars(Answer)
Spec == Init /\ [][Next]_vars /\ Fairness

(* ------------------------------ properties ------------------------------- *)
TypeOK ==
  /\ cursors \in [request : 1..Pages, next : 0..Pages]
  /\ history \in Seq(1..Pages) /\ Len(history) <= MaxLoads
  /\ sheet \in [page : 0..Pages, edition : 0..MaxEdits]
  /\ controls \in [mounted : BOOLEAN, page : 0..MaxLoads + 1, previous : BOOLEAN, next : BOOLEAN]

\* "Page 3" under the table is the page in it, however clicks, failures, reloads and
\* new tables interleave, unless the table was created over the history of another.
StatusIsThePage ==
  built /\ sheet.page # 0 /\ ~torn => controls.page = sheet.page

\* The Next button leads to the page after the one in the table and is disabled on
\* the last page only, even when a table was replaced while a page was loading.
NextLeadsOn ==
  built /\ sheet.page # 0 =>
    cursors.next = After(sheet.page) /\ controls.next = (sheet.page < Pages)

\* The Previous button shows the page before the one in the table.
PreviousGoesBack ==
  [][load # None /\ load.direction = "previous" /\ sheet.page # 0 /\ ~torn
     /\ sheet'.page \notin {0, sheet.page} => sheet'.page + 1 = sheet.page]_vars

\* Rows older than the data stay in the table only when a reload was dropped, because
\* a page was loading, or failed.
OldRowsHaveACause ==
  load = None /\ built /\ sheet.page # 0 /\ sheet.edition # edition => behind

\* A page that is loading arrives or fails, and only then can the next be asked for.
LoadsEnd == load # None ~> load = None
===============================================================================
