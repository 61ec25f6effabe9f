------------------------------ MODULE ServerTable ------------------------------
(* BootstrapDataTable in server mode: a DataTables instance that asks the server *)
(* for every page, and the views that change its rows in place (syncRowFromPayload, *)
(* removeRowByPayload) when a save or a delete has been answered. Requests of the *)
(* table and calls of the views are answered in any order.                       *)
EXTENDS Naturals, FiniteSets

CONSTANTS
  Rows,        \* the rows there can be
  NewRows,     \* those of them that are still to be created
  PageLength,
  None,
  MaxDraws,    \* bound: requests of the table
  MaxCalls,    \* bound: saves and deletes
  MaxRev,      \* bound: saves of one row
  MaxFaults    \* bound: requests and calls that fail

VARIABLES
  stored,      \* the server's rows: where each is, and its revision
  clock,       \* changes the server has made
  shown,       \* revision of each row in the table, None for a row that is not in it
  totals,      \* _iRecordsTotal and _iRecordsDisplay
  pager,       \* filtered rows the page buttons were drawn for
  iDraw,       \* number of the last request of the table
  start,       \* _iDisplayStart
  draws,       \* requests of the table in flight
  calls,       \* saves and deletes in flight
  made,        \* saves and deletes made
  look,        \* "block" or "skeleton": which loading indicator is configured
  wrapper,     \* the table wrapper is visible (and the empty panel is not)
  waiting,     \* the loading indicator is on
  timers,      \* unblocks that wait for their 80 ms
  faults,
  seen, base,  \* newest clock applied to the table; clock of its last full answer
  removed,     \* rows taken out in place since the last draw
  askedAt,     \* the start that was asked for with the last answer drawn
  astray,      \* a failed, lost or overtaken answer has set the table back
  settled      \* how the last request of the table ended

table == <<shown, totals, pager, iDraw, start, draws, wrapper, waiting, timers, seen, base, removed,
           askedAt, astray, settled>>
vars == <<stored, clock, calls, made, look, faults, table>>

Ops == {"update", "hide", "create", "delete"}
Least(a, b) == IF a < b THEN a ELSE b
Latest(a, b) == IF a < b THEN b ELSE a
MinusOne(n) == IF n = 0 THEN 0 ELSE n - 1
From(s, n) == IF n < s THEN 0 ELSE n - s

At(place) == {r \in Rows : stored[r].place = place}
Shown(t) == {r \in Rows : t[r] # None}

(* ------------------------------ the server ------------------------------- *)
\* Which rows can be on the page that starts at s: the columns are ordered as the user likes.
PagesAt(s) == {on \in SUBSET At("in") : Cardinality(on) = Least(PageLength, From(s, Cardinality(At("in"))))}

\* What the listing endpoint answers for a page.
Page(on) ==
  [ok |-> TRUE, clock |-> clock,
   rows |-> [r \in Rows |-> IF r \in on THEN stored[r].rev ELSE None],
   totals |-> [total |-> Cardinality(At("in") \cup At("out")), filtered |-> Cardinality(At("in"))]]

NoPage == [ok |-> FALSE, clock |-> 0, rows |-> [r \in Rows |-> None],
           totals |-> [total |-> 0, filtered |-> 0]]

\* What a save or a delete does to a row, and whether the server refuses it; the id of
\* a deleted row does not come back.
Refuses(op, r) == CASE op = "create" -> stored[r].place # "absent"
                    [] op = "hide" -> stored[r].place # "in"
                    [] op = "update" -> stored[r].place \notin {"in", "out"} \/ stored[r].rev = MaxRev
                    [] op = "delete" -> stored[r].place \notin {"in", "out"}
Changed(op, r) == CASE op = "create" -> [place |-> "in", rev |-> 0]
                    [] op = "hide" -> [stored[r] EXCEPT !.place = "out"]
                    [] op = "update" -> [stored[r] EXCEPT !.rev = @ + 1]
                    [] op = "delete" -> [place |-> "gone", rev |-> 0]

(* --------------------------- the loading panel --------------------------- *)
ShowLoading == waiting' = TRUE /\ UNCHANGED timers

\* hideLoading(): the skeleton goes at once, the block 80 ms later.
HideLoading ==
  IF look = "skeleton" THEN waiting' = FALSE /\ UNCHANGED timers
  ELSE timers' = timers + 1 /\ UNCHANGED waiting

Unblock ==
  /\ timers > 0
  /\ timers' = timers - 1 /\ waiting' = FALSE
  /\ UNCHANGED <<stored, clock, calls, made, look, faults, shown, totals, pager, iDraw, start,
                 draws, wrapper, seen, base, removed, askedAt, astray, settled>>

(* ------------------------- requests of the table ------------------------- *)

\* Every request carries the next draw number; the answer of an older one is void.
Request(s) ==
  /\ iDraw < MaxDraws
  /\ iDraw' = iDraw + 1 /\ start' = s
  /\ draws' = draws \cup {[draw |-> iDraw + 1, start |-> s, reply |-> None]}
  /\ ShowLoading

Reload == Request(start)

\* A page button stays until the next draw; the page it asks for is the first one
\* when its own lies behind the counter.
ButtonTo(s) == IF s > totals.filtered THEN 0 ELSE s

\* The user turns the page, searches or sorts (back to the first page), or a view reloads.
Ask ==
  /\ \/ wrapper /\ \E s \in {0, PageLength} : s < pager /\ ButtonTo(s) # start /\ Request(ButtonTo(s))
     \/ wrapper /\ Request(0)
     \/ Reload
  /\ UNCHANGED <<stored, clock, calls, made, look, faults, shown, totals, pager, wrapper, seen, base,
                 removed, askedAt, astray, settled>>

Reply(q) ==
  /\ q \in draws /\ q.reply = None
  /\ \/ /\ \E on \in PagesAt(q.start) : draws' = (draws \ {q}) \cup {[q EXCEPT !.reply = Page(on)]}
        /\ UNCHANGED faults
     \/ /\ faults < MaxFaults /\ faults' = faults + 1
        /\ draws' = (draws \ {q}) \cup {[q EXCEPT !.reply = NoPage]}
  /\ UNCHANGED <<stored, clock, calls, made, look, shown, totals, pager, iDraw, start, wrapper,
                 waiting, timers, seen, base, removed, askedAt, astray, settled>>

\* The answer reaches the browser: DataTables draws it if its draw number is the
\* newest, and the table is shown or hidden by what the answer holds in any case.
Settle(q) ==
  /\ q \in draws /\ q.reply # None
  /\ draws' = draws \ {q}
  /\ IF q.draw < iDraw
     THEN settled' = "ignored" /\ UNCHANGED <<shown, totals, pager, seen, base, removed, askedAt, astray>>
     ELSE /\ settled' = IF q.reply.ok THEN "drawn" ELSE "failed"
          /\ shown' = q.reply.rows /\ totals' = q.reply.totals /\ pager' = q.reply.totals.filtered
          /\ removed' = 0 /\ askedAt' = q.start
          /\ base' = q.reply.clock /\ seen' = Latest(seen, q.reply.clock)
          /\ astray' = (~q.reply.ok \/ q.reply.clock < seen)
  /\ wrapper' = (Shown(q.reply.rows) # {})
  /\ HideLoading
  /\ UNCHANGED <<stored, clock, calls, made, look, faults, iDraw, start>>

(* --------------------------- saves and deletes --------------------------- *)
Send(op, r) ==
  /\ made < MaxCalls /\ made' = made + 1
  /\ IF op = "create" THEN stored[r].place = "absent" ELSE shown[r] # None
  /\ calls' = calls \cup {[id |-> made + 1, op |-> op, row |-> r, reply |-> None]}
  /\ UNCHANGED <<stored, clock, look, faults, table>>

Execute(c) ==
  /\ c \in calls /\ c.reply = None
  /\ IF Refuses(c.op, c.row)
     THEN /\ calls' = (calls \ {c}) \cup {[c EXCEPT !.reply = [ok |-> FALSE, clock |-> 0, rev |-> 0]]}
          /\ UNCHANGED <<stored, clock, faults>>
     ELSE /\ clock' = clock + 1 /\ stored' = [stored EXCEPT ![c.row] = Changed(c.op, c.row)]
          /\ \E ok \in BOOLEAN :                                 \* or its answer is lost
               /\ faults' = IF ok THEN faults ELSE faults + 1
               /\ calls' = (calls \ {c}) \cup
                    {[c EXCEPT !.reply = [ok |-> ok, clock |-> clock + 1, rev |-> stored'[c.row].rev]]}
          /\ faults' <= MaxFaults
  /\ UNCHANGED <<made, look, table>>

\* Mutant: the counter of all rows is not corrected.
ForgetsTheTotal(totalDelta) == [totals EXCEPT !.filtered = MinusOne(MinusOne(@))]

\* The counters after row().remove(), which counts one filtered row less already, and
\* updateServerSideDisplayState(), which counts it once more.
Corrected(totalDelta) == [total |-> IF totalDelta THEN MinusOne(totals.total) ELSE totals.total,
                          filtered |-> MinusOne(MinusOne(totals.filtered))]

\* Where row().remove() leaves the page: a start behind the last of n rows goes to the
\* start of the last page.
Overflowed(n) ==
  LET end == Least(start + PageLength, n)
      s == IF start < end THEN start ELSE From(PageLength, end)
  IN s - (s % PageLength)

\* removeRow(): takes the row out, corrects the counters, hides an empty table and
\* reloads the page when it was the last row on it.
RemoveRow(r, totalDelta) ==
  LET left == [shown EXCEPT ![r] = None]
      page == Overflowed(MinusOne(totals.filtered))
  IN
  /\ shown' = left /\ removed' = removed + 1
  /\ totals' = Corrected(totalDelta)
  /\ wrapper' = (Shown(left) # {})
  /\ IF Shown(left) = {} THEN Request(page)
     ELSE start' = page /\ UNCHANGED <<iDraw, draws, waiting, timers>>
  /\ UNCHANGED <<pager, askedAt>>

\* refreshRowNode() and refreshResponsiveChildRow(): every cell of the row, the hidden
\* ones of a child row too, is drawn from the new data.
Fresh(r, rev) == [shown EXCEPT ![r] = rev]

UpdateRow(r, rev) ==
  /\ shown' = Fresh(r, rev)
  /\ wrapper' = TRUE
  /\ UNCHANGED <<totals, pager, iDraw, start, draws, waiting, timers, removed, askedAt>>

ReloadWhenMissing == Reload /\ UNCHANGED <<shown, totals, pager, wrapper, removed, askedAt>>

\* syncRowFromPayload() and removeRowByPayload() on the row of the answer.
Apply(c) ==
  IF shown[c.row] = None THEN ReloadWhenMissing
  ELSE CASE c.op = "delete" -> RemoveRow(c.row, TRUE)
         [] c.op = "hide" -> RemoveRow(c.row, FALSE)
         [] OTHER -> UpdateRow(c.row, c.reply.rev)

Return(c) ==
  /\ c \in calls /\ c.reply # None
  /\ calls' = calls \ {c}
  /\ IF ~c.reply.ok
     THEN /\ astray' = (astray \/ base < c.reply.clock)
          /\ UNCHANGED <<shown, totals, pager, iDraw, start, draws, wrapper, waiting, timers, removed,
                         askedAt, settled>>
     ELSE /\ Apply(c)
          /\ settled' = IF shown[c.row] = None THEN settled ELSE "edited"
          /\ astray' = (astray \/ (shown[c.row] # None
                               /\ (c.reply.clock < base
                                   \/ (c.op \in {"update", "create"} /\ c.reply.rev < shown[c.row]))))
  /\ seen' = Latest(seen, c.reply.clock)
  /\ UNCHANGED <<stored, clock, made, look, faults, base>>

(* ---------------------------- specification ------------------------------ *)
\* The table has just been created on a page with every row: its first request is out.
Init ==
  /\ stored = [r \in Rows |-> [place |-> IF r \in NewRows THEN "absent" ELSE "in", rev |-> 0]]
  /\ clock = 0 /\ calls = {} /\ made = 0 /\ faults = 0 /\ look = "block"
  /\ shown = [r \in Rows |-> None] /\ totals = [total |-> 0, filtered |-> 0]
  /\ pager = 0 /\ removed = 0 /\ askedAt = 0
  /\ iDraw = 1 /\ start = 0 /\ draws = {[draw |-> 1, start |-> 0, reply |-> None]}
  /\ wrapper = TRUE /\ waiting = TRUE /\ timers = 0
  /\ seen = 0 /\ base = 0 /\ astray = FALSE /\ settled = "none"

\* The table is configured with a skeleton instead of a block.
UseSkeleton ==
  /\ settled = "none" /\ look = "block" /\ made = 0 /\ iDraw = 1
  /\ look' = "skeleton"
  /\ UNCHANGED <<stored, clock, calls, made, faults, table>>

Next ==
  \/ UseSkeleton \/ Ask \/ Unblock
  \/ \E q \in draws : Reply(q) \/ Settle(q)
  \/ \E op \in Ops, r \in Rows : Send(op, r)
  \/ \E c \in calls : Execute(c) \/ Return(c)

\* $.ajax gives up after its timeout, so every request is answered and settled; a
\* timer of the browser fires.
Answer == \E q \in draws : Reply(q) \/ Settle(q)
Fairness == WF_vars(Answer) /\ WF_vars(Unblock)

Spec == Init /\ [][Next]_vars /\ Fairness

(* ------------------------------ properties ------------------------------- *)
Revs == (0..MaxRev) \cup {None}
TypeOK ==
  /\ stored \in [Rows -> [place : {"absent", "in", "out", "gone"}, rev : 0..MaxRev]]
  /\ shown \in [Rows -> Revs]
  /\ totals \in [total : 0..Cardinality(Rows), filtered : 0..Cardinality(Rows)]
  /\ pager \in 0..Cardinality(Rows) /\ removed \in Nat
  /\ iDraw \in 1..MaxDraws /\ {start, askedAt} \subseteq {0, PageLength}
  /\ {wrapper, waiting, astray} \subseteq BOOLEAN
  /\ settled \in {"none", "drawn", "ignored", "failed", "edited"}

Quiet == draws = {} /\ calls = {}

\* Rows are edited in place and the total is corrected by deltas, and neither drifts
\* from the server: once every answer is in, and unless one was overtaken, lost or
\* failed, each row in the table is a row of the server in its newest revision and the
\* total is the server's. The counter of the filtered rows, which both DataTables and
\* removeRow() lower, is too low by one for every row removed since the last draw.
EditsAgreeWithServer ==
  Quiet /\ ~astray =>
    /\ \A r \in Shown(shown) : stored[r] = [place |-> "in", rev |-> shown[r]]
    /\ totals.total = Cardinality(At("in") \cup At("out"))
    /\ totals.filtered = From(removed, Cardinality(At("in")))

\* Removing a row in place leaves the footer as a reload would draw it.
FooterCountsTheRows ==
  Quiet /\ ~astray => totals.filtered = Cardinality(At("in"))

\* The empty panel replaces a table only when the table is empty, or when an answer
\* that DataTables discarded was the last to say whether there are rows.
EmptyPanelHasACause ==
  settled # "none" /\ wrapper # (Shown(shown) # {}) => settled = "ignored"

\* When everything is answered and rows match the filter, the table is hidden only
\* because of a failure, of an answer out of order, or because the page that was
\* asked for lies behind the last row (its last row was deleted).
HiddenRowsHaveACause ==
  Quiet /\ ~wrapper /\ At("in") # {} =>
    astray \/ settled = "ignored" \/ askedAt >= Cardinality(At("in"))

\* The loading panel is taken away in the end, whatever becomes of the requests.
LoadingEnds == waiting ~> ~waiting
===============================================================================
