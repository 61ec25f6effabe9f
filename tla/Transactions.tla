----------------------------- MODULE Transactions -----------------------------
(***************************************************************************)
(* transaction() of the database layer and the calls that open one of      *)
(* their own: insertOrUpdate, batchInsert, batchUpdate and upsert, nested  *)
(* in each other on one connection and interleaved with other connections. *)
(*                                                                         *)
(* beginTransaction() does nothing inside an open transaction, commit()    *)
(* and rollback() end whatever is open: there is one transaction, however  *)
(* many calls believe they own it.  Each connection has the stack of the   *)
(* calls under way; the callback of a transaction() is any sequence of     *)
(* calls, throws and catches.                                              *)
(*                                                                         *)
(* The table is its history of writes: a row of a key is an insert of it.  *)
(* The server is InnoDB at REPEATABLE READ: a plain SELECT reads the       *)
(* snapshot of the first one, a write waits for the open writes of others  *)
(* to its key, except that inserts into a column without a unique index    *)
(* wait for nobody.                                                        *)
(***************************************************************************)
EXTENDS Integers, Sequences, FiniteSets

CONSTANTS
  Conns,      \* processes, each with its connection
  Keys,       \* values of the column that calls look rows up by
  UniqueKeys, \* those under a unique index
  Programs,   \* sets of calls that programs make
  Throwables, \* what callbacks throw: "exception" and "error"
  None,
  MaxWrites,  \* bound: writes
  MaxDepth,   \* bound: calls in each other
  MaxThrows,  \* bound: throws of callbacks
  MaxFaults   \* bound: statements that fail by themselves

AllCalls == {"transaction", "insertOrUpdate", "batchInsert", "batchUpdate", "upsert",
             "insert", "update"}

ASSUME TransactionsAssumption ==
  /\ Conns # {} /\ UniqueKeys \subseteq Keys /\ Programs \subseteq SUBSET AllCalls
  /\ Throwables \subseteq {"exception", "error"}
  /\ (\A K \in SUBSET Keys : None # K) /\ None \notin {"exception", "error"}
  /\ {MaxWrites, MaxDepth, MaxThrows, MaxFaults} \subseteq Nat

VARIABLES
  calls,     \* the calls that the program of this behaviour makes
  committed, \* the writes others see
  open,      \* the writes in the open transaction of each connection
  inTx,      \* PDO::inTransaction()
  snap,      \* keys that have rows in its snapshot, or None before the first SELECT
  stack,     \* the calls under way, the innermost first: what is left of each
  thrown,    \* the throwable that is looking for a catch, or None
  mine,      \* history: the writes of the outermost call
  causes,    \* history: what may tear it
  torn,      \* history: None, or the causes when the last call was neither done nor undone
  leaked,    \* history: an Error left the open transaction behind
  touched,   \* history: keys looked up or written in the open transaction
  fresh,     \* history: keys others have committed during it
  excused,   \* history: keys that overlapping transactions touched, or inserted unseen
  stamp, throws, faults

server == <<committed, open, inTx, snap, touched, fresh, excused, leaked>>
unit == <<mine, causes, torn>>
bounds == <<throws, faults>>
vars == <<calls, server, stack, thrown, unit, stamp, bounds>>

Statement == [op: {"insert", "update", "upsert"}, key: Keys]
Write == [op: {"insert", "update"}, key: Keys, stamp: 1..MaxWrites]
Frame == [call: AllCalls, todo: Seq(Statement)]
Causes == {"nested", "error", "aborted"}

Stamps(W) == {w.stamp : w \in W}
KeysOf(W) == {w.key : w \in W}
Inserts(W, k) == {w \in W : w.op = "insert" /\ w.key = k}

TypeOK ==
  /\ calls \in Programs
  /\ committed \subseteq Write /\ open \in [Conns -> SUBSET Write]
  /\ inTx \in [Conns -> BOOLEAN] /\ snap \in [Conns -> {None} \cup (SUBSET Keys)]
  /\ stack \in [Conns -> Seq(Frame)]
  /\ thrown \in [Conns -> {"exception", "error", None}]
  /\ mine \in [Conns -> SUBSET (1..MaxWrites)] /\ causes \in [Conns -> SUBSET Causes]
  /\ torn \in [Conns -> {None} \cup (SUBSET Causes)] /\ leaked \in [Conns -> BOOLEAN]
  /\ touched \in [Conns -> SUBSET Keys] /\ fresh \in [Conns -> SUBSET Keys]
  /\ excused \subseteq Keys
  /\ stamp \in 0..MaxWrites /\ throws \in 0..MaxThrows /\ faults \in 0..MaxFaults
  /\ \A c \in Conns : ~inTx[c] => open[c] = {} /\ snap[c] = None

Init ==
  /\ calls \in Programs
  /\ committed = {} /\ open = [c \in Conns |-> {}]
  /\ inTx = [c \in Conns |-> FALSE] /\ snap = [c \in Conns |-> None]
  /\ stack = [c \in Conns |-> <<>>] /\ thrown = [c \in Conns |-> None]
  /\ mine = [c \in Conns |-> {}] /\ causes = [c \in Conns |-> {}] /\ torn = [c \in Conns |-> None]
  /\ leaked = [c \in Conns |-> FALSE] /\ touched = [c \in Conns |-> {}]
  /\ fresh = [c \in Conns |-> {}] /\ excused = {}
  /\ stamp = 0 /\ throws = 0 /\ faults = 0

-----------------------------------------------------------------------------
(* The connection.                                                           *)

Top(c) == stack[c][1]
Busy(c) == stack[c] # <<>>

\* Keys that others have just committed.
Published(c, W) ==
  fresh' = [d \in Conns |-> IF d # c /\ inTx[d] THEN fresh[d] \cup KeysOf(W)
                            ELSE IF d = c THEN {} ELSE fresh[d]]

\* The transaction of c, if there is one, ends; W of it stays.
End(c, W) ==
  /\ committed' = committed \cup W
  /\ open' = [open EXCEPT ![c] = {}] /\ inTx' = [inTx EXCEPT ![c] = FALSE]
  /\ snap' = [snap EXCEPT ![c] = None]
  /\ touched' = [touched EXCEPT ![c] = {}] /\ Published(c, W)
  /\ leaked' = [leaked EXCEPT ![c] = FALSE]
  /\ UNCHANGED excused

Commit(c) == IF inTx[c] THEN End(c, open[c]) ELSE UNCHANGED server

Rollback(c) == IF inTx[c] THEN End(c, {}) ELSE UNCHANGED server

\* c looks up or writes K: others may be at it, or have been since c's transaction began.
Touch(c, K) ==
  /\ touched' = IF inTx'[c] THEN [touched EXCEPT ![c] = @ \cup K] ELSE touched
  /\ excused' = excused \cup {k \in K : k \in fresh[c] \/ \E d \in Conns \ {c} : k \in touched[d]}

-----------------------------------------------------------------------------
(* Calls begin.                                                              *)

Owns(call) == call \in {"transaction", "insertOrUpdate", "batchInsert", "batchUpdate", "upsert"}

\* Calls are made by the program, or by the callback of a transaction().
MayCall(c, call) ==
  /\ thrown[c] = None /\ call \in calls /\ Len(stack[c]) < MaxDepth
  /\ Busy(c) => Top(c).call = "transaction"

Push(c, call, todo) ==
  /\ stack' = [stack EXCEPT ![c] = <<[call |-> call, todo |-> todo]>> \o @]
  /\ torn' = [torn EXCEPT ![c] = None]
  /\ causes' = [causes EXCEPT ![c] = @ \cup {x \in {"nested"} : Busy(c) /\ Owns(call)}
                                     \cup {x \in {"error"} : leaked[c]}]
  /\ UNCHANGED <<mine, thrown, stamp, bounds>>

\* Mutants: no transaction is begun; the guard of beginTransaction() is missing.
BeginsNothing(c) == UNCHANGED inTx
BeginToggles(c) == inTx' = [inTx EXCEPT ![c] = ~@]

\* beginTransaction() opens one unless one is open.
Begin(c) == inTx' = [inTx EXCEPT ![c] = TRUE]

Transaction(c) ==
  /\ MayCall(c, "transaction")
  /\ Begin(c)
  /\ Push(c, "transaction", <<>>)
  /\ UNCHANGED <<committed, open, snap, touched, fresh, excused, leaked>>

\* Mutant: the lookup has lost its conditions and finds nothing.
FindsNothing(c) == {}

\* What a plain SELECT of c finds.
Visible(c) ==
  {k \in Keys : Inserts(open[c], k) # {}} \cup
  (IF snap[c] # None THEN snap[c] ELSE {k \in Keys : Inserts(committed, k) # {}})

\* insertOrUpdate() looks the row up, without locking it, and then writes.
InsertOrUpdate(c, k) ==
  /\ MayCall(c, "insertOrUpdate")
  /\ Begin(c)
  /\ snap' = [snap EXCEPT ![c] = IF @ = None THEN {j \in Keys : Inserts(committed, j) # {}} ELSE @]
  /\ Touch(c, {k})
  /\ Push(c, "insertOrUpdate",
          << [op |-> IF k \in Visible(c) THEN "update" ELSE "insert", key |-> k] >>)
  /\ UNCHANGED <<committed, open, fresh, leaked>>

\* The statements of a batch: one INSERT per chunk, one UPDATE per row.
Batch(c, call, op, j, k) ==
  /\ MayCall(c, call) /\ j # k
  /\ Begin(c)
  /\ Push(c, call, << [op |-> op, key |-> j], [op |-> op, key |-> k] >>)
  /\ excused' = excused \cup {i \in {j, k} : op # "update"}
  /\ UNCHANGED <<committed, open, snap, touched, fresh, leaked>>

BatchInsert(c, j, k) == Batch(c, "batchInsert", "insert", j, k)
BatchUpdate(c, j, k) == Batch(c, "batchUpdate", "update", j, k)
Upsert(c, j, k) == Batch(c, "upsert", "upsert", j, k)

\* insert() and update() are one statement, in the open transaction or by itself.
Plain(c, call, k) ==
  /\ MayCall(c, call)
  /\ Push(c, call, << [op |-> call, key |-> k] >>)
  /\ excused' = excused \cup {i \in {k} : call = "insert"}
  /\ UNCHANGED <<committed, open, inTx, snap, touched, fresh, leaked>>

Insert(c, k) == Plain(c, "insert", k)
Update(c, k) == Plain(c, "update", k)

-----------------------------------------------------------------------------
(* Statements.                                                               *)

Running(c) == Busy(c) /\ thrown[c] = None /\ Top(c).todo # <<>>
Current(c) == Top(c).todo[1]

\* Connections whose open writes the statement of c waits for.
Holders(c) ==
  LET s == Current(c)
  IN  {d \in Conns \ {c} : /\ s.key \in KeysOf(open[d])
                           /\ s.op # "update" => s.key \in UniqueKeys}

Rows(c, k) == Inserts(committed \cup open[c], k)
Duplicate(c) == Current(c).op = "insert" /\ Current(c).key \in UniqueKeys /\ Rows(c, Current(c).key) # {}

\* ON DUPLICATE KEY UPDATE needs a unique index to find a row.
Effect(c) ==
  LET s == Current(c)
  IN  IF s.op = "upsert"
      THEN IF s.key \in UniqueKeys /\ Rows(c, s.key) # {} THEN "update" ELSE "insert"
      ELSE s.op

Advance(c) == stack' = [stack EXCEPT ![c][1].todo = Tail(@)]
Throw(c, x) == thrown' = [thrown EXCEPT ![c] = x]

Execute(c) ==
  LET s == Current(c)
      w == [op |-> Effect(c), key |-> s.key, stamp |-> stamp + 1]
  IN  /\ Running(c) /\ Holders(c) = {} /\ ~Duplicate(c)
      /\ Effect(c) = "update" => Rows(c, s.key) # {}
      /\ stamp < MaxWrites /\ stamp' = stamp + 1
      /\ mine' = [mine EXCEPT ![c] = @ \cup {stamp + 1}]
      /\ IF inTx[c]
         THEN open' = [open EXCEPT ![c] = @ \cup {w}] /\ UNCHANGED <<committed, fresh>>
         ELSE committed' = committed \cup {w} /\ Published(c, {w}) /\ UNCHANGED open
      /\ UNCHANGED inTx /\ Touch(c, {s.key})
      /\ Advance(c)
      /\ UNCHANGED <<snap, leaked, thrown, causes, torn, bounds>>

\* An UPDATE that matches no row.
ExecuteNothing(c) ==
  /\ Running(c) /\ Holders(c) = {} /\ Effect(c) = "update" /\ Rows(c, Current(c).key) = {}
  /\ Advance(c)
  /\ UNCHANGED <<server, thrown, unit, stamp, bounds>>

\* The unique index refuses the row.
Refuse(c) ==
  /\ Running(c) /\ Holders(c) = {} /\ Duplicate(c)
  /\ Throw(c, "exception")
  /\ UNCHANGED <<server, stack, unit, stamp, bounds>>

\* The statement fails, or gives up waiting: nothing else is undone.
Fail(c) ==
  /\ Running(c)
  /\ IF Holders(c) # {} THEN UNCHANGED faults
     ELSE faults < MaxFaults /\ faults' = faults + 1
  /\ Throw(c, "exception")
  /\ UNCHANGED <<server, stack, unit, stamp, throws>>

\* Of two statements that wait for each other the server undoes one, with its transaction.
Deadlock(c) ==
  /\ Running(c) /\ \E d \in Conns : Running(d) /\ d \in Holders(c) /\ c \in Holders(d)
  /\ End(c, {})
  /\ causes' = [causes EXCEPT ![c] = @ \cup {"aborted"}]
  /\ Throw(c, "exception")
  /\ UNCHANGED <<stack, mine, torn, stamp, bounds>>

-----------------------------------------------------------------------------
(* Calls end.                                                                *)

\* The outermost call has ended, for the reasons why: whole says whether it is torn.
Judge(c, whole, why) ==
  /\ torn' = [torn EXCEPT ![c] = IF whole THEN None ELSE why]
  /\ mine' = [mine EXCEPT ![c] = {}] /\ causes' = [causes EXCEPT ![c] = {}]

\* A call ends, well or not: its writes are there, or they are not.
Pop(c, well, why) ==
  /\ stack' = [stack EXCEPT ![c] = Tail(@)]
  /\ IF Len(stack[c]) > 1 THEN causes' = [causes EXCEPT ![c] = why] /\ UNCHANGED <<mine, torn>>
     ELSE Judge(c, IF well THEN mine[c] \subseteq Stamps(committed')
                   ELSE mine[c] \cap Stamps(committed' \cup open'[c]) = {}, why)
  /\ UNCHANGED <<stamp, bounds>>

\* A call is done: those that opened a transaction commit.
Return(c) ==
  /\ Busy(c) /\ thrown[c] = None /\ Top(c).todo = <<>>
  /\ IF Owns(Top(c).call) THEN Commit(c) ELSE UNCHANGED server
  /\ Pop(c, TRUE, causes[c])
  /\ UNCHANGED thrown

\* The callback throws.
CallbackThrows(c, x) ==
  /\ Busy(c) /\ Top(c).call = "transaction" /\ thrown[c] = None
  /\ throws < MaxThrows /\ throws' = throws + 1
  /\ x \in Throwables /\ Throw(c, x)
  /\ UNCHANGED <<server, stack, unit, stamp, faults>>

\* The callback catches what a call in it has thrown, and goes on.
CallbackCatches(c) ==
  /\ Busy(c) /\ Top(c).call = "transaction" /\ thrown[c] # None
  /\ Throw(c, None)
  /\ UNCHANGED <<server, stack, unit, stamp, bounds>>

\* Nobody is left to catch: the request handler or the loop of the worker does.
Pass(c) == thrown' = [thrown EXCEPT ![c] = IF Len(stack[c]) = 1 THEN None ELSE @]

\* catch (\Exception): transaction() and the batches throw it again.
Rethrow(c) ==
  /\ Busy(c) /\ thrown[c] = "exception"
  /\ Top(c).call \in {"transaction", "batchInsert", "batchUpdate"}
  /\ Rollback(c)
  /\ Pass(c) /\ Pop(c, FALSE, causes[c])

\* Mutant: without the rollback of the inner catch.
SwallowOnly(c) ==
  /\ Busy(c) /\ thrown[c] = "exception" /\ Top(c).call \in {"insertOrUpdate", "upsert"}
  /\ UNCHANGED server
  /\ Throw(c, None) /\ Pop(c, FALSE, causes[c])

\* insertOrUpdate() and upsert() log it and return a response with the code 400.
Swallow(c) ==
  /\ Busy(c) /\ thrown[c] = "exception" /\ Top(c).call \in {"insertOrUpdate", "upsert"}
  /\ Rollback(c)
  /\ Throw(c, None) /\ Pop(c, FALSE, causes[c])

\* insert() and update() have nothing to undo.
PassOn(c) ==
  /\ Busy(c) /\ thrown[c] # None /\ ~Owns(Top(c).call)
  /\ UNCHANGED server
  /\ Pass(c) /\ Pop(c, FALSE, causes[c])

\* An \Error is not an \Exception: transaction() leaves the transaction open.
Escape(c) ==
  /\ Busy(c) /\ thrown[c] = "error" /\ Top(c).call = "transaction"
  /\ leaked' = [leaked EXCEPT ![c] = inTx[c]]
  /\ UNCHANGED <<committed, open, inTx, snap, touched, fresh, excused>>
  /\ Pass(c) /\ Pop(c, FALSE, causes[c] \cup {"error"})

\* The process dies, or ends with a transaction open: the server undoes that.
Die(c) ==
  /\ Busy(c) \/ inTx[c]
  /\ End(c, {})
  /\ stack' = [stack EXCEPT ![c] = <<>>] /\ Throw(c, None)
  /\ Judge(c, mine[c] \cap Stamps(committed) \in {{}, mine[c]}, causes[c])
  /\ UNCHANGED <<stamp, bounds>>

-----------------------------------------------------------------------------
CallStep(c) ==
  \/ Transaction(c)
  \/ \E k \in Keys : InsertOrUpdate(c, k) \/ Insert(c, k) \/ Update(c, k)
  \/ \E j, k \in Keys : BatchInsert(c, j, k) \/ BatchUpdate(c, j, k) \/ Upsert(c, j, k)

StatementStep(c) == Execute(c) \/ ExecuteNothing(c) \/ Refuse(c) \/ Fail(c) \/ Deadlock(c)

EndStep(c) ==
  \/ Return(c) \/ Rethrow(c) \/ Swallow(c) \/ PassOn(c) \/ Escape(c)
  \/ CallbackCatches(c) \/ Die(c)
  \/ \E x \in Throwables : CallbackThrows(c, x)

Next ==
  /\ \E c \in Conns : CallStep(c) \/ StatementStep(c) \/ EndStep(c)
  /\ UNCHANGED calls

Spec == Init /\ [][Next]_vars

-----------------------------------------------------------------------------
(* Properties. *)

\* A call is all or nothing - all of its writes are committed when it returns, none of
\* them is left when it fails, and not a part of them when the process dies - unless it made another call that opens a transaction,
\* an Error passed through it, or the server undid the transaction and the callback
\* went on (transaction(), insertOrUpdate(), batchInsert(), batchUpdate(), upsert()).
TornNeedsACause == \A c \in Conns : torn[c] # {}

\* Between calls a connection is in a transaction only when an Error left it there.
ClosedBetweenCalls == \A c \in Conns : ~Busy(c) /\ inTx[c] => leaked[c]

\* transaction() "auto-commits on success, auto-rollbacks on exception".
AllOrNothing == \A c \in Conns : torn[c] = None

\* A key that only gets rows through insertOrUpdate() gets a second row only when two
\* transactions overlap at it ("Wrap in transaction to prevent race conditions").
DuplicateNeedsOverlap ==
  \A k \in Keys : Cardinality(Inserts(committed, k)) > 1 => k \in excused
\* Connections are what the calls take them for: closed when one begins, and the state has
\* its shape (BaseDatabase::transaction).
ConnectionsAreSound == TypeOK /\ ClosedBetweenCalls
=============================================================================
