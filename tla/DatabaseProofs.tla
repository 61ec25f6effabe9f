-------------------------- MODULE DatabaseProofs --------------------------
(***************************************************************************)
(* What the calls of the database layer keep of their promises, for any    *)
(* number of connections, keys, writes, nested calls and failures; and     *)
(* what deploy.json tells of the schema, for any number of consoles.       *)
(***************************************************************************)
EXTENDS MCDatabase, FiniteSetTheorems, SequenceTheorems, WellFoundedInduction, TLAPS

-----------------------------------------------------------------------------
(* The inductive invariant.                                                  *)

\* What a connection has written in its open transaction nobody else has.
Stamped ==
  /\ \A w \in committed : w.stamp <= stamp
  /\ \A c \in Conns : \A w \in open[c] :
       /\ w.stamp <= stamp /\ w.key \in touched[c]
       /\ \A v \in committed : v.stamp # w.stamp
       /\ \A d \in Conns \ {c} : \A v \in open[d] : v.stamp # w.stamp

\* A key that is not excused has one transaction at work on it, which sees what there is, and
\* one row.
OneToucher ==
  \A k \in Keys \ excused : \A c, d \in Conns : k \in touched[c] /\ k \in touched[d] => c = d
SnapshotIsTrue ==
  \A k \in Keys \ excused : \A c \in Conns :
    snap[c] # None /\ k \notin fresh[c] => (k \in snap[c] <=> Inserts(committed, k) # {})
OneRow ==
  \A k \in Keys \ excused : \A c \in Conns : \A v, w \in Rows(c, k) : v = w

ServerOk == Stamped /\ OneToucher /\ SnapshotIsTrue /\ OneRow

\* Rows come from insertOrUpdate(), or their keys are excused.
FrameOk(f) ==
  /\ f.call = "transaction" => f.todo = <<>>
  /\ f.call \in {"insert", "update", "insertOrUpdate"} => Len(f.todo) <= 1
  /\ f.call = "insertOrUpdate" => \A j \in 1..Len(f.todo) : f.todo[j].op # "upsert"
  /\ f.call # "insertOrUpdate" =>
       \A j \in 1..Len(f.todo) : f.todo[j].op # "update" => f.todo[j].key \in excused

\* Only transaction() has calls in it, and what throws in a plain call is its statement.
Frames(c) ==
  /\ Busy(c) => FrameOk(Top(c))
  /\ \A i \in 2..Len(stack[c]) : stack[c][i].call = "transaction" /\ stack[c][i].todo = <<>>
  /\ Busy(c) /\ thrown[c] # None /\ ~Owns(Top(c).call) => Top(c).todo # <<>>

\* insertOrUpdate() still inserts what is not there.
LookedUp(c) ==
  Busy(c) /\ thrown[c] = None /\ Top(c).call = "insertOrUpdate" =>
    \A j \in 1..Len(Top(c).todo) : \A k \in Keys \ excused :
      Top(c).todo[j].key = k =>
        /\ inTx[c] /\ k \in touched[c]
        /\ Top(c).todo[j].op = "insert" => Rows(c, k) = {}

\* A transaction is open around the calls that opened one, or an Error left it there.
Closed(c) ==
  (Busy(c) => Len(stack[c]) = 1 /\ ~Owns(Top(c).call)) /\ inTx[c] => leaked[c]

\* Without a cause that may tear it the outermost call has all its writes in its transaction,
\* or its only write is committed.
Whole(c) ==
  Busy(c) /\ causes[c] = {} =>
    /\ Len(stack[c]) > 1 => Len(stack[c]) = 2 /\ ~Owns(Top(c).call)
    /\ IF Len(stack[c]) = 1 /\ ~Owns(Top(c).call)
       THEN /\ ~inTx[c] /\ mine[c] \subseteq Stamps(committed)
            /\ Top(c).todo # <<>> => mine[c] = {}
       ELSE inTx[c] /\ mine[c] = Stamps(open[c])

Idle(c) == ~Busy(c) => mine[c] = {} /\ causes[c] = {}

ConnOk(c) == Frames(c) /\ LookedUp(c) /\ Closed(c) /\ Whole(c) /\ Idle(c) /\ torn[c] # {}

IInv == TypeOK /\ ServerOk /\ \A c \in Conns : ConnOk(c)
-----------------------------------------------------------------------------
(* The bounds, and stacks of calls.                                          *)

LEMMA Bounds ==
  /\ MaxWrites \in Nat /\ MaxDepth \in Nat /\ MaxThrows \in Nat /\ MaxFaults \in Nat
  /\ None # {} /\ None # "exception" /\ None # "error" /\ UniqueKeys \subseteq Keys
  /\ \A K \in SUBSET Keys : None # K
PROOF
<1>1. {} \in SUBSET Keys
  OBVIOUS
<1> QED BY <1>1, TransactionsAssumption

\* A call begins on top of the others.
LEMMA PushFacts ==
  ASSUME NEW S, NEW s \in Seq(S), NEW f \in S
  PROVE  /\ <<f>> \o s \in Seq(S)
         /\ Len(<<f>> \o s) = Len(s) + 1
         /\ (<<f>> \o s)[1] = f
         /\ \A i \in 2..(Len(s) + 1) : (<<f>> \o s)[i] = s[i - 1]
PROOF
<1>1. <<f>> \in Seq(S) /\ Len(<<f>>) = 1 /\ <<f>>[1] = f
  OBVIOUS
<1> QED BY <1>1

\* The innermost call ends.
LEMMA PopFacts ==
  ASSUME NEW S, NEW s \in Seq(S), s # <<>>
  PROVE  /\ Tail(s) \in Seq(S) /\ Len(Tail(s)) = Len(s) - 1 /\ Len(s) \in Nat \ {0}
         /\ \A i \in 1..(Len(s) - 1) : Tail(s)[i] = s[i + 1]
         /\ Tail(s) = <<>> <=> Len(s) = 1
         /\ Head(s) = s[1] /\ s[1] \in S
PROOF
<1>1. Len(s) \in Nat \ {0}
  OBVIOUS
<1>2. Tail(s) \in Seq(S) /\ Len(Tail(s)) = Len(s) - 1
  BY <1>1
<1>3. \A i \in 1..(Len(s) - 1) : Tail(s)[i] = s[i + 1]
  BY <1>1
<1>4. Tail(s) = <<>> <=> Len(s) = 1
  <2>1. \A t \in Seq(S) : t = <<>> <=> Len(t) = 0
    BY EmptySeq
  <2>2. Tail(s) = <<>> <=> Len(Tail(s)) = 0
    BY <1>2, <2>1
  <2>3. Len(Tail(s)) = 0 <=> Len(s) = 1
    BY <1>1, <1>2
  <2> QED BY <2>2, <2>3
<1>5. Head(s) = s[1] /\ s[1] \in S
  BY <1>1
<1> QED BY <1>1, <1>2, <1>3, <1>4, <1>5

\* The innermost call has one statement less to run.
LEMMA AdvanceFacts ==
  ASSUME NEW s \in Seq(Frame), s # <<>>, s[1].todo # <<>>,
         NEW t, t = [s EXCEPT ![1].todo = Tail(@)]
  PROVE  /\ t \in Seq(Frame) /\ Len(t) = Len(s) /\ t # <<>>
         /\ t[1].call = s[1].call /\ t[1].todo = Tail(s[1].todo)
         /\ \A i \in 2..Len(s) : t[i] = s[i]
PROOF
<1>1. Len(s) \in Nat \ {0} /\ s[1] \in Frame /\ DOMAIN s = 1..Len(s)
  OBVIOUS
<1>2. Tail(s[1].todo) \in Seq(Statement)
  BY <1>1 DEF Frame
<1> DEFINE f == [s[1] EXCEPT !.todo = Tail(@)]
<1>3. f \in Frame /\ f.call = s[1].call /\ f.todo = Tail(s[1].todo)
  BY <1>1, <1>2 DEF Frame
<1>4. t = [s EXCEPT ![1] = f]
  OBVIOUS
<1>5. t[1] = f /\ \A i \in 2..Len(s) : t[i] = s[i]
  <2>1. 1 \in 1..Len(s) /\ \A i \in 2..Len(s) : i \in 1..Len(s) /\ i # 1
    BY <1>1
  <2> HIDE DEF f
  <2>2. \A i \in 1..Len(s) : t[i] = IF i = 1 THEN f ELSE s[i]
    BY <1>1, <1>3, <1>4, <2>1, ExceptSeq
  <2> QED BY <2>1, <2>2
<1>6. t \in Seq(Frame) /\ Len(t) = Len(s)
  BY <1>1, <1>3, <1>4, ExceptSeq
<1> QED BY <1>1, <1>3, <1>5, <1>6
-----------------------------------------------------------------------------
(* The state has its shape.                                                  *)

LEMMA TopFacts ==
  ASSUME TypeOK, NEW c \in Conns, Busy(c)
  PROVE  /\ Top(c) \in Frame /\ Top(c).call \in AllCalls /\ Top(c).todo \in Seq(Statement)
         /\ stack[c] \in Seq(Frame) /\ Len(stack[c]) \in Nat \ {0}
         /\ Running(c) => Current(c) \in Statement /\ Current(c).key \in Keys
PROOF
<1>1. stack[c] \in Seq(Frame) /\ stack[c] # <<>>
  BY DEF TypeOK, Busy
<1>2. Len(stack[c]) \in Nat \ {0} /\ Top(c) \in Frame
  BY <1>1, PopFacts DEF Top
<1>3. Top(c).call \in AllCalls /\ Top(c).todo \in Seq(Statement)
  BY <1>2 DEF Frame
<1>4. Running(c) => Current(c) \in Statement
  BY <1>3, PopFacts DEF Running, Current
<1> QED BY <1>1, <1>2, <1>3, <1>4 DEF Statement

ServerTypes ==
  /\ committed \subseteq Write /\ open \in [Conns -> SUBSET Write]
  /\ inTx \in [Conns -> BOOLEAN] /\ snap \in [Conns -> {None} \cup (SUBSET Keys)]
  /\ leaked \in [Conns -> BOOLEAN]
  /\ touched \in [Conns -> SUBSET Keys] /\ fresh \in [Conns -> SUBSET Keys]
  /\ excused \subseteq Keys
  /\ \A c \in Conns : ~inTx[c] => open[c] = {} /\ snap[c] = None
CallTypes ==
  /\ calls \in Programs /\ stack \in [Conns -> Seq(Frame)]
  /\ thrown \in [Conns -> {"exception", "error", None}]
UnitTypes ==
  /\ mine \in [Conns -> SUBSET (1..MaxWrites)] /\ causes \in [Conns -> SUBSET Causes]
  /\ torn \in [Conns -> {None} \cup (SUBSET Causes)]
CountTypes == stamp \in 0..MaxWrites /\ throws \in 0..MaxThrows /\ faults \in 0..MaxFaults

LEMMA Shape == TypeOK <=> ServerTypes /\ CallTypes /\ UnitTypes /\ CountTypes
  BY Zenon DEF TypeOK, ServerTypes, CallTypes, UnitTypes, CountTypes
LEMMA ShapeNext ==
  ServerTypes' /\ CallTypes' /\ UnitTypes' /\ CountTypes' => TypeOK'
  BY Zenon DEF TypeOK, ServerTypes, CallTypes, UnitTypes, CountTypes

LEMMA EndTypes ==
  ASSUME TypeOK, NEW c \in Conns, NEW W, W \subseteq Write, End(c, W)
  PROVE  ServerTypes'
PROOF
<1>1. KeysOf(W) \subseteq Keys
  BY DEF KeysOf, Write
<1>2. fresh' \in [Conns -> SUBSET Keys]
  BY <1>1 DEF TypeOK, End, Published
<1>3. committed' \subseteq Write /\ open' \in [Conns -> SUBSET Write] /\ inTx' \in [Conns -> BOOLEAN]
  BY DEF TypeOK, End
<1>4. /\ snap' \in [Conns -> {None} \cup (SUBSET Keys)] /\ leaked' \in [Conns -> BOOLEAN]
      /\ touched' \in [Conns -> SUBSET Keys] /\ excused' \subseteq Keys
  BY DEF TypeOK, End
<1>5. \A d \in Conns : ~inTx'[d] => open'[d] = {} /\ snap'[d] = None
  BY DEF TypeOK, End
<1> QED BY <1>2, <1>3, <1>4, <1>5 DEF ServerTypes

LEMMA SameServerTypes == TypeOK /\ UNCHANGED server => ServerTypes'
  BY DEF TypeOK, ServerTypes, server

\* Commit and rollback.
LEMMA EndsTypes ==
  ASSUME TypeOK, NEW c \in Conns, Commit(c) \/ Rollback(c) \/ UNCHANGED server
  PROVE  ServerTypes'
PROOF
<1>1. open[c] \subseteq Write /\ {} \subseteq Write
  BY DEF TypeOK
<1> QED BY <1>1, EndTypes, SameServerTypes DEF Commit, Rollback

LEMMA PushTypes ==
  ASSUME TypeOK, NEW c \in Conns, NEW call \in AllCalls, NEW rest \in Seq(Statement),
         Push(c, call, rest), calls' = calls
  PROVE  CallTypes' /\ UnitTypes' /\ CountTypes'
PROOF
<1> DEFINE f == [call |-> call, todo |-> rest]
<1>1. f \in Frame /\ stack[c] \in Seq(Frame)
  BY DEF Frame, TypeOK
<1>2. <<f>> \o stack[c] \in Seq(Frame)
  BY <1>1, PushFacts
<1>3. CallTypes'
  BY <1>2 DEF TypeOK, CallTypes, Push
<1>4. UnitTypes'
  BY DEF TypeOK, UnitTypes, Push, Causes
<1>5. CountTypes'
  BY DEF TypeOK, CountTypes, Push, bounds
<1> QED BY <1>3, <1>4, <1>5

LEMMA PopTypes ==
  ASSUME TypeOK, NEW c \in Conns, Busy(c), NEW why \in SUBSET Causes, NEW well \in BOOLEAN,
         Pop(c, well, why)
  PROVE  stack' \in [Conns -> Seq(Frame)] /\ UnitTypes' /\ CountTypes'
PROOF
<1>1. stack' \in [Conns -> Seq(Frame)]
  <2>1. stack[c] \in Seq(Frame) /\ stack[c] # <<>>
    BY DEF TypeOK, Busy
  <2>2. Tail(stack[c]) \in Seq(Frame)
    BY <2>1, PopFacts
  <2> QED BY <2>2 DEF TypeOK, Pop
<1>2. UnitTypes'
  BY DEF TypeOK, UnitTypes, Pop, Judge
<1>3. CountTypes'
  BY DEF TypeOK, CountTypes, Pop, bounds
<1> QED BY <1>1, <1>2, <1>3

LEMMA AdvanceTypes ==
  ASSUME TypeOK, NEW c \in Conns, Running(c), Advance(c)
  PROVE  stack' \in [Conns -> Seq(Frame)]
PROOF
<1>1. stack[c] \in Seq(Frame) /\ stack[c] # <<>> /\ stack[c][1].todo # <<>>
  BY DEF TypeOK, Running, Busy, Top
<1>2. stack' = [stack EXCEPT ![c] = [stack[c] EXCEPT ![1].todo = Tail(@)]]
  BY DEF Advance
<1>3. [stack[c] EXCEPT ![1].todo = Tail(@)] \in Seq(Frame)
  BY <1>1, AdvanceFacts
<1> QED BY <1>2, <1>3 DEF TypeOK
LEMMA WriteFacts ==
  ASSUME TypeOK, NEW c \in Conns, Running(c), stamp < MaxWrites
  PROVE  [op |-> Effect(c), key |-> Current(c).key, stamp |-> stamp + 1] \in Write
PROOF
<1>1. Current(c) \in Statement /\ Current(c).key \in Keys
  BY TopFacts DEF Running
<1>2. Effect(c) \in {"insert", "update"}
  BY <1>1 DEF Effect, Statement
<1>3. stamp + 1 \in 1..MaxWrites
  BY Bounds DEF TypeOK
<1> QED BY <1>1, <1>2, <1>3 DEF Write

LEMMA ExecuteTypes ==
  ASSUME TypeOK, NEW c \in Conns, Execute(c), calls' = calls
  PROVE  TypeOK'
PROOF
<1> DEFINE w == [op |-> Effect(c), key |-> Current(c).key, stamp |-> stamp + 1]
<1>1. Running(c) /\ stamp < MaxWrites /\ stamp' = stamp + 1 /\ Advance(c)
  BY DEF Execute
<1>2. w \in Write /\ Current(c).key \in Keys
  BY <1>1, WriteFacts, TopFacts DEF Running
<1>3. KeysOf({w}) \subseteq Keys /\ Current(c).key \in Keys
  BY <1>2 DEF KeysOf
<1>4. committed' \subseteq Write /\ open' \in [Conns -> SUBSET Write] /\ inTx' \in [Conns -> BOOLEAN]
      /\ \A d \in Conns : ~inTx'[d] => open'[d] = {} /\ snap'[d] = None
  <2>1. CASE inTx[c]
    <3>1. committed' = committed /\ open' = [open EXCEPT ![c] = @ \cup {w}] /\ inTx' = inTx /\ snap' = snap
      BY <2>1 DEF Execute
    <3> HIDE DEF w
    <3> QED BY <3>1, <2>1, <1>2 DEF TypeOK
  <2>2. CASE ~inTx[c]
    <3>1. committed' = committed \cup {w} /\ open' = open /\ inTx' = inTx /\ snap' = snap
      BY <2>2 DEF Execute
    <3> HIDE DEF w
    <3> QED BY <3>1, <2>2, <1>2 DEF TypeOK
  <2> QED BY <2>1, <2>2
<1>5. fresh' \in [Conns -> SUBSET Keys]
  <2>1. CASE inTx[c]
    BY <2>1 DEF Execute, TypeOK
  <2>2. CASE ~inTx[c]
    <3>1. Published(c, {w})
      BY <2>2 DEF Execute
    <3> HIDE DEF w
    <3> QED BY <3>1, <1>3 DEF TypeOK, Published
  <2> QED BY <2>1, <2>2
<1>6. snap' \in [Conns -> {None} \cup (SUBSET Keys)] /\ leaked' \in [Conns -> BOOLEAN]
  BY DEF Execute, TypeOK
<1>7. touched' \in [Conns -> SUBSET Keys] /\ excused' \subseteq Keys
  BY <1>3 DEF Execute, TypeOK, Touch
<1>8. ServerTypes'
  BY <1>4, <1>5, <1>6, <1>7 DEF ServerTypes
<1>9. CallTypes'
  BY <1>1, AdvanceTypes DEF CallTypes, TypeOK, Execute
<1>10. stamp + 1 \in 1..MaxWrites /\ stamp' \in 0..MaxWrites
  BY <1>1, Bounds DEF TypeOK
<1>11. UnitTypes'
  BY <1>10 DEF UnitTypes, TypeOK, Execute
<1>12. CountTypes'
  BY <1>10 DEF CountTypes, TypeOK, Execute, bounds
<1> QED BY <1>8, <1>9, <1>11, <1>12, ShapeNext

LEMMA CallStepTypes ==
  ASSUME TypeOK, NEW c \in Conns, CallStep(c), calls' = calls
  PROVE  TypeOK'
PROOF
<1>0. <<>> \in Seq(Statement) /\ \A s \in Statement : <<s>> \in Seq(Statement)
      /\ \A t \in Statement : <<s, t>> \in Seq(Statement)
  OBVIOUS
<1>1. CASE Transaction(c)
  <2>1. Push(c, "transaction", <<>>)
    BY <1>1 DEF Transaction
  <2>2. CallTypes' /\ UnitTypes' /\ CountTypes'
    BY <2>1, <1>0, PushTypes DEF AllCalls
  <2>3. ServerTypes'
    BY <1>1 DEF Transaction, Begin, TypeOK, ServerTypes
  <2> QED BY <2>2, <2>3, ShapeNext
<1>2. ASSUME NEW k \in Keys, InsertOrUpdate(c, k)
      PROVE  TypeOK'
  <2> DEFINE s == [op |-> IF k \in Visible(c) THEN "update" ELSE "insert", key |-> k]
  <2>1. Push(c, "insertOrUpdate", <<s>>)
    BY <1>2 DEF InsertOrUpdate
  <2>2. s \in Statement
    BY DEF Statement
  <2>3. CallTypes' /\ UnitTypes' /\ CountTypes'
    BY <2>1, <2>2, <1>0, PushTypes DEF AllCalls
  <2>4. snap' \in [Conns -> {None} \cup (SUBSET Keys)] /\ \A d \in Conns \ {c} : snap'[d] = snap[d]
    BY <1>2 DEF InsertOrUpdate, TypeOK
  <2>5. inTx' \in [Conns -> BOOLEAN] /\ inTx'[c] /\ \A d \in Conns \ {c} : inTx'[d] = inTx[d]
    BY <1>2 DEF InsertOrUpdate, Begin, TypeOK
  <2>6. touched' \in [Conns -> SUBSET Keys] /\ excused' \subseteq Keys
    BY <1>2 DEF InsertOrUpdate, Touch, TypeOK
  <2>7. committed' = committed /\ open' = open /\ fresh' = fresh /\ leaked' = leaked
    BY <1>2 DEF InsertOrUpdate
  <2>8. ServerTypes'
    BY <2>4, <2>5, <2>6, <2>7 DEF ServerTypes, TypeOK
  <2> QED BY <2>3, <2>8, ShapeNext
<1>3. ASSUME NEW j \in Keys, NEW k \in Keys, NEW call \in AllCalls, NEW op \in {"insert", "update", "upsert"},
             Batch(c, call, op, j, k)
      PROVE  TypeOK'
  <2> DEFINE s == [op |-> op, key |-> j]
             t == [op |-> op, key |-> k]
  <2>1. Push(c, call, <<s, t>>)
    BY <1>3 DEF Batch
  <2>2. s \in Statement /\ t \in Statement
    BY DEF Statement
  <2>3. CallTypes' /\ UnitTypes' /\ CountTypes'
    BY <2>1, <2>2, <1>0, PushTypes
  <2>4. ServerTypes'
    BY <1>3 DEF Batch, Begin, TypeOK, ServerTypes
  <2> QED BY <2>3, <2>4, ShapeNext
<1>4. ASSUME NEW k \in Keys, NEW call \in {"insert", "update"}, Plain(c, call, k)
      PROVE  TypeOK'
  <2> DEFINE s == [op |-> call, key |-> k]
  <2>1. Push(c, call, <<s>>)
    BY <1>4 DEF Plain
  <2>2. s \in Statement /\ call \in AllCalls
    BY DEF Statement, AllCalls
  <2>3. CallTypes' /\ UnitTypes' /\ CountTypes'
    BY <2>1, <2>2, <1>0, PushTypes
  <2>4. ServerTypes'
    BY <1>4 DEF Plain, TypeOK, ServerTypes
  <2> QED BY <2>3, <2>4, ShapeNext
<1> QED BY <1>1, <1>2, <1>3, <1>4
        DEF CallStep, BatchInsert, BatchUpdate, Upsert, Insert, Update, AllCalls

LEMMA StatementStepTypes ==
  ASSUME TypeOK, NEW c \in Conns, StatementStep(c), calls' = calls
  PROVE  TypeOK'
PROOF
<1>1. CASE Execute(c)
  BY <1>1, ExecuteTypes
<1>2. CASE ExecuteNothing(c)
  <2>1. CallTypes'
    BY <1>2, AdvanceTypes DEF ExecuteNothing, CallTypes, TypeOK
  <2>2. ServerTypes' /\ UnitTypes' /\ CountTypes'
    BY <1>2, SameServerTypes DEF ExecuteNothing, unit, bounds, UnitTypes, CountTypes, TypeOK
  <2> QED BY <2>1, <2>2, ShapeNext
<1>3. CASE Refuse(c)
  <2>1. ServerTypes' /\ UnitTypes' /\ CountTypes'
    BY <1>3, SameServerTypes DEF Refuse, unit, bounds, UnitTypes, CountTypes, TypeOK
  <2>2. CallTypes'
    BY <1>3 DEF Refuse, Throw, CallTypes, TypeOK
  <2> QED BY <2>1, <2>2, ShapeNext
<1>4. CASE Fail(c)
  <2>1. ServerTypes' /\ UnitTypes'
    BY <1>4, SameServerTypes DEF Fail, unit, UnitTypes, TypeOK
  <2>2. CallTypes'
    BY <1>4 DEF Fail, Throw, CallTypes, TypeOK
  <2>3. CountTypes'
    BY <1>4, Bounds DEF Fail, CountTypes, TypeOK
  <2> QED BY <2>1, <2>2, <2>3, ShapeNext
<1>5. CASE Deadlock(c)
  <2>1. ServerTypes'
    BY <1>5, EndTypes DEF Deadlock
  <2>2. CallTypes'
    BY <1>5 DEF Deadlock, Throw, CallTypes, TypeOK
  <2>3. UnitTypes' /\ CountTypes'
    BY <1>5 DEF Deadlock, UnitTypes, CountTypes, TypeOK, Causes, bounds
  <2> QED BY <2>1, <2>2, <2>3, ShapeNext
<1> QED BY <1>1, <1>2, <1>3, <1>4, <1>5 DEF StatementStep

LEMMA EndStepTypes ==
  ASSUME TypeOK, NEW c \in Conns, EndStep(c), calls' = calls
  PROVE  TypeOK'
PROOF
<1>0. causes[c] \in SUBSET Causes /\ causes[c] \cup {"error"} \in SUBSET Causes
  BY DEF TypeOK, Causes
<1>1. CASE Return(c)
  <2>1. ServerTypes'
    BY <1>1, EndsTypes DEF Return
  <2>2. stack' \in [Conns -> Seq(Frame)] /\ UnitTypes' /\ CountTypes'
    BY <1>0, <1>1, PopTypes DEF Return
  <2> QED BY <1>1, <2>1, <2>2, ShapeNext DEF Return, CallTypes, TypeOK
<1>2. CASE Rethrow(c) \/ Swallow(c) \/ PassOn(c)
  <2>1. ServerTypes'
    BY <1>2, EndsTypes DEF Rethrow, Swallow, PassOn
  <2>2. stack' \in [Conns -> Seq(Frame)] /\ UnitTypes' /\ CountTypes'
    BY <1>0, <1>2, PopTypes DEF Rethrow, Swallow, PassOn
  <2>3. thrown' \in [Conns -> {"exception", "error", None}]
    BY <1>2 DEF Rethrow, Swallow, PassOn, Pass, Throw, TypeOK
  <2> QED BY <2>1, <2>2, <2>3, ShapeNext DEF CallTypes, TypeOK
<1>3. CASE Escape(c)
  <2>1. ServerTypes'
    BY <1>3 DEF Escape, ServerTypes, TypeOK
  <2>2. stack' \in [Conns -> Seq(Frame)] /\ UnitTypes' /\ CountTypes'
    BY <1>0, <1>3, PopTypes DEF Escape
  <2>3. thrown' \in [Conns -> {"exception", "error", None}]
    BY <1>3 DEF Escape, Pass, TypeOK
  <2> QED BY <2>1, <2>2, <2>3, ShapeNext DEF CallTypes, TypeOK
<1>4. CASE CallbackCatches(c)
  <2>1. ServerTypes' /\ UnitTypes' /\ CountTypes'
    BY <1>4, SameServerTypes DEF CallbackCatches, unit, bounds, UnitTypes, CountTypes, TypeOK
  <2>2. CallTypes'
    BY <1>4 DEF CallbackCatches, Throw, CallTypes, TypeOK
  <2> QED BY <2>1, <2>2, ShapeNext
<1>5. CASE Die(c)
  <2>1. ServerTypes'
    BY <1>5, EndTypes DEF Die
  <2>2. CallTypes'
    BY <1>5 DEF Die, Throw, CallTypes, TypeOK
  <2>3. UnitTypes' /\ CountTypes'
    BY <1>0, <1>5 DEF Die, Judge, bounds, UnitTypes, CountTypes, TypeOK
  <2> QED BY <2>1, <2>2, <2>3, ShapeNext
<1>6. ASSUME NEW x \in Throwables, CallbackThrows(c, x)
      PROVE  TypeOK'
  <2>1. ServerTypes' /\ UnitTypes'
    BY <1>6, SameServerTypes DEF CallbackThrows, unit, UnitTypes, TypeOK
  <2>2. CallTypes'
    BY <1>6, TransactionsAssumption DEF CallbackThrows, Throw, CallTypes, TypeOK
  <2>3. CountTypes'
    BY <1>6, Bounds DEF CallbackThrows, CountTypes, TypeOK
  <2> QED BY <2>1, <2>2, <2>3, ShapeNext
<1> QED BY <1>1, <1>2, <1>3, <1>4, <1>5, <1>6 DEF EndStep
-----------------------------------------------------------------------------
(* What a step of one connection leaves alone.                               *)

LEMMA InsertsOfTwo == \A W, V, k : Inserts(W \cup V, k) = Inserts(W, k) \cup Inserts(V, k)
  BY DEF Inserts

LEMMA NoInserts == \A W, V, k : Inserts(V, k) = {} => Inserts(W \cup V, k) = Inserts(W, k)
  BY DEF Inserts

LEMMA StampFacts ==
  ASSUME NEW W, NEW V
  PROVE  /\ Stamps(W \cup V) = Stamps(W) \cup Stamps(V) /\ Stamps({}) = {}
         /\ \A w : Stamps({w}) = {w.stamp}
         /\ W \subseteq V => Stamps(W) \subseteq Stamps(V)
  BY DEF Stamps

\* The other connections are where they were: what is committed or excused since then does
\* not concern what they have looked up.
LEMMA OthersKeep ==
  ASSUME IInv, TypeOK', NEW c \in Conns, NEW d \in Conns,
         stack'[d] = stack[d], thrown'[d] = thrown[d], mine'[d] = mine[d],
         causes'[d] = causes[d], torn'[d] = torn[d], inTx'[d] = inTx[d], open'[d] = open[d],
         leaked'[d] = leaked[d], touched'[d] = touched[d],
         committed \subseteq committed', excused \subseteq excused',
         \A k \in Keys \ excused' : k \in touched[d] => Inserts(committed', k) = Inserts(committed, k)
  PROVE  ConnOk(d)'
PROOF
<1>0. ConnOk(d) /\ TypeOK
  BY DEF IInv
<1>1. Frames(d)'
  <2>1. Busy(d)' <=> Busy(d)
    BY DEF Busy
  <2>2. FrameOk(Top(d)) => FrameOk(Top(d))'
    BY DEF FrameOk, Top
  <2> QED BY <1>0, <2>1, <2>2 DEF ConnOk, Frames, Top
<1>2. LookedUp(d)'
  <2>1. ASSUME NEW k \in Keys \ excused', k \in touched[d]
        PROVE  Rows(d, k)' = Rows(d, k)
    <3>1. open'[d] = open[d] /\ Inserts(committed', k) = Inserts(committed, k)
      BY <2>1
    <3>2. Rows(d, k) = Inserts(committed, k) \cup Inserts(open[d], k)
      BY InsertsOfTwo DEF Rows
    <3>3. Rows(d, k)' = Inserts(committed', k) \cup Inserts(open'[d], k)
      BY InsertsOfTwo DEF Rows
    <3> QED BY <3>1, <3>2, <3>3
  <2>2. \A k \in Keys \ excused' : k \in Keys \ excused
    OBVIOUS
  <2> QED BY <1>0, <2>1, <2>2 DEF ConnOk, LookedUp, Top, Busy
<1>3. Closed(d)'
  BY <1>0 DEF ConnOk, Closed, Busy, Top
<1>4. Whole(d)'
  <2>1. Stamps(committed) \subseteq Stamps(committed')
    BY StampFacts
  <2> QED BY <1>0, <2>1 DEF ConnOk, Whole, Busy, Top
<1>5. Idle(d)' /\ torn'[d] # {}
  BY <1>0 DEF ConnOk, Idle, Busy
<1> QED BY <1>1, <1>2, <1>3, <1>4, <1>5 DEF ConnOk

LEMMA ServerStays == ServerOk /\ UNCHANGED <<server, stamp>> => ServerOk'
PROOF
<1> SUFFICES ASSUME ServerOk, UNCHANGED <<server, stamp>> PROVE ServerOk'
  OBVIOUS
<1>1. committed' = committed /\ open' = open /\ snap' = snap /\ touched' = touched
      /\ fresh' = fresh /\ excused' = excused /\ stamp' = stamp
  BY DEF server
<1>2. Stamped' /\ OneToucher'
  BY <1>1 DEF ServerOk, Stamped, OneToucher
<1>3. SnapshotIsTrue' /\ OneRow'
  BY <1>1 DEF ServerOk, SnapshotIsTrue, OneRow, Rows
<1> QED BY <1>2, <1>3 DEF ServerOk

-----------------------------------------------------------------------------
(* A transaction ends.                                                       *)

LEMMA EndServer ==
  ASSUME IInv, TypeOK', NEW c \in Conns, NEW W, W = open[c] \/ W = {}, End(c, W), stamp' = stamp
  PROVE  ServerOk'
PROOF
<1>0. TypeOK /\ ServerOk
  BY DEF IInv
<1>1. /\ committed' = committed \cup W /\ open'[c] = {} /\ touched'[c] = {} /\ snap'[c] = None
      /\ excused' = excused /\ W \subseteq open[c]
      /\ \A d \in Conns \ {c} : /\ open'[d] = open[d] /\ touched'[d] = touched[d]
                                /\ snap'[d] = snap[d] /\ inTx'[d] = inTx[d]
                                /\ fresh'[d] = IF inTx[d] THEN fresh[d] \cup KeysOf(W) ELSE fresh[d]
  BY <1>0 DEF End, Published, TypeOK
<1>2. Stamped'
  <2>1. ASSUME NEW w \in committed' PROVE w.stamp <= stamp'
    BY <1>0, <1>1 DEF ServerOk, Stamped
  <2>2. ASSUME NEW d \in Conns, NEW w \in open'[d]
        PROVE  /\ w.stamp <= stamp' /\ w.key \in touched'[d]
               /\ \A v \in committed' : v.stamp # w.stamp
               /\ \A e \in Conns \ {d} : \A v \in open'[e] : v.stamp # w.stamp
    <3>1. d # c /\ w \in open[d]
      BY <1>1, <2>2
    <3>2. w.stamp <= stamp' /\ w.key \in touched'[d]
      BY <1>0, <1>1, <3>1 DEF ServerOk, Stamped
    <3>3. \A v \in committed' : v.stamp # w.stamp
      BY <1>0, <1>1, <3>1 DEF ServerOk, Stamped
    <3>4. ASSUME NEW e \in Conns \ {d}, NEW v \in open'[e] PROVE v.stamp # w.stamp
      <4>1. e # c /\ v \in open[e]
        BY <1>1, <3>4
      <4> QED BY <1>0, <3>1, <4>1 DEF ServerOk, Stamped
    <3> QED BY <3>2, <3>3, <3>4
  <2> QED BY <2>1, <2>2 DEF Stamped
<1>3. OneToucher'
  BY <1>0, <1>1 DEF ServerOk, OneToucher
<1>4. SnapshotIsTrue'
  <2> SUFFICES ASSUME NEW k \in Keys \ excused, NEW d \in Conns, snap'[d] # None, k \notin fresh'[d]
               PROVE  k \in snap'[d] <=> Inserts(committed', k) # {}
    BY <1>1 DEF SnapshotIsTrue
  <2>1. d # c /\ snap[d] # None /\ inTx[d]
    BY <1>0, <1>1 DEF TypeOK
  <2>2. k \notin fresh[d] /\ k \notin KeysOf(W)
    BY <1>1, <2>1
  <2>3. Inserts(W, k) = {}
    BY <2>2 DEF Inserts, KeysOf
  <2>4. Inserts(committed', k) = Inserts(committed, k)
    <3>1. committed' = committed \cup W
      BY <1>1
    <3> QED BY <2>3, <3>1, NoInserts
  <2> QED BY <1>0, <1>1, <2>1, <2>2, <2>4 DEF ServerOk, SnapshotIsTrue
<1>5. OneRow'
  <2> SUFFICES ASSUME NEW k \in Keys \ excused, NEW d \in Conns
               PROVE  \A v, w \in Rows(d, k)' : v = w
    BY <1>1 DEF OneRow
  <2>1. \A v, w \in Rows(d, k) : v = w
    BY <1>0 DEF ServerOk, OneRow
  <2>2. \A v, w \in Rows(c, k) : v = w
    BY <1>0 DEF ServerOk, OneRow
  <2>3. Rows(c, k)' \subseteq Rows(c, k)
    BY <1>1 DEF Rows, Inserts
  <2>4. CASE d = c
    BY <2>2, <2>3, <2>4
  <2>5. CASE d # c /\ Inserts(W, k) = {}
    <3>1. open'[d] = open[d] /\ Inserts(committed', k) = Inserts(committed, k)
      <4>1. committed' = committed \cup W /\ open'[d] = open[d]
        BY <1>1, <2>5
      <4> QED BY <2>5, <4>1, NoInserts
    <3>2. Rows(d, k) = Inserts(committed, k) \cup Inserts(open[d], k)
      BY InsertsOfTwo DEF Rows
    <3>3. Rows(d, k)' = Inserts(committed', k) \cup Inserts(open'[d], k)
      BY InsertsOfTwo DEF Rows
    <3> QED BY <2>1, <3>1, <3>2, <3>3
  <2>6. CASE d # c /\ Inserts(W, k) # {}
    <3>1. PICK w \in W : w.key = k
      BY <2>6 DEF Inserts
    <3>2. k \in touched[c]
      BY <1>0, <1>1, <3>1 DEF ServerOk, Stamped
    <3>3. k \notin touched[d]
      BY <1>0, <2>6, <3>2 DEF ServerOk, OneToucher
    <3>4. Inserts(open[d], k) = {}
      BY <1>0, <3>3 DEF ServerOk, Stamped, Inserts
    <3>5. Rows(d, k)' = Inserts(committed', k)
      <4>1. Inserts(open'[d], k) = {}
        BY <1>1, <2>6, <3>4
      <4> QED BY <4>1, NoInserts DEF Rows
    <3>6. Inserts(committed', k) \subseteq Rows(c, k)
      BY <1>1 DEF Rows, Inserts
    <3> QED BY <2>2, <3>5, <3>6
  <2> QED BY <2>4, <2>5, <2>6
<1> QED BY <1>2, <1>3, <1>4, <1>5 DEF ServerOk

\* The keys that c publishes are its own, or they are excused.
LEMMA EndOthers ==
  ASSUME IInv, NEW c \in Conns, NEW W, W = open[c] \/ W = {}, End(c, W),
         NEW d \in Conns \ {c}
  PROVE  /\ inTx'[d] = inTx[d] /\ open'[d] = open[d] /\ leaked'[d] = leaked[d]
         /\ touched'[d] = touched[d]
         /\ committed \subseteq committed' /\ excused \subseteq excused'
         /\ \A k \in Keys \ excused' :
              k \in touched[d] => Inserts(committed', k) = Inserts(committed, k)
PROOF
<1>0. TypeOK /\ ServerOk
  BY DEF IInv
<1>1. /\ inTx'[d] = inTx[d] /\ open'[d] = open[d] /\ leaked'[d] = leaked[d]
      /\ touched'[d] = touched[d] /\ committed' = committed \cup W /\ excused' = excused
      /\ W \subseteq open[c]
  BY <1>0 DEF End, TypeOK
<1>2. ASSUME NEW k \in Keys \ excused', k \in touched[d]
      PROVE  Inserts(committed', k) = Inserts(committed, k)
  <2>1. k \notin touched[c]
    BY <1>0, <1>1, <1>2 DEF ServerOk, OneToucher
  <2>2. Inserts(W, k) = {}
    BY <1>0, <1>1, <2>1 DEF ServerOk, Stamped, Inserts
  <2>3. committed' = committed \cup W
    BY <1>1
  <2> QED BY <2>2, <2>3, NoInserts
<1> QED BY <1>1, <1>2
\* What is open is not committed.
LEMMA OpenIsApart ==
  ASSUME ServerOk, NEW c \in Conns
  PROVE  Stamps(open[c]) \cap Stamps(committed) = {}
  BY DEF ServerOk, Stamped, Stamps

-----------------------------------------------------------------------------
(* A call ends.                                                              *)

\* The call under way, if it is the outermost, has no cause to be torn: it is not.
LEMMA PopKeeps ==
  ASSUME IInv, TypeOK', NEW c \in Conns, Busy(c), NEW well \in BOOLEAN,
         NEW why \in SUBSET Causes, causes[c] \subseteq why, Pop(c, well, why),
         Len(stack[c]) > 1 /\ why = {} => inTx'[c] = inTx[c] /\ open'[c] = open[c],
         Len(stack[c]) = 1 /\ inTx'[c] => leaked'[c],
         Len(stack[c]) = 1 /\ why = {} =>
           IF well THEN mine[c] \subseteq Stamps(committed')
           ELSE mine[c] \cap Stamps(committed' \cup open'[c]) = {}
  PROVE  ConnOk(c)'
PROOF
<1>0. TypeOK /\ ConnOk(c) /\ stack[c] \in Seq(Frame) /\ stack[c] # <<>>
  BY DEF IInv, TypeOK, Busy
<1>1. /\ stack'[c] = Tail(stack[c]) /\ Len(stack'[c]) = Len(stack[c]) - 1
      /\ Len(stack[c]) \in Nat \ {0} /\ (stack'[c] = <<>> <=> Len(stack[c]) = 1)
      /\ \A i \in 1..(Len(stack[c]) - 1) : stack'[c][i] = stack[c][i + 1]
  <2>1. stack'[c] = Tail(stack[c])
    BY <1>0 DEF Pop, TypeOK
  <2> QED BY <1>0, <2>1, PopFacts
<1>2. CASE Len(stack[c]) > 1
  <2>1. causes'[c] = why /\ mine'[c] = mine[c] /\ torn'[c] = torn[c]
    BY <1>0, <1>2 DEF Pop, TypeOK
  <2>2. Busy(c)' /\ Len(stack'[c]) \in Nat \ {0}
    <3>1. Len(stack'[c]) \in Nat \ {0} /\ Len(stack[c]) # 1
      BY <1>1, <1>2
    <3> QED BY <1>1, <3>1 DEF Busy
  <2>3. \A i \in 1..Len(stack'[c]) : stack'[c][i].call = "transaction" /\ stack'[c][i].todo = <<>>
    <3> SUFFICES ASSUME NEW i \in 1..Len(stack'[c])
                 PROVE  stack'[c][i].call = "transaction" /\ stack'[c][i].todo = <<>>
      OBVIOUS
    <3>1. i + 1 \in 2..Len(stack[c]) /\ stack'[c][i] = stack[c][i + 1]
      BY <1>1, <1>2
    <3> QED BY <1>0, <3>1 DEF ConnOk, Frames
  <2>4. Top(c)'.call = "transaction" /\ Top(c)'.todo = <<>> /\ Owns(Top(c)'.call)
    BY <2>2, <2>3 DEF Top, Owns
  <2>5. Frames(c)'
    <3>1. FrameOk(Top(c))'
      BY <2>4 DEF FrameOk
    <3>2. \A i \in 2..Len(stack'[c]) : i \in 1..Len(stack'[c])
      BY <2>2
    <3> QED BY <2>3, <2>4, <3>1, <3>2 DEF Frames
  <2>6. LookedUp(c)' /\ Idle(c)' /\ torn'[c] # {}
    BY <1>0, <2>1, <2>2, <2>4 DEF LookedUp, Idle, ConnOk
  <2>7. Closed(c)'
    BY <2>2, <2>4 DEF Closed
  <2>8. Whole(c)'
    <3> SUFFICES ASSUME why = {} PROVE Whole(c)'
      BY <2>1 DEF Whole
    <3>1. causes[c] = {}
      OBVIOUS
    <3>2. Len(stack[c]) = 2 /\ inTx[c] /\ mine[c] = Stamps(open[c])
      BY <1>0, <1>2, <3>1 DEF ConnOk, Whole
    <3>3. inTx'[c] /\ mine'[c] = Stamps(open'[c])
      BY <1>2, <2>1, <3>2
    <3>4. Len(stack'[c]) = 1
      BY <1>1, <3>2
    <3> QED BY <2>4, <3>3, <3>4 DEF Whole
  <2> QED BY <2>5, <2>6, <2>7, <2>8 DEF ConnOk
<1>3. CASE Len(stack[c]) = 1
  <2>1. ~Busy(c)' /\ stack'[c] = <<>>
    BY <1>1, <1>3 DEF Busy
  <2>2. /\ mine'[c] = {} /\ causes'[c] = {} /\ (torn'[c] = None \/ torn'[c] = why)
        /\ torn'[c] = why /\ why = {} => torn'[c] = None
    <3> DEFINE whole == IF well THEN mine[c] \subseteq Stamps(committed')
                        ELSE mine[c] \cap Stamps(committed' \cup open'[c]) = {}
    <3>1. torn' = [torn EXCEPT ![c] = IF whole THEN None ELSE why]
          /\ mine' = [mine EXCEPT ![c] = {}] /\ causes' = [causes EXCEPT ![c] = {}]
      <4>1. ~(Len(stack[c]) > 1)
        BY <1>3
      <4>2. Judge(c, whole, why)
        BY <4>1 DEF Pop
      <4> QED BY <4>2 DEF Judge
    <3>2. why = {} => whole
      BY <1>3
    <3> HIDE DEF whole
    <3>3. torn'[c] = IF whole THEN None ELSE why
      BY <1>0, <3>1 DEF TypeOK
    <3> QED BY <1>0, <3>1, <3>2, <3>3 DEF TypeOK
  <2>3. Frames(c)'
    <3>1. 2..Len(stack'[c]) = {}
      BY <1>1, <1>3
    <3> QED BY <2>1, <3>1 DEF Frames
  <2>4. Closed(c)'
    BY <1>3 DEF Closed
  <2> QED BY <2>1, <2>2, <2>3, <2>4, Bounds DEF ConnOk, LookedUp, Whole, Idle
<1> QED BY <1>1, <1>2, <1>3
LEMMA PopOthers ==
  ASSUME TypeOK, NEW c \in Conns, NEW d \in Conns \ {c}, NEW well \in BOOLEAN,
         NEW why \in SUBSET Causes, Pop(c, well, why)
  PROVE  stack'[d] = stack[d] /\ mine'[d] = mine[d] /\ causes'[d] = causes[d] /\ torn'[d] = torn[d]
PROOF
<1>1. stack'[d] = stack[d]
  BY DEF Pop, TypeOK
<1>2. CASE Len(stack[c]) > 1
  BY <1>1, <1>2 DEF Pop, TypeOK
<1>3. CASE ~(Len(stack[c]) > 1)
  BY <1>1, <1>3 DEF Pop, Judge, TypeOK
<1> QED BY <1>2, <1>3

\* A step that leaves the server as it was.
LEMMA OthersIdle ==
  ASSUME IInv, TypeOK', NEW c \in Conns, UNCHANGED server,
         NEW d \in Conns \ {c}, stack'[d] = stack[d], thrown'[d] = thrown[d],
         mine'[d] = mine[d], causes'[d] = causes[d], torn'[d] = torn[d]
  PROVE  ConnOk(d)'
PROOF
<1>1. /\ committed' = committed /\ open' = open /\ inTx' = inTx /\ touched' = touched
      /\ excused' = excused /\ leaked' = leaked
  BY DEF server
<1> QED BY <1>1, OthersKeep

\* A commit or a rollback, or nothing when no transaction is open.
LEMMA EndingKeeps ==
  ASSUME IInv, TypeOK', NEW c \in Conns, Commit(c) \/ Rollback(c), stamp' = stamp,
         \A d \in Conns \ {c} : /\ stack'[d] = stack[d] /\ thrown'[d] = thrown[d]
                                /\ mine'[d] = mine[d] /\ causes'[d] = causes[d]
                                /\ torn'[d] = torn[d]
  PROVE  ServerOk' /\ (\A d \in Conns \ {c} : ConnOk(d)') /\ ~inTx'[c] /\ open'[c] = {}
PROOF
<1>0. TypeOK /\ ServerOk
  BY DEF IInv
<1>1. CASE ~inTx[c]
  <2>1. UNCHANGED server
    BY <1>1 DEF Commit, Rollback
  <2>2. ServerOk' /\ \A d \in Conns \ {c} : ConnOk(d)'
    BY <1>0, <2>1, ServerStays, OthersIdle
  <2>3. inTx' = inTx /\ open' = open
    BY <2>1 DEF server
  <2> QED BY <1>0, <1>1, <2>2, <2>3 DEF TypeOK
<1>2. CASE inTx[c]
  <2>1. PICK W : (W = open[c] \/ W = {}) /\ End(c, W)
    BY <1>2 DEF Commit, Rollback
  <2>2. ServerOk'
    BY <2>1, EndServer
  <2>3. ASSUME NEW d \in Conns \ {c} PROVE ConnOk(d)'
    <3>1. /\ inTx'[d] = inTx[d] /\ open'[d] = open[d] /\ leaked'[d] = leaked[d]
          /\ touched'[d] = touched[d]
          /\ committed \subseteq committed' /\ excused \subseteq excused'
          /\ \A k \in Keys \ excused' :
               k \in touched[d] => Inserts(committed', k) = Inserts(committed, k)
      BY <2>1, EndOthers
    <3> QED BY <3>1, OthersKeep
  <2>4. ~inTx'[c] /\ open'[c] = {}
    BY <1>0, <2>1 DEF End, TypeOK
  <2> QED BY <2>2, <2>3, <2>4
<1> QED BY <1>1, <1>2

LEMMA SplitConns ==
  ASSUME NEW c \in Conns, \A d \in Conns \ {c} : ConnOk(d)', ConnOk(c)'
  PROVE  \A d \in Conns : ConnOk(d)'
  OBVIOUS

LEMMA ReturnKeeps ==
  ASSUME IInv, TypeOK', NEW c \in Conns, Return(c)
  PROVE  ServerOk' /\ \A d \in Conns : ConnOk(d)'
PROOF
<1>0. TypeOK /\ ServerOk /\ ConnOk(c)
  BY DEF IInv
<1>1. Busy(c) /\ thrown[c] = None /\ thrown' = thrown /\ Pop(c, TRUE, causes[c]) /\ stamp' = stamp
  BY DEF Return, Pop
<1>2. causes[c] \in SUBSET Causes
  BY <1>0 DEF TypeOK
<1>3. \A d \in Conns \ {c} : /\ stack'[d] = stack[d] /\ thrown'[d] = thrown[d]
                             /\ mine'[d] = mine[d] /\ causes'[d] = causes[d] /\ torn'[d] = torn[d]
  BY <1>0, <1>1, <1>2, PopOthers
<1>4. CASE Owns(Top(c).call)
  <2>1. Commit(c)
    BY <1>4 DEF Return
  <2>2. ServerOk' /\ (\A d \in Conns \ {c} : ConnOk(d)') /\ ~inTx'[c]
    BY <1>1, <1>3, <2>1, EndingKeeps
  <2>3. ~(Len(stack[c]) > 1 /\ causes[c] = {})
    BY <1>0, <1>1, <1>4 DEF ConnOk, Whole
  <2>4. ASSUME Len(stack[c]) = 1, causes[c] = {} PROVE mine[c] \subseteq Stamps(committed')
    <3>1. inTx[c] /\ mine[c] = Stamps(open[c])
      BY <1>0, <1>1, <1>4, <2>4 DEF ConnOk, Whole
    <3>2. committed' = committed \cup open[c]
      BY <2>1, <3>1 DEF Commit, End
    <3> QED BY <3>1, <3>2 DEF Stamps
  <2>5. ConnOk(c)'
    BY <1>1, <1>2, <2>2, <2>3, <2>4, PopKeeps
  <2> QED BY <2>2, <2>5
<1>5. CASE ~Owns(Top(c).call)
  <2>1. UNCHANGED server
    BY <1>5 DEF Return
  <2>2. ServerOk' /\ \A d \in Conns \ {c} : ConnOk(d)'
    BY <1>0, <1>1, <1>3, <2>1, ServerStays, OthersIdle
  <2>3. inTx' = inTx /\ open' = open /\ committed' = committed /\ leaked' = leaked
    BY <2>1 DEF server
  <2>4. Len(stack[c]) = 1 /\ inTx[c] => leaked[c]
    BY <1>0, <1>5 DEF ConnOk, Closed
  <2>5. ASSUME Len(stack[c]) = 1, causes[c] = {} PROVE mine[c] \subseteq Stamps(committed')
    BY <1>0, <1>1, <1>5, <2>3, <2>5 DEF ConnOk, Whole
  <2>6. ConnOk(c)'
    BY <1>1, <1>2, <2>3, <2>4, <2>5, PopKeeps
  <2> QED BY <2>2, <2>6
<1> QED BY <1>4, <1>5

\* transaction() and the batches throw again, insertOrUpdate() and upsert() do not: both roll back.
LEMMA UndoneKeeps ==
  ASSUME IInv, TypeOK', NEW c \in Conns, Rethrow(c) \/ Swallow(c)
  PROVE  ServerOk' /\ \A d \in Conns : ConnOk(d)'
PROOF
<1>0. TypeOK /\ ServerOk /\ ConnOk(c)
  BY DEF IInv
<1>1. Busy(c) /\ Rollback(c) /\ Pop(c, FALSE, causes[c]) /\ Owns(Top(c).call) /\ stamp' = stamp
  BY DEF Rethrow, Swallow, Pop, Owns
<1>2. causes[c] \in SUBSET Causes
  BY <1>0 DEF TypeOK
<1>3. \A d \in Conns \ {c} : thrown'[d] = thrown[d]
  BY <1>0 DEF Rethrow, Swallow, Pass, Throw, TypeOK
<1>4. \A d \in Conns \ {c} : /\ stack'[d] = stack[d] /\ thrown'[d] = thrown[d]
                             /\ mine'[d] = mine[d] /\ causes'[d] = causes[d] /\ torn'[d] = torn[d]
  BY <1>0, <1>1, <1>2, <1>3, PopOthers
<1>5. ServerOk' /\ (\A d \in Conns \ {c} : ConnOk(d)') /\ ~inTx'[c] /\ open'[c] = {}
  BY <1>1, <1>4, EndingKeeps
<1>6. ~(Len(stack[c]) > 1 /\ causes[c] = {})
  BY <1>0, <1>1 DEF ConnOk, Whole
<1>7. ASSUME Len(stack[c]) = 1, causes[c] = {}
      PROVE  mine[c] \cap Stamps(committed' \cup open'[c]) = {}
  <2>1. inTx[c] /\ mine[c] = Stamps(open[c])
    BY <1>0, <1>1, <1>7 DEF ConnOk, Whole
  <2>2. committed' \cup open'[c] = committed
    BY <1>1, <1>5, <2>1 DEF Rollback, End
  <2> QED BY <1>0, <2>1, <2>2, OpenIsApart
<1>8. ConnOk(c)'
  BY <1>1, <1>2, <1>5, <1>6, <1>7, PopKeeps
<1> QED BY <1>5, <1>8

LEMMA PassOnKeeps ==
  ASSUME IInv, TypeOK', NEW c \in Conns, PassOn(c)
  PROVE  ServerOk' /\ \A d \in Conns : ConnOk(d)'
PROOF
<1>0. TypeOK /\ ServerOk /\ ConnOk(c)
  BY DEF IInv
<1>1. /\ Busy(c) /\ thrown[c] # None /\ UNCHANGED server /\ Pop(c, FALSE, causes[c])
      /\ ~Owns(Top(c).call) /\ stamp' = stamp
  BY DEF PassOn, Pop
<1>2. causes[c] \in SUBSET Causes
  BY <1>0 DEF TypeOK
<1>3. \A d \in Conns \ {c} : thrown'[d] = thrown[d]
  BY <1>0 DEF PassOn, Pass, TypeOK
<1>4. ServerOk' /\ \A d \in Conns \ {c} : ConnOk(d)'
  BY <1>0, <1>1, <1>2, <1>3, PopOthers, ServerStays, OthersIdle
<1>5. inTx' = inTx /\ open' = open /\ committed' = committed /\ leaked' = leaked
  BY <1>1 DEF server
<1>6. Len(stack[c]) = 1 /\ inTx[c] => leaked[c]
  BY <1>0, <1>1 DEF ConnOk, Closed
<1>7. ASSUME Len(stack[c]) = 1, causes[c] = {} PROVE mine[c] = {}
  <2>1. Top(c).todo # <<>>
    BY <1>0, <1>1 DEF ConnOk, Frames
  <2> QED BY <1>0, <1>1, <1>7, <2>1 DEF ConnOk, Whole
<1>8. ConnOk(c)'
  BY <1>1, <1>2, <1>5, <1>6, <1>7, PopKeeps
<1> QED BY <1>4, <1>8

\* An Error leaves the transaction open.
LEMMA EscapeKeeps ==
  ASSUME IInv, TypeOK', NEW c \in Conns, Escape(c)
  PROVE  ServerOk' /\ \A d \in Conns : ConnOk(d)'
PROOF
<1>0. TypeOK /\ ServerOk /\ ConnOk(c)
  BY DEF IInv
<1> DEFINE why == causes[c] \cup {"error"}
<1>1. /\ Busy(c) /\ Pop(c, FALSE, why) /\ stamp' = stamp
      /\ committed' = committed /\ open' = open /\ inTx' = inTx /\ snap' = snap
      /\ touched' = touched /\ fresh' = fresh /\ excused' = excused
  BY DEF Escape, Pop
<1>2. why \in SUBSET Causes /\ causes[c] \subseteq why /\ why # {}
  BY <1>0 DEF TypeOK, Causes
<1> HIDE DEF why
<1>3. \A d \in Conns \ {c} : thrown'[d] = thrown[d] /\ leaked'[d] = leaked[d]
  BY <1>0 DEF Escape, Pass, TypeOK
<1>4. leaked'[c] = inTx[c]
  BY <1>0 DEF Escape, TypeOK
<1>5. ServerOk'
  <2>1. Stamped' /\ OneToucher'
    BY <1>0, <1>1 DEF ServerOk, Stamped, OneToucher
  <2>2. SnapshotIsTrue' /\ OneRow'
    BY <1>0, <1>1 DEF ServerOk, SnapshotIsTrue, OneRow, Rows
  <2> QED BY <2>1, <2>2 DEF ServerOk
<1>6. \A d \in Conns \ {c} : /\ stack'[d] = stack[d] /\ mine'[d] = mine[d]
                             /\ causes'[d] = causes[d] /\ torn'[d] = torn[d]
  BY <1>0, <1>1, <1>2, PopOthers
<1>7. \A d \in Conns \ {c} : ConnOk(d)'
  BY <1>1, <1>3, <1>6, OthersKeep
<1>8. ConnOk(c)'
  BY <1>1, <1>2, <1>4, PopKeeps
<1> QED BY <1>5, <1>7, <1>8
LEMMA DieKeeps ==
  ASSUME IInv, TypeOK', NEW c \in Conns, Die(c)
  PROVE  ServerOk' /\ \A d \in Conns : ConnOk(d)'
PROOF
<1>0. TypeOK /\ ServerOk /\ ConnOk(c)
  BY DEF IInv
<1>1. /\ End(c, {}) /\ stack' = [stack EXCEPT ![c] = <<>>] /\ Throw(c, None) /\ stamp' = stamp
      /\ Judge(c, mine[c] \cap Stamps(committed) \in {{}, mine[c]}, causes[c])
  BY DEF Die
<1>2. ServerOk'
  BY <1>1, EndServer
<1>3. ASSUME NEW d \in Conns \ {c} PROVE ConnOk(d)'
  <2>1. /\ inTx'[d] = inTx[d] /\ open'[d] = open[d] /\ leaked'[d] = leaked[d]
        /\ touched'[d] = touched[d]
        /\ committed \subseteq committed' /\ excused \subseteq excused'
        /\ \A k \in Keys \ excused' :
             k \in touched[d] => Inserts(committed', k) = Inserts(committed, k)
    BY <1>1, EndOthers
  <2>2. /\ stack'[d] = stack[d] /\ thrown'[d] = thrown[d] /\ mine'[d] = mine[d]
        /\ causes'[d] = causes[d] /\ torn'[d] = torn[d]
    BY <1>0, <1>1 DEF Throw, Judge, TypeOK
  <2> QED BY <2>1, <2>2, OthersKeep
<1>4. stack'[c] = <<>> /\ ~inTx'[c] /\ mine'[c] = {} /\ causes'[c] = {}
  BY <1>0, <1>1 DEF End, Judge, TypeOK
<1>5. causes[c] = {} => mine[c] \cap Stamps(committed) \in {{}, mine[c]}
  <2> SUFFICES ASSUME causes[c] = {} PROVE mine[c] \cap Stamps(committed) \in {{}, mine[c]}
    OBVIOUS
  <2>1. CASE ~Busy(c)
    BY <1>0, <2>1 DEF ConnOk, Idle
  <2>2. CASE Busy(c) /\ mine[c] \subseteq Stamps(committed)
    BY <2>2
  <2>3. CASE Busy(c) /\ mine[c] = Stamps(open[c])
    BY <1>0, <2>3, OpenIsApart
  <2> QED BY <1>0, <2>1, <2>2, <2>3 DEF ConnOk, Whole
<1>6. torn'[c] # {}
  <2> DEFINE whole == mine[c] \cap Stamps(committed) \in {{}, mine[c]}
  <2>1. torn' = [torn EXCEPT ![c] = IF whole THEN None ELSE causes[c]]
    BY <1>1 DEF Judge
  <2>2. causes[c] = {} => whole
    BY <1>5
  <2> HIDE DEF whole
  <2>3. torn'[c] = IF whole THEN None ELSE causes[c]
    BY <1>0, <2>1 DEF TypeOK
  <2> QED BY <2>2, <2>3, Bounds
<1>7. ~Busy(c)' /\ 2..Len(stack'[c]) = {}
  <2>1. Len(stack'[c]) = 0
    BY <1>4, EmptySeq
  <2> QED BY <1>4, <2>1 DEF Busy
<1>8. ConnOk(c)'
  BY <1>4, <1>6, <1>7 DEF ConnOk, Frames, LookedUp, Closed, Whole, Idle
<1> QED BY <1>2, <1>3, <1>8

\* Only what c has thrown changes: no call of it looks a row up while it throws.
LEMMA ThrownOnly ==
  ASSUME IInv, TypeOK', NEW c \in Conns, Busy(c),
         UNCHANGED <<server, stack, mine, causes, torn, stamp>>,
         NEW x, thrown' = [thrown EXCEPT ![c] = x],
         \/ x # None /\ Running(c)
         \/ Top(c).call = "transaction"
  PROVE  ServerOk' /\ \A d \in Conns : ConnOk(d)'
PROOF
<1>0. TypeOK /\ ServerOk /\ ConnOk(c)
  BY DEF IInv
<1>1. ServerOk'
  BY <1>0, ServerStays
<1>2. \A d \in Conns \ {c} : thrown'[d] = thrown[d]
  BY <1>0 DEF TypeOK
<1>3. \A d \in Conns \ {c} : ConnOk(d)'
  BY <1>2, OthersIdle
<1>4. /\ thrown'[c] = x /\ stack' = stack /\ mine' = mine /\ causes' = causes /\ torn' = torn
      /\ committed' = committed /\ open' = open /\ inTx' = inTx /\ excused' = excused
      /\ leaked' = leaked
  BY <1>0 DEF TypeOK, server
<1>5. Frames(c)'
  <2>1. FrameOk(Top(c)) => FrameOk(Top(c))'
    BY <1>4 DEF FrameOk, Top
  <2>2. FrameOk(Top(c))
    BY <1>0 DEF ConnOk, Frames
  <2>3. Top(c).call = "transaction" => Owns(Top(c).call)
    BY DEF Owns
  <2>4. Running(c) => Top(c).todo # <<>>
    BY DEF Running
  <2> QED BY <1>0, <1>4, <2>1, <2>2, <2>3, <2>4 DEF ConnOk, Frames, Top, Busy
<1>6. LookedUp(c)'
  BY <1>4 DEF LookedUp, Top
<1>7. Closed(c)' /\ Whole(c)' /\ Idle(c)' /\ torn'[c] # {}
  BY <1>0, <1>4 DEF ConnOk, Closed, Whole, Idle, Busy, Top
<1>8. ConnOk(c)'
  BY <1>5, <1>6, <1>7 DEF ConnOk
<1> QED BY <1>1, <1>3, <1>8

LEMMA EndStepKeeps ==
  ASSUME IInv, TypeOK', NEW c \in Conns, EndStep(c)
  PROVE  ServerOk' /\ \A d \in Conns : ConnOk(d)'
PROOF
<1>1. CASE CallbackCatches(c)
  <2>1. /\ Busy(c) /\ Top(c).call = "transaction" /\ thrown' = [thrown EXCEPT ![c] = None]
        /\ UNCHANGED <<server, stack, mine, causes, torn, stamp>>
    BY <1>1 DEF CallbackCatches, Throw, unit
  <2> QED BY <2>1, ThrownOnly
<1>2. ASSUME NEW x \in Throwables, CallbackThrows(c, x)
      PROVE  ServerOk' /\ \A d \in Conns : ConnOk(d)'
  <2>1. /\ Busy(c) /\ Top(c).call = "transaction" /\ thrown' = [thrown EXCEPT ![c] = x]
        /\ UNCHANGED <<server, stack, mine, causes, torn, stamp>>
    BY <1>2 DEF CallbackThrows, Throw, unit
  <2> QED BY <2>1, ThrownOnly
<1> QED BY <1>1, <1>2, ReturnKeeps, UndoneKeeps, PassOnKeeps, EscapeKeeps, DieKeeps DEF EndStep

-----------------------------------------------------------------------------
(* Statements.                                                               *)

LEMMA ThrowingKeeps ==
  ASSUME IInv, TypeOK', NEW c \in Conns, Refuse(c) \/ Fail(c)
  PROVE  ServerOk' /\ \A d \in Conns : ConnOk(d)'
PROOF
<1>1. /\ Running(c) /\ thrown' = [thrown EXCEPT ![c] = "exception"]
      /\ UNCHANGED <<server, stack, mine, causes, torn, stamp>>
  BY DEF Refuse, Fail, Throw, unit
<1>2. Busy(c)
  BY <1>1 DEF Running
<1> QED BY <1>1, <1>2, ThrownOnly, Bounds

LEMMA DeadlockKeeps ==
  ASSUME IInv, TypeOK', NEW c \in Conns, Deadlock(c)
  PROVE  ServerOk' /\ \A d \in Conns : ConnOk(d)'
PROOF
<1>0. TypeOK /\ ServerOk /\ ConnOk(c)
  BY DEF IInv
<1>1. /\ Running(c) /\ End(c, {}) /\ stack' = stack /\ mine' = mine /\ torn' = torn /\ stamp' = stamp
      /\ causes' = [causes EXCEPT ![c] = @ \cup {"aborted"}]
      /\ thrown' = [thrown EXCEPT ![c] = "exception"]
  BY DEF Deadlock, Throw
<1>2. ServerOk'
  BY <1>1, EndServer
<1>3. ASSUME NEW d \in Conns \ {c} PROVE ConnOk(d)'
  <2>1. /\ inTx'[d] = inTx[d] /\ open'[d] = open[d] /\ leaked'[d] = leaked[d]
        /\ touched'[d] = touched[d]
        /\ committed \subseteq committed' /\ excused \subseteq excused'
        /\ \A k \in Keys \ excused' :
             k \in touched[d] => Inserts(committed', k) = Inserts(committed, k)
    BY <1>1, EndOthers
  <2>2. /\ stack'[d] = stack[d] /\ thrown'[d] = thrown[d] /\ mine'[d] = mine[d]
        /\ causes'[d] = causes[d] /\ torn'[d] = torn[d]
    BY <1>0, <1>1 DEF TypeOK
  <2> QED BY <2>1, <2>2, OthersKeep
<1>4. /\ ~inTx'[c] /\ "aborted" \in causes'[c] /\ thrown'[c] # None /\ excused' = excused
      /\ Busy(c) /\ Top(c).todo # <<>>
  BY <1>0, <1>1, Bounds DEF End, Running, TypeOK
<1>5. Frames(c)'
  <2>1. FrameOk(Top(c)) => FrameOk(Top(c))'
    BY <1>1, <1>4 DEF FrameOk, Top
  <2> QED BY <1>0, <1>1, <1>4, <2>1 DEF ConnOk, Frames, Top, Busy
<1>6. ConnOk(c)'
  BY <1>0, <1>1, <1>4, <1>5 DEF ConnOk, LookedUp, Closed, Whole, Idle, Busy
<1> QED BY <1>2, <1>3, <1>6
\* The call under way goes on to its next statement.
LEMMA AdvanceKeeps ==
  ASSUME TypeOK, NEW c \in Conns, ConnOk(c), Running(c), Advance(c), thrown'[c] = thrown[c],
         excused \subseteq excused'
  PROVE  /\ Frames(c)' /\ LookedUp(c)' /\ Busy(c)' /\ Busy(c)
         /\ Len(stack'[c]) = Len(stack[c]) /\ Top(c)'.call = Top(c).call
         /\ Top(c).call \in {"insert", "update"} => Top(c)'.todo = <<>>
         /\ \A d \in Conns \ {c} : stack'[d] = stack[d]
PROOF
<1>0. /\ Busy(c) /\ stack[c] \in Seq(Frame) /\ stack[c] # <<>> /\ stack[c][1].todo # <<>>
      /\ thrown[c] = None /\ Top(c) = stack[c][1] /\ Top(c).todo \in Seq(Statement) /\ Frames(c)
  BY TopFacts DEF TypeOK, Running, Busy, Top, ConnOk
<1>1. stack'[c] = [stack[c] EXCEPT ![1].todo = Tail(@)] /\ \A d \in Conns \ {c} : stack'[d] = stack[d]
  BY DEF Advance, TypeOK
<1>2. /\ Len(stack'[c]) = Len(stack[c]) /\ stack'[c] # <<>>
      /\ stack'[c][1].call = stack[c][1].call /\ stack'[c][1].todo = Tail(stack[c][1].todo)
      /\ \A i \in 2..Len(stack[c]) : stack'[c][i] = stack[c][i]
  BY <1>0, <1>1, AdvanceFacts
<1> DEFINE s == Top(c).todo
           t == Top(c)'.todo
<1>3. /\ t = Tail(s) /\ s \in Seq(Statement) /\ s # <<>> /\ Top(c)'.call = Top(c).call
      /\ Busy(c)'
  BY <1>0, <1>2 DEF Top, Busy
<1>4. /\ Len(t) = Len(s) - 1 /\ Len(s) \in Nat \ {0}
      /\ \A j \in 1..(Len(s) - 1) : t[j] = s[j + 1]
      /\ t = <<>> <=> Len(s) = 1
  BY <1>3, PopFacts
<1>5. FrameOk(Top(c))
  BY <1>0 DEF Frames
<1>6. Top(c).call \in {"insert", "update", "insertOrUpdate"} => t = <<>> /\ Len(t) = 0
  BY <1>4, <1>5 DEF FrameOk
<1>7. FrameOk(Top(c))'
  <2>1. Top(c)'.call # "transaction"
    BY <1>3, <1>5 DEF FrameOk
  <2>2. Top(c)'.call \in {"insert", "update", "insertOrUpdate"} => Len(t) <= 1
    <3>1. Len(t) = 0 => Len(t) <= 1
      BY <1>4
    <3> QED BY <1>3, <1>6, <3>1, Zenon
  <2>3. Top(c)'.call = "insertOrUpdate" => \A j \in 1..Len(t) : t[j].op # "upsert"
    BY <1>3, <1>6
  <2>4. ASSUME Top(c)'.call # "insertOrUpdate", NEW j \in 1..Len(t), t[j].op # "update"
        PROVE  t[j].key \in excused'
    <3>1. j + 1 \in 1..Len(s) /\ t[j] = s[j + 1]
      BY <1>4
    <3> QED BY <1>3, <1>5, <2>4, <3>1 DEF FrameOk
  <2> QED BY <2>1, <2>2, <2>3, <2>4 DEF FrameOk
<1>8. Frames(c)'
  BY <1>0, <1>2, <1>7 DEF Frames
<1>9. LookedUp(c)'
  <2>1. Top(c)'.call = "insertOrUpdate" => 1..Len(t) = {}
    BY <1>3, <1>6
  <2> QED BY <2>1 DEF LookedUp
<1> QED BY <1>0, <1>1, <1>2, <1>3, <1>6, <1>8, <1>9

LEMMA NothingKeeps ==
  ASSUME IInv, TypeOK', NEW c \in Conns, ExecuteNothing(c)
  PROVE  ServerOk' /\ \A d \in Conns : ConnOk(d)'
PROOF
<1>0. TypeOK /\ ServerOk /\ ConnOk(c)
  BY DEF IInv
<1>1. /\ Running(c) /\ Advance(c) /\ UNCHANGED <<server, stamp>> /\ thrown' = thrown
      /\ mine' = mine /\ causes' = causes /\ torn' = torn
  BY DEF ExecuteNothing, unit
<1>2. /\ committed' = committed /\ open' = open /\ inTx' = inTx /\ excused' = excused
      /\ leaked' = leaked
  BY <1>1 DEF server
<1>3. /\ Frames(c)' /\ LookedUp(c)' /\ Busy(c)' /\ Busy(c)
      /\ Len(stack'[c]) = Len(stack[c]) /\ Top(c)'.call = Top(c).call
      /\ \A d \in Conns \ {c} : stack'[d] = stack[d]
  BY <1>0, <1>1, <1>2, AdvanceKeeps
<1>4. ServerOk' /\ \A d \in Conns \ {c} : ConnOk(d)'
  BY <1>0, <1>1, <1>3, ServerStays, OthersIdle
<1>5. Closed(c)'
  BY <1>0, <1>2, <1>3 DEF ConnOk, Closed
<1>6. Whole(c)'
  <2>1. Top(c).todo # <<>>
    BY <1>1 DEF Running
  <2> QED BY <1>0, <1>1, <1>2, <1>3, <2>1 DEF ConnOk, Whole
<1>7. Idle(c)' /\ torn'[c] # {}
  BY <1>0, <1>1, <1>3 DEF ConnOk, Idle
<1> QED BY <1>3, <1>4, <1>5, <1>6, <1>7 DEF ConnOk

\* A new row of a key that is not excused is the first.
LEMMA FirstRow ==
  ASSUME IInv, NEW c \in Conns, Running(c), Effect(c) = "insert", Current(c).key \notin excused
  PROVE  inTx[c] /\ Rows(c, Current(c).key) = {}
PROOF
<1>0. TypeOK /\ ConnOk(c) /\ Busy(c) /\ thrown[c] = None /\ Top(c).todo # <<>>
  BY DEF IInv, Running
<1>1. Top(c).todo \in Seq(Statement) /\ Current(c) \in Statement /\ Current(c).key \in Keys
  BY <1>0, TopFacts
<1>2. 1 \in 1..Len(Top(c).todo) /\ Current(c) = Top(c).todo[1]
  <2>1. Len(Top(c).todo) \in Nat \ {0}
    BY <1>0, <1>1, EmptySeq
  <2> QED BY <2>1 DEF Current
<1>3. Current(c).op # "update"
  BY DEF Effect
<1>4. FrameOk(Top(c))
  BY <1>0 DEF ConnOk, Frames
<1>5. Top(c).call = "insertOrUpdate"
  BY <1>2, <1>3, <1>4 DEF FrameOk
<1>6. Current(c).op # "upsert"
  BY <1>2, <1>4, <1>5 DEF FrameOk
<1>7. Current(c).op = "insert"
  BY <1>1, <1>3, <1>6 DEF Statement
<1> QED BY <1>0, <1>1, <1>2, <1>5, <1>7 DEF ConnOk, LookedUp
LEMMA ExecuteKeeps ==
  ASSUME IInv, TypeOK', NEW c \in Conns, Execute(c)
  PROVE  ServerOk' /\ \A d \in Conns : ConnOk(d)'
PROOF
<1>0. TypeOK /\ ServerOk /\ ConnOk(c) /\ stamp \in Nat
  BY DEF IInv, TypeOK
<1> DEFINE k0 == Current(c).key
           w == [op |-> Effect(c), key |-> k0, stamp |-> stamp + 1]
<1>1. /\ Running(c) /\ Advance(c) /\ stamp' = stamp + 1 /\ inTx' = inTx /\ snap' = snap
      /\ leaked' = leaked /\ thrown' = thrown /\ causes' = causes /\ torn' = torn
      /\ mine' = [mine EXCEPT ![c] = @ \cup {stamp + 1}] /\ stamp < MaxWrites
      /\ touched' = (IF inTx'[c] THEN [touched EXCEPT ![c] = @ \cup {k0}] ELSE touched)
      /\ excused' = excused \cup {k \in {k0} : k \in fresh[c] \/ \E d \in Conns \ {c} : k \in touched[d]}
  BY DEF Execute, Touch
<1>2. /\ inTx[c] => committed' = committed /\ fresh' = fresh /\ open' = [open EXCEPT ![c] = @ \cup {w}]
      /\ ~inTx[c] => committed' = committed \cup {w} /\ Published(c, {w}) /\ open' = open
  BY DEF Execute
<1>3. w.op = Effect(c) /\ w.key = k0 /\ w.stamp = stamp + 1
  OBVIOUS
<1>4. k0 \in Keys /\ w \in Write
  BY <1>0, <1>1, WriteFacts, TopFacts DEF Running
<1>5. excused \subseteq excused' /\ (\A d \in Conns \ {c} : k0 \in touched[d] => k0 \in excused')
  BY <1>1
<1>6. w.op = "insert" /\ k0 \notin excused => inTx[c] /\ Rows(c, k0) = {}
  BY <1>1, <1>3, FirstRow
<1> HIDE DEF w, k0
<1>7. /\ open'[c] = IF inTx[c] THEN open[c] \cup {w} ELSE open[c]
      /\ \A d \in Conns \ {c} : open'[d] = open[d] /\ touched'[d] = touched[d] /\ mine'[d] = mine[d]
      /\ mine'[c] = mine[c] \cup {stamp + 1}
      /\ touched'[c] = IF inTx[c] THEN touched[c] \cup {k0} ELSE touched[c]
      /\ committed' = IF inTx[c] THEN committed ELSE committed \cup {w}
  <2>1. CASE inTx[c]
    BY <1>0, <1>1, <1>2, <2>1 DEF TypeOK
  <2>2. CASE ~inTx[c]
    BY <1>0, <1>1, <1>2, <2>2 DEF TypeOK
  <2> QED BY <2>1, <2>2
<1>8. \A d \in Conns : /\ \A v \in open[d] : v \in Write /\ v.stamp \in Nat /\ v.stamp <= stamp
                       /\ \A v \in committed : v.stamp \in Nat /\ v.stamp <= stamp
  BY <1>0 DEF ServerOk, Stamped, TypeOK, Write
<1>9. Stamped'
  <2>1. ASSUME NEW v \in committed' PROVE v.stamp <= stamp'
    <3>1. v \in committed \/ v = w
      BY <1>7
    <3> QED BY <1>0, <1>1, <1>3, <1>8, <3>1
  <2>2. ASSUME NEW d \in Conns, NEW v \in open'[d]
        PROVE  v.stamp <= stamp' /\ v.key \in touched'[d]
    <3>1. CASE v \in open[d]
      <4>1. v.stamp <= stamp'
        BY <1>0, <1>1, <1>8, <3>1
      <4>2. v.key \in touched[d]
        BY <1>0, <3>1 DEF ServerOk, Stamped
      <4>3. touched[d] \subseteq touched'[d]
        BY <1>7
      <4> QED BY <4>1, <4>2, <4>3
    <3>2. CASE v \notin open[d]
      <4>1. d = c /\ inTx[c] /\ v = w
        BY <1>7, <2>2, <3>2
      <4> QED BY <1>0, <1>1, <1>3, <1>7, <4>1
    <3> QED BY <3>1, <3>2
  <2>3. ASSUME NEW d \in Conns, NEW v \in open'[d], NEW u \in committed'
        PROVE  u.stamp # v.stamp
    <3>1. CASE v \in open[d] /\ u \in committed
      BY <1>0, <3>1 DEF ServerOk, Stamped
    <3>2. CASE v \in open[d] /\ u = w
      BY <1>0, <1>3, <1>8, <3>2
    <3>3. CASE v = w /\ inTx[c]
      <4>1. u \in committed
        BY <1>7, <3>3
      <4> QED BY <1>0, <1>3, <1>8, <3>3, <4>1
    <3>4. v \in open[d] \/ (v = w /\ inTx[c])
      BY <1>7, <2>3
    <3>5. u \in committed \/ u = w
      BY <1>7, <2>3
    <3> QED BY <3>1, <3>2, <3>3, <3>4, <3>5
  <2>4. ASSUME NEW d \in Conns, NEW e \in Conns \ {d}, NEW v \in open'[d], NEW u \in open'[e]
        PROVE  u.stamp # v.stamp
    <3>1. CASE v \in open[d] /\ u \in open[e]
      BY <1>0, <3>1 DEF ServerOk, Stamped
    <3>2. CASE v \in open[d] /\ u = w
      BY <1>0, <1>3, <1>8, <3>2
    <3>3. CASE v = w /\ u \in open[e]
      BY <1>0, <1>3, <1>8, <3>3
    <3>4. v \in open[d] \/ (v = w /\ d = c)
      BY <1>7, <2>4
    <3>5. u \in open[e] \/ (u = w /\ e = c)
      BY <1>7, <2>4
    <3> QED BY <3>1, <3>2, <3>3, <3>4, <3>5
  <2> QED BY <2>1, <2>2, <2>3, <2>4 DEF Stamped
<1>10. OneToucher'
  <2> SUFFICES ASSUME NEW k \in Keys \ excused', NEW d \in Conns, NEW e \in Conns,
                      k \in touched'[d], k \in touched'[e]
               PROVE  d = e
    BY DEF OneToucher
  <2>1. CASE k \in touched[d] /\ k \in touched[e]
    BY <1>0, <1>5, <2>1 DEF ServerOk, OneToucher
  <2>2. CASE k = k0 /\ (d = c \/ e = c)
    <3>1. \A f \in Conns \ {c} : k \notin touched'[f]
      BY <1>5, <1>7, <2>2
    <3> QED BY <2>2, <3>1
  <2>3. \A f \in {d, e} : k \in touched[f] \/ (k = k0 /\ f = c)
    BY <1>7
  <2> QED BY <2>1, <2>2, <2>3
<1>11. SnapshotIsTrue'
  <2> SUFFICES ASSUME NEW k \in Keys \ excused', NEW d \in Conns, snap'[d] # None, k \notin fresh'[d]
               PROVE  k \in snap'[d] <=> Inserts(committed', k) # {}
    BY DEF SnapshotIsTrue
  <2>1. CASE inTx[c]
    BY <1>0, <1>1, <1>2, <1>5, <2>1 DEF ServerOk, SnapshotIsTrue
  <2>2. CASE ~inTx[c]
    <3>1. d # c /\ inTx[d] /\ snap[d] # None
      BY <1>0, <1>1, <2>2 DEF TypeOK
    <3>2. fresh'[d] = fresh[d] \cup KeysOf({w})
      BY <1>2, <2>2, <3>1 DEF Published
    <3>3. k \notin fresh[d] /\ k # k0
      BY <1>3, <3>2 DEF KeysOf
    <3>4. Inserts({w}, k) = {}
      BY <1>3, <3>3 DEF Inserts
    <3>5. committed' = committed \cup {w}
      BY <1>7, <2>2
    <3>6. Inserts(committed', k) = Inserts(committed, k)
      BY <3>4, <3>5, NoInserts
    <3> QED BY <1>0, <1>1, <1>5, <3>1, <3>3, <3>6 DEF ServerOk, SnapshotIsTrue
  <2> QED BY <2>1, <2>2
<1>12. OneRow'
  <2> SUFFICES ASSUME NEW k \in Keys \ excused', NEW d \in Conns
               PROVE  \A u, v \in Rows(d, k)' : u = v
    BY DEF OneRow
  <2>0. k \in Keys \ excused /\ \A u, v \in Rows(d, k) : u = v
    BY <1>0, <1>5 DEF ServerOk, OneRow
  <2>1. CASE w.op = "insert" /\ w.key = k
    <3>1. inTx[c] /\ Rows(c, k) = {}
      BY <1>3, <1>6, <2>0, <2>1
    <3>2. CASE d = c
      <4>1. Rows(c, k)' \subseteq Rows(c, k) \cup {w}
        BY <1>7, <3>1 DEF Rows, Inserts
      <4> QED BY <3>1, <3>2, <4>1
    <3>3. CASE d # c
      <4>1. committed' = committed /\ open'[d] = open[d]
        BY <1>7, <3>1, <3>3
      <4> QED BY <2>0, <4>1 DEF Rows
    <3> QED BY <3>2, <3>3
  <2>2. CASE ~(w.op = "insert" /\ w.key = k)
    <3>1. committed' \cup open'[d] \subseteq (committed \cup open[d]) \cup {w}
      BY <1>7
    <3>2. Rows(d, k)' \subseteq Rows(d, k)
      BY <2>2, <3>1 DEF Rows, Inserts
    <3> QED BY <2>0, <3>2
  <2> QED BY <2>1, <2>2
<1>13. /\ Frames(c)' /\ LookedUp(c)' /\ Busy(c)' /\ Busy(c)
       /\ Len(stack'[c]) = Len(stack[c]) /\ Top(c)'.call = Top(c).call
       /\ Top(c).call \in {"insert", "update"} => Top(c)'.todo = <<>>
       /\ \A d \in Conns \ {c} : stack'[d] = stack[d]
  BY <1>0, <1>1, <1>5, AdvanceKeeps
<1>14. ASSUME NEW d \in Conns \ {c} PROVE ConnOk(d)'
  <2>1. committed \subseteq committed' /\ open'[d] = open[d] /\ mine'[d] = mine[d]
        /\ touched'[d] = touched[d]
    BY <1>7
  <2>2. ASSUME NEW k \in Keys \ excused', k \in touched[d]
        PROVE  Inserts(committed', k) = Inserts(committed, k)
    <3>1. k # k0
      BY <1>5, <2>2
    <3>2. Inserts({w}, k) = {}
      BY <1>3, <3>1 DEF Inserts
    <3>3. CASE inTx[c]
      BY <1>7, <3>3
    <3>4. CASE ~inTx[c]
      <4>1. committed' = committed \cup {w}
        BY <1>7, <3>4
      <4> QED BY <3>2, <4>1, NoInserts
    <3> QED BY <3>3, <3>4
  <2> QED BY <1>1, <1>5, <1>13, <2>1, <2>2, OthersKeep
<1>15. Closed(c)'
  BY <1>0, <1>1, <1>13 DEF ConnOk, Closed
<1>16. Whole(c)'
  <2> SUFFICES ASSUME causes[c] = {} PROVE Whole(c)'
    BY <1>1 DEF Whole
  <2>1. Len(stack[c]) > 1 => Len(stack[c]) = 2 /\ ~Owns(Top(c).call)
    BY <1>0, <1>13 DEF ConnOk, Whole
  <2>2. CASE Len(stack[c]) = 1 /\ ~Owns(Top(c).call)
    <3>1. ~inTx[c] /\ mine[c] \subseteq Stamps(committed)
      BY <1>0, <1>13, <2>2 DEF ConnOk, Whole
    <3>2. mine'[c] \subseteq Stamps(committed')
      BY <1>3, <1>7, <3>1 DEF Stamps
    <3>3. Top(c).call \in {"insert", "update"}
      <4>1. Top(c).call \in AllCalls
        BY <1>0, <1>13, TopFacts
      <4> QED BY <2>2, <4>1 DEF AllCalls, Owns
    <3> QED BY <1>1, <1>13, <2>2, <3>1, <3>2, <3>3 DEF Whole
  <2>3. CASE ~(Len(stack[c]) = 1 /\ ~Owns(Top(c).call))
    <3>1. inTx[c] /\ mine[c] = Stamps(open[c])
      BY <1>0, <1>13, <2>3 DEF ConnOk, Whole
    <3>2. mine'[c] = Stamps(open'[c])
      BY <1>3, <1>7, <3>1 DEF Stamps
    <3> QED BY <1>1, <1>13, <2>1, <2>3, <3>1, <3>2 DEF Whole
  <2> QED BY <2>2, <2>3
<1>17. Idle(c)' /\ torn'[c] # {}
  BY <1>0, <1>1, <1>13 DEF ConnOk, Idle
<1>18. ConnOk(c)'
  BY <1>13, <1>15, <1>16, <1>17 DEF ConnOk
<1> QED BY <1>9, <1>10, <1>11, <1>12, <1>14, <1>18 DEF ServerOk
LEMMA StatementStepKeeps ==
  ASSUME IInv, TypeOK', NEW c \in Conns, StatementStep(c)
  PROVE  ServerOk' /\ \A d \in Conns : ConnOk(d)'
  BY ExecuteKeeps, NothingKeeps, ThrowingKeeps, DeadlockKeeps DEF StatementStep

-----------------------------------------------------------------------------
(* Calls begin.                                                              *)

LEMMA PushShape ==
  ASSUME TypeOK, NEW c \in Conns, NEW call \in AllCalls, NEW rest \in Seq(Statement),
         Push(c, call, rest)
  PROVE  /\ Len(stack'[c]) = Len(stack[c]) + 1 /\ Len(stack[c]) \in Nat
         /\ (stack[c] = <<>> <=> Len(stack[c]) = 0)
         /\ Busy(c)' /\ Top(c)' = [call |-> call, todo |-> rest]
         /\ \A i \in 2..(Len(stack[c]) + 1) : stack'[c][i] = stack[c][i - 1]
         /\ torn'[c] = None /\ thrown' = thrown /\ mine' = mine /\ stamp' = stamp
         /\ causes[c] \subseteq causes'[c]
         /\ Busy(c) /\ Owns(call) => causes'[c] # {}
         /\ leaked[c] => causes'[c] # {}
         /\ \A d \in Conns \ {c} : stack'[d] = stack[d] /\ torn'[d] = torn[d] /\ causes'[d] = causes[d]
PROOF
<1> DEFINE f == [call |-> call, todo |-> rest]
<1>1. f \in Frame /\ stack[c] \in Seq(Frame)
  BY DEF Frame, TypeOK
<1>2. stack'[c] = <<f>> \o stack[c] /\ \A d \in Conns \ {c} : stack'[d] = stack[d]
  BY DEF Push, TypeOK
<1> HIDE DEF f
<1>3. /\ Len(stack'[c]) = Len(stack[c]) + 1 /\ stack'[c][1] = f /\ stack'[c] \in Seq(Frame)
      /\ \A i \in 2..(Len(stack[c]) + 1) : stack'[c][i] = stack[c][i - 1]
  BY <1>1, <1>2, PushFacts
<1>4. Len(stack[c]) \in Nat /\ (stack[c] = <<>> <=> Len(stack[c]) = 0)
  BY <1>1, EmptySeq
<1>5. Busy(c)' /\ Top(c)' = f
  <2>1. Len(stack'[c]) # 0
    BY <1>3, <1>4
  <2> QED BY <1>3, <2>1, EmptySeq DEF Busy, Top
<1>6. causes'[c] = causes[c] \cup {x \in {"nested"} : Busy(c) /\ Owns(call)}
                             \cup {x \in {"error"} : leaked[c]}
  BY DEF Push, TypeOK
<1>7. /\ torn'[c] = None /\ thrown' = thrown /\ mine' = mine /\ stamp' = stamp
      /\ \A d \in Conns \ {c} : torn'[d] = torn[d] /\ causes'[d] = causes[d]
  BY DEF Push, TypeOK
<1>8. causes[c] \subseteq causes'[c]
  BY <1>6
<1>9. Busy(c) /\ Owns(call) => "nested" \in causes'[c]
  BY <1>6
<1>10. leaked[c] => "error" \in causes'[c]
  BY <1>6
<1> QED BY <1>2, <1>3, <1>4, <1>5, <1>7, <1>8, <1>9, <1>10 DEF f

LEMMA PushKeeps ==
  ASSUME IInv, TypeOK', NEW c \in Conns, NEW call \in AllCalls, NEW rest \in Seq(Statement),
         MayCall(c, call), Push(c, call, rest),
         committed' = committed, open' = open, leaked' = leaked, excused \subseteq excused',
         inTx'[c] <=> inTx[c] \/ Owns(call),
         \A d \in Conns \ {c} : inTx'[d] = inTx[d] /\ touched'[d] = touched[d],
         call = "transaction" => rest = <<>>,
         call \in {"insert", "update", "insertOrUpdate"} => Len(rest) <= 1,
         call = "insertOrUpdate" => \A j \in 1..Len(rest) : rest[j].op # "upsert",
         call # "insertOrUpdate" =>
           \A j \in 1..Len(rest) : rest[j].op # "update" => rest[j].key \in excused',
         call = "insertOrUpdate" => LookedUp(c)'
  PROVE  \A d \in Conns : ConnOk(d)'
PROOF
<1>0. TypeOK /\ ConnOk(c) /\ thrown[c] = None /\ (Busy(c) => Top(c).call = "transaction")
  BY DEF IInv, MayCall
<1>1. /\ Len(stack'[c]) = Len(stack[c]) + 1 /\ Len(stack[c]) \in Nat
      /\ (stack[c] = <<>> <=> Len(stack[c]) = 0)
      /\ Busy(c)' /\ Top(c)' = [call |-> call, todo |-> rest]
      /\ \A i \in 2..(Len(stack[c]) + 1) : stack'[c][i] = stack[c][i - 1]
      /\ torn'[c] = None /\ thrown' = thrown /\ mine' = mine
      /\ causes[c] \subseteq causes'[c]
      /\ Busy(c) /\ Owns(call) => causes'[c] # {}
      /\ leaked[c] => causes'[c] # {}
      /\ \A d \in Conns \ {c} : stack'[d] = stack[d] /\ torn'[d] = torn[d] /\ causes'[d] = causes[d]
  BY <1>0, PushShape
<1>2. Top(c)'.call = call /\ Top(c)'.todo = rest
  BY <1>1
<1>3. ASSUME NEW d \in Conns \ {c} PROVE ConnOk(d)'
  BY <1>1, OthersKeep
<1>4. Frames(c)'
  <2>1. FrameOk(Top(c))'
    BY <1>2 DEF FrameOk
  <2>2. ASSUME NEW i \in 2..Len(stack'[c])
        PROVE  stack'[c][i].call = "transaction" /\ stack'[c][i].todo = <<>>
    <3>1. /\ i - 1 \in 1..Len(stack[c]) /\ stack'[c][i] = stack[c][i - 1] /\ Len(stack[c]) # 0
          /\ i - 1 # 1 => i - 1 \in 2..Len(stack[c])
      BY <1>1
    <3>2. CASE i - 1 = 1
      <4>1. Busy(c) /\ stack'[c][i] = Top(c)
        BY <1>1, <3>1, <3>2 DEF Busy, Top
      <4> QED BY <1>0, <4>1 DEF ConnOk, Frames, FrameOk
    <3>3. CASE i - 1 # 1
      BY <1>0, <3>1, <3>3 DEF ConnOk, Frames
    <3> QED BY <3>2, <3>3
  <2>3. thrown'[c] = None
    BY <1>0, <1>1
  <2> QED BY <2>1, <2>2, <2>3 DEF Frames
<1>5. LookedUp(c)'
  BY <1>2 DEF LookedUp
<1>6. Closed(c)'
  <2> SUFFICES ASSUME Len(stack'[c]) = 1, ~Owns(call), inTx'[c] PROVE leaked'[c]
    BY <1>1, <1>2 DEF Closed
  <2>1. Len(stack[c]) = 0
    BY <1>1
  <2>2. ~Busy(c)
    BY <1>1, <2>1 DEF Busy
  <2>3. inTx[c]
    OBVIOUS
  <2> QED BY <1>0, <2>2, <2>3 DEF ConnOk, Closed
<1>7. Whole(c)'
  <2> SUFFICES ASSUME causes'[c] = {} PROVE Whole(c)'
    BY DEF Whole
  <2>1. causes[c] = {} /\ ~leaked[c] /\ ~(Busy(c) /\ Owns(call))
    BY <1>1
  <2>2. CASE Busy(c)
    <3>1. Owns(Top(c).call) /\ ~Owns(call)
      BY <1>0, <2>1, <2>2 DEF Owns
    <3>2. ~(Len(stack[c]) > 1) /\ inTx[c] /\ mine[c] = Stamps(open[c])
      BY <1>0, <2>1, <2>2, <3>1 DEF ConnOk, Whole
    <3>3. Len(stack'[c]) = 2
      BY <1>1, <2>2, <3>2 DEF Busy
    <3>4. inTx'[c] /\ mine'[c] = Stamps(open'[c])
      BY <1>1, <3>2
    <3> QED BY <1>2, <3>1, <3>3, <3>4 DEF Whole
  <2>3. CASE ~Busy(c)
    <3>1. Len(stack'[c]) = 1
      BY <1>1, <2>3 DEF Busy
    <3>2. mine'[c] = {} /\ ~inTx[c]
      BY <1>0, <1>1, <2>1, <2>3 DEF ConnOk, Idle, Closed
    <3>3. open'[c] = {} /\ Stamps({}) = {}
      BY <1>0, <3>2, StampFacts DEF TypeOK
    <3> QED BY <1>2, <3>1, <3>2, <3>3 DEF Whole
  <2> QED BY <2>2, <2>3
<1>8. Idle(c)' /\ torn'[c] # {}
  BY <1>1, Bounds DEF Idle
<1>9. ConnOk(c)'
  BY <1>4, <1>5, <1>6, <1>7, <1>8 DEF ConnOk
<1> QED BY <1>3, <1>9

\* Calls that look nothing up.
LEMMA ExcusingServer ==
  ASSUME ServerOk, committed' = committed, open' = open, snap' = snap, touched' = touched,
         fresh' = fresh, excused \subseteq excused', stamp' = stamp
  PROVE  ServerOk'
PROOF
<1>1. Stamped' /\ OneToucher'
  BY DEF ServerOk, Stamped, OneToucher
<1>2. SnapshotIsTrue' /\ OneRow'
  BY DEF ServerOk, SnapshotIsTrue, OneRow, Rows
<1> QED BY <1>1, <1>2 DEF ServerOk
\* insertOrUpdate() finds a row of a key that is not excused when there is one.
LEMMA LookupKeeps ==
  ASSUME IInv, TypeOK', NEW c \in Conns, NEW k \in Keys, InsertOrUpdate(c, k)
  PROVE  ServerOk' /\ \A d \in Conns : ConnOk(d)'
PROOF
<1>0. TypeOK /\ ServerOk /\ ConnOk(c)
  BY DEF IInv
<1>1. PICK op \in {"insert", "update"} :
        /\ op = "insert" => k \notin Visible(c)
        /\ Push(c, "insertOrUpdate", <<[op |-> op, key |-> k]>>)
  <2>1. CASE k \in Visible(c)
    BY <2>1 DEF InsertOrUpdate
  <2>2. CASE k \notin Visible(c)
    BY <2>2 DEF InsertOrUpdate
  <2> QED BY <2>1, <2>2
<1> DEFINE s == [op |-> op, key |-> k]
           there == {j \in Keys : Inserts(committed, j) # {}}
<1>2. s.op = op /\ s.key = k /\ s \in Statement
  BY DEF Statement
<1> HIDE DEF s
<1>3. Push(c, "insertOrUpdate", <<s>>)
  BY <1>1 DEF s
<1>4. /\ MayCall(c, "insertOrUpdate") /\ inTx' = [inTx EXCEPT ![c] = TRUE]
      /\ snap' = [snap EXCEPT ![c] = IF @ = None THEN there ELSE @]
      /\ Touch(c, {k}) /\ committed' = committed /\ open' = open /\ fresh' = fresh
      /\ leaked' = leaked
  BY DEF InsertOrUpdate, Begin
<1>5. inTx'[c] /\ \A d \in Conns \ {c} : inTx'[d] = inTx[d]
  BY <1>0, <1>4 DEF TypeOK
<1>6. /\ touched'[c] = touched[c] \cup {k} /\ \A d \in Conns \ {c} : touched'[d] = touched[d]
      /\ excused \subseteq excused'
      /\ k \in fresh[c] => k \in excused'
      /\ \A d \in Conns \ {c} : k \in touched[d] => k \in excused'
  BY <1>0, <1>4, <1>5 DEF Touch, TypeOK
<1>7. <<s>> \in Seq(Statement) /\ Len(<<s>>) = 1 /\ <<s>>[1] = s /\ 1..1 = {1}
  BY <1>2
<1>8. /\ Top(c)' = [call |-> "insertOrUpdate", todo |-> <<s>>] /\ stamp' = stamp
      /\ thrown' = thrown
  BY <1>0, <1>3, <1>7, PushShape DEF AllCalls
<1>9. \A d \in Conns \ {c} : snap'[d] = snap[d]
  BY <1>0, <1>4 DEF TypeOK
<1>10. snap'[c] = IF snap[c] = None THEN there ELSE snap[c]
  BY <1>0, <1>4 DEF TypeOK
<1>11. Stamped'
  BY <1>0, <1>4, <1>6, <1>8 DEF ServerOk, Stamped
<1>12. OneToucher'
  <2> SUFFICES ASSUME NEW j \in Keys \ excused', NEW d \in Conns, NEW e \in Conns,
                      j \in touched'[d], j \in touched'[e]
               PROVE  d = e
    BY DEF OneToucher
  <2>1. CASE j \in touched[d] /\ j \in touched[e]
    BY <1>0, <1>6, <2>1 DEF ServerOk, OneToucher
  <2>2. CASE j = k /\ (d = c \/ e = c)
    <3>1. \A f \in Conns \ {c} : j \notin touched'[f]
      BY <1>6, <2>2
    <3> QED BY <2>2, <3>1
  <2>3. \A f \in {d, e} : j \in touched[f] \/ (j = k /\ f = c)
    BY <1>6
  <2> QED BY <2>1, <2>2, <2>3
<1>13. SnapshotIsTrue'
  <2> SUFFICES ASSUME NEW j \in Keys \ excused', NEW d \in Conns, snap'[d] # None, j \notin fresh'[d]
               PROVE  j \in snap'[d] <=> Inserts(committed', j) # {}
    BY DEF SnapshotIsTrue
  <2>1. CASE d = c /\ snap[c] = None
    BY <1>4, <1>10, <2>1
  <2>2. CASE ~(d = c /\ snap[c] = None)
    <3>1. snap'[d] = snap[d] /\ snap[d] # None /\ j \notin excused /\ j \notin fresh[d]
      BY <1>4, <1>6, <1>9, <1>10, <2>2
    <3> QED BY <1>0, <1>4, <3>1 DEF ServerOk, SnapshotIsTrue
  <2> QED BY <2>1, <2>2
<1>14. OneRow'
  BY <1>0, <1>4, <1>6 DEF ServerOk, OneRow, Rows
<1>15. ServerOk'
  BY <1>11, <1>12, <1>13, <1>14 DEF ServerOk
<1>16. ASSUME k \notin excused', op = "insert" PROVE Rows(c, k)' = {}
  <2>1. k \notin Visible(c)
    BY <1>1, <1>16
  <2>2. Inserts(open[c], k) = {}
    BY <2>1 DEF Visible
  <2>3. Inserts(committed, k) = {}
    <3>1. CASE snap[c] = None
      BY <2>1, <3>1 DEF Visible
    <3>2. CASE snap[c] # None
      <4>1. k \notin snap[c]
        BY <2>1, <3>2 DEF Visible
      <4>2. k \notin fresh[c] /\ k \in Keys \ excused
        BY <1>6, <1>16
      <4> QED BY <1>0, <3>2, <4>1, <4>2 DEF ServerOk, SnapshotIsTrue
    <3> QED BY <3>1, <3>2
  <2>4. Inserts(committed', k) = {} /\ Inserts(open'[c], k) = {}
    BY <1>4, <2>2, <2>3
  <2> QED BY <2>4, NoInserts DEF Rows
<1>17. LookedUp(c)'
  <2> SUFFICES ASSUME NEW j \in Keys \ excused', k = j
               PROVE  inTx'[c] /\ j \in touched'[c] /\ (op = "insert" => Rows(c, j)' = {})
    BY <1>2, <1>7, <1>8 DEF LookedUp
  <2> QED BY <1>5, <1>6, <1>16
<1>18. \A d \in Conns : ConnOk(d)'
  <2> DEFINE rest == <<s>>
  <2>1. /\ Push(c, "insertOrUpdate", rest) /\ rest \in Seq(Statement) /\ Len(rest) <= 1
        /\ \A j \in 1..Len(rest) : rest[j].op # "upsert"
    BY <1>2, <1>3, <1>7
  <2> HIDE DEF rest, there
  <2>2. "insertOrUpdate" \in AllCalls /\ (inTx'[c] <=> inTx[c] \/ Owns("insertOrUpdate"))
    BY <1>5 DEF AllCalls, Owns
  <2>3. /\ MayCall(c, "insertOrUpdate") /\ excused \subseteq excused'
        /\ committed' = committed /\ open' = open /\ leaked' = leaked
        /\ \A d \in Conns \ {c} : inTx'[d] = inTx[d] /\ touched'[d] = touched[d]
    BY <1>4, <1>5, <1>6
  <2> QED BY <1>17, <2>1, <2>2, <2>3, PushKeeps
<1> QED BY <1>15, <1>18

LEMMA TransactionKeeps ==
  ASSUME IInv, TypeOK', NEW c \in Conns, Transaction(c)
  PROVE  ServerOk' /\ \A d \in Conns : ConnOk(d)'
PROOF
<1>0. TypeOK /\ ServerOk
  BY DEF IInv
<1>1. /\ MayCall(c, "transaction") /\ Push(c, "transaction", <<>>) /\ stamp' = stamp
      /\ committed' = committed /\ open' = open /\ snap' = snap /\ touched' = touched
      /\ fresh' = fresh /\ excused' = excused /\ leaked' = leaked
  BY DEF Transaction, Push
<1>2. inTx'[c] /\ \A d \in Conns \ {c} : inTx'[d] = inTx[d]
  BY <1>0 DEF Transaction, Begin, TypeOK
<1>3. <<>> \in Seq(Statement) /\ 1..Len(<<>>) = {}
  BY EmptySeq
<1>4. "transaction" \in AllCalls /\ Owns("transaction")
  BY DEF AllCalls, Owns
<1>5. \A d \in Conns : ConnOk(d)'
  BY <1>1, <1>2, <1>3, <1>4, PushKeeps
<1> QED BY <1>0, <1>1, <1>5, ExcusingServer

LEMMA BatchKeeps ==
  ASSUME IInv, TypeOK', NEW c \in Conns, NEW j \in Keys, NEW k \in Keys,
         NEW call \in {"batchInsert", "batchUpdate", "upsert"},
         NEW op \in {"insert", "update", "upsert"}, Batch(c, call, op, j, k)
  PROVE  ServerOk' /\ \A d \in Conns : ConnOk(d)'
PROOF
<1>0. TypeOK /\ ServerOk
  BY DEF IInv
<1> DEFINE s == [op |-> op, key |-> j]
           t == [op |-> op, key |-> k]
<1>1. s \in Statement /\ t \in Statement /\ s.op = op /\ t.op = op /\ s.key = j /\ t.key = k
  BY DEF Statement
<1>2. /\ MayCall(c, call) /\ Push(c, call, <<s, t>>) /\ stamp' = stamp
      /\ committed' = committed /\ open' = open /\ snap' = snap /\ touched' = touched
      /\ fresh' = fresh /\ leaked' = leaked
      /\ excused' = excused \cup {i \in {j, k} : op # "update"}
  BY DEF Batch, Push
<1> HIDE DEF s, t
<1>3. inTx'[c] /\ \A d \in Conns \ {c} : inTx'[d] = inTx[d]
  BY <1>0 DEF Batch, Begin, TypeOK
<1>4. excused \subseteq excused' /\ (op # "update" => j \in excused' /\ k \in excused')
  BY <1>2
<1>5. /\ <<s, t>> \in Seq(Statement) /\ Len(<<s, t>>) = 2 /\ 1..2 = {1, 2}
      /\ <<s, t>>[1] = s /\ <<s, t>>[2] = t
  BY <1>1
<1>6. \A i \in 1..Len(<<s, t>>) : <<s, t>>[i].op # "update" => <<s, t>>[i].key \in excused'
  <2>1. \A i \in 1..Len(<<s, t>>) : i = 1 \/ i = 2
    BY <1>5
  <2> QED BY <1>1, <1>4, <1>5, <2>1
<1>7. call \in AllCalls /\ Owns(call) /\ call # "transaction" /\ call # "insertOrUpdate"
      /\ call \notin {"insert", "update", "insertOrUpdate"}
  BY DEF AllCalls, Owns
<1>8. \A d \in Conns : ConnOk(d)'
  BY <1>2, <1>3, <1>4, <1>5, <1>6, <1>7, PushKeeps
<1>9. ServerOk'
  BY <1>0, <1>2, <1>4, ExcusingServer
<1> QED BY <1>8, <1>9

LEMMA PlainKeeps ==
  ASSUME IInv, TypeOK', NEW c \in Conns, NEW k \in Keys, NEW call \in {"insert", "update"},
         Plain(c, call, k)
  PROVE  ServerOk' /\ \A d \in Conns : ConnOk(d)'
PROOF
<1>0. TypeOK /\ ServerOk
  BY DEF IInv
<1> DEFINE s == [op |-> call, key |-> k]
<1>1. s \in Statement /\ s.op = call /\ s.key = k
  BY DEF Statement
<1>2. /\ MayCall(c, call) /\ Push(c, call, <<s>>) /\ stamp' = stamp
      /\ committed' = committed /\ open' = open /\ snap' = snap /\ touched' = touched
      /\ fresh' = fresh /\ leaked' = leaked /\ inTx' = inTx
      /\ excused' = excused \cup {i \in {k} : call = "insert"}
  BY DEF Plain, Push
<1> HIDE DEF s
<1>3. excused \subseteq excused' /\ (call # "update" => k \in excused')
  BY <1>2
<1>4. <<s>> \in Seq(Statement) /\ Len(<<s>>) = 1 /\ <<s>>[1] = s
  BY <1>1
<1>5. \A i \in 1..Len(<<s>>) : <<s>>[i].op # "update" => <<s>>[i].key \in excused'
  <2>1. \A i \in 1..Len(<<s>>) : i = 1
    BY <1>4
  <2> QED BY <1>1, <1>3, <1>4, <2>1
<1>6. call \in AllCalls /\ ~Owns(call) /\ call # "transaction" /\ call # "insertOrUpdate"
  BY DEF AllCalls, Owns
<1>7. Len(<<s>>) <= 1
  BY <1>4
<1>8. \A d \in Conns : ConnOk(d)'
  BY <1>2, <1>3, <1>4, <1>5, <1>6, <1>7, PushKeeps
<1>9. ServerOk'
  BY <1>0, <1>2, <1>3, ExcusingServer
<1> QED BY <1>8, <1>9

-----------------------------------------------------------------------------
(* The theorems.                                                             *)

LEMMA InitOk == Init => IInv
PROOF
<1> SUFFICES ASSUME Init PROVE IInv
  OBVIOUS
<1>0. <<>> \in Seq(Frame) /\ Len(<<>>) = 0 /\ 2..0 = {}
  BY EmptySeq
<1>1. TypeOK
  BY <1>0, Bounds DEF Init, TypeOK
<1>2. Inserts({}, "x") = {} /\ \A k, c : Rows(c, k) \subseteq committed \cup open[c]
  BY DEF Inserts, Rows
<1>3. ServerOk
  <2>1. Stamped /\ OneToucher /\ SnapshotIsTrue
    BY DEF Init, Stamped, OneToucher, SnapshotIsTrue
  <2>2. OneRow
    BY <1>2 DEF Init, OneRow
  <2> QED BY <2>1, <2>2 DEF ServerOk
<1>4. ASSUME NEW c \in Conns PROVE ConnOk(c)
  <2>1. ~Busy(c) /\ stack[c] = <<>> /\ ~inTx[c] /\ mine[c] = {} /\ causes[c] = {} /\ torn[c] = None
    BY <1>4 DEF Init, Busy
  <2> QED BY <2>1, <1>0, Bounds DEF ConnOk, Frames, LookedUp, Closed, Whole, Idle
<1> QED BY <1>1, <1>3, <1>4 DEF IInv

LEMMA NextOk == IInv /\ [Next]_vars => IInv'
PROOF
<1> SUFFICES ASSUME IInv, [Next]_vars PROVE IInv'
  OBVIOUS
<1>1. CASE UNCHANGED vars
  <2>1. /\ calls' = calls /\ UNCHANGED server /\ stack' = stack /\ thrown' = thrown
        /\ mine' = mine /\ causes' = causes /\ torn' = torn
        /\ stamp' = stamp /\ throws' = throws /\ faults' = faults
    BY <1>1 DEF vars, unit, bounds
  <2>2. /\ committed' = committed /\ open' = open /\ inTx' = inTx /\ snap' = snap
        /\ touched' = touched /\ fresh' = fresh /\ excused' = excused /\ leaked' = leaked
    BY <2>1 DEF server
  <2>3. TypeOK'
    BY <2>1, <2>2 DEF IInv, TypeOK
  <2>4. ServerOk'
    BY <2>1, ServerStays DEF IInv
  <2>5. \A d \in Conns : ConnOk(d)'
    BY <2>1, <2>2, <2>3, OthersKeep
  <2> QED BY <2>3, <2>4, <2>5 DEF IInv
<1>2. ASSUME NEW c \in Conns, CallStep(c) \/ StatementStep(c) \/ EndStep(c), calls' = calls
      PROVE  IInv'
  <2>0. TypeOK
    BY DEF IInv
  <2>1. TypeOK'
    BY <1>2, <2>0, CallStepTypes, StatementStepTypes, EndStepTypes
  <2>2. CASE CallStep(c)
    <3>1. ServerOk' /\ \A d \in Conns : ConnOk(d)'
      BY <2>1, <2>2, TransactionKeeps, LookupKeeps, BatchKeeps, PlainKeeps
         DEF CallStep, BatchInsert, BatchUpdate, Upsert, Insert, Update
    <3> QED BY <2>1, <3>1 DEF IInv
  <2>3. CASE StatementStep(c) \/ EndStep(c)
    <3>1. ServerOk' /\ \A d \in Conns : ConnOk(d)'
      BY <2>1, <2>3, StatementStepKeeps, EndStepKeeps
    <3> QED BY <2>1, <3>1 DEF IInv
  <2> QED BY <1>2, <2>2, <2>3
<1> QED BY <1>1, <1>2 DEF Next

\* The state of the connections is as the calls leave it, for any number of them.
THEOREM Invariant == Spec => []IInv
  BY InitOk, NextOk, PTL DEF Spec

\* A connection is closed when a call begins, unless an Error left its transaction open
\* (BaseDatabase::transaction, beginTransaction).
THEOREM ConnectionsAreClosed == Spec => []ConnectionsAreSound
PROOF
<1>1. IInv => ConnectionsAreSound
  BY DEF IInv, ConnectionsAreSound, ClosedBetweenCalls, ConnOk, Closed
<1> QED BY <1>1, Invariant, PTL

\* A call is all or nothing, unless there is a cause that tears it: it made another call that
\* opens a transaction, an Error passed through it, or the server undid its transaction.
THEOREM CallsAreWhole == Spec => []TornNeedsACause
PROOF
<1>1. IInv => TornNeedsACause
  BY DEF IInv, TornNeedsACause, ConnOk
<1> QED BY <1>1, Invariant, PTL

\* A key has a second row only when two transactions overlapped at it, or when rows of it are
\* inserted unseen (BaseDatabase::insertOrUpdate).
THEOREM KeysAreUnique == Spec => []DuplicateNeedsOverlap
PROOF
<1>1. ASSUME IInv, NEW k \in Keys, k \notin excused, NEW c \in Conns
      PROVE  ~(Cardinality(Inserts(committed, k)) > 1)
  <2>1. \A v, w \in Inserts(committed, k) : v = w
    BY <1>1 DEF IInv, ServerOk, OneRow, Rows, Inserts
  <2>2. CASE Inserts(committed, k) = {}
    <3>1. Cardinality(Inserts(committed, k)) = 0
      BY <2>2, FS_EmptySet
    <3> QED BY <3>1
  <2>3. CASE Inserts(committed, k) # {}
    <3>1. PICK w : Inserts(committed, k) = {w}
      BY <2>1, <2>3
    <3>2. Cardinality(Inserts(committed, k)) = 1
      BY <3>1, FS_Singleton
    <3> QED BY <3>2
  <2> QED BY <2>2, <2>3
<1>2. IInv => DuplicateNeedsOverlap
  BY <1>1, TransactionsAssumption DEF DuplicateNeedsOverlap
<1> QED BY <1>2, Invariant, PTL

-----------------------------------------------------------------------------
(* The migrations: what deploy.json and the schema have to do with each other. *)

Tables == [file: Mig!AllMigrations, after: SUBSET Mig!AllMigrations]

LEMMA GreatestOfBounded ==
  ASSUME NEW S, S \subseteq Nat, S # {}, NEW n \in Nat, \A x \in S : x <= n
  PROVE  Mig!Max(S) \in S /\ \A x \in S : x <= Mig!Max(S)
PROOF
<1> DEFINE T == {n - x : x \in S}
<1>1. T \subseteq Nat /\ T # {}
  <2>1. \A x \in S : n - x \in Nat
    OBVIOUS
  <2> QED BY <2>1
<1>2. PICK t \in T : \A u \in T : ~(<<u, t>> \in OpToRel(<, Nat))
  BY <1>1, WFMin, NatLessThanWellFounded
<1>3. \A u \in T : ~(u < t)
  BY <1>1, <1>2 DEF OpToRel
<1>4. PICK m \in S : t = n - m
  OBVIOUS
<1>5. ASSUME NEW x \in S PROVE m >= x
  <2>1. n - x \in T
    OBVIOUS
  <2>2. ~(n - x < n - m)
    BY <2>1, <1>3, <1>4
  <2> QED BY <2>2
<1>6. \E m_1 \in S : \A x \in S : m_1 >= x
  BY <1>5
<1>7. Mig!Max(S) \in S /\ \A x \in S : Mig!Max(S) >= x
  BY <1>6 DEF Mig!Max
<1> QED BY <1>7

LEMMA LeastOfNumbers ==
  ASSUME NEW S, S \subseteq Nat, S # {}
  PROVE  \E x \in S : \A y \in S : x <= y
PROOF
<1>1. PICK x \in S : \A y \in S : ~(<<y, x>> \in OpToRel(<, Nat))
  BY WFMin, NatLessThanWellFounded
<1>2. \A y \in S : ~(y < x)
  BY <1>1, Zenon DEF OpToRel
<1> QED BY <1>2

LEMMA EntryAdded ==
  ASSUME NEW S \in SUBSET Mig!Entries, NEW f \in Mig!AllMigrations, NEW b \in Nat
  PROVE  Mig!With(S, [file |-> f, batch |-> b, after |-> {}])
           = S \cup {[file |-> f, batch |-> b, after |-> Mig!FilesOf(S)]}
BY DEF Mig!With

LEMMA TableAdded ==
  ASSUME NEW T \in SUBSET Tables, NEW f \in Mig!AllMigrations
  PROVE  Mig!With(T, [file |-> f, after |-> {}]) = T \cup {[file |-> f, after |-> Mig!FilesOf(T)]}
BY DEF Mig!With

LEMMA EntriesLeft ==
  ASSUME NEW S \in SUBSET Mig!Entries, NEW F
  PROVE  Mig!Without(S, F) = {[file |-> e.file, batch |-> e.batch, after |-> e.after \ F] :
                            e \in {e \in S : e.file \notin F}}
PROOF
<1>1. ASSUME NEW e \in S
      PROVE  [e EXCEPT !.after = @ \ F] = [file |-> e.file, batch |-> e.batch, after |-> e.after \ F]
  <2>1. e = [file |-> e.file, batch |-> e.batch, after |-> e.after]
    BY DEF Mig!Entries
  <2> QED BY <2>1
<1> QED BY <1>1, Zenon DEF Mig!Without

LEMMA TablesLeft ==
  ASSUME NEW T \in SUBSET Tables, NEW F
  PROVE  Mig!Without(T, F) = {[file |-> t.file, after |-> t.after \ F] : t \in {t \in T
           : t.file \notin F}}
PROOF
<1>1. ASSUME NEW t \in T PROVE [t EXCEPT !.after = @ \ F] = [file |-> t.file, after |-> t.after \ F]
  <2>1. t = [file |-> t.file, after |-> t.after]
    BY DEF Tables
  <2> QED BY <2>1
<1> QED BY <1>1, Zenon DEF Mig!Without

\* What With and Without do to the files and to the order of entries.
LEMMA FilesAdded ==
  ASSUME NEW S \in SUBSET Mig!Entries, NEW f \in Mig!AllMigrations, NEW b \in Nat,
         NEW N, N = Mig!With(S, [file |-> f, batch |-> b, after |-> {}])
  PROVE  /\ N \in SUBSET Mig!Entries /\ Mig!FilesOf(N) = Mig!FilesOf(S) \cup {f}
         /\ Mig!Order(N) = Mig!Order(S) \cup {[file |-> f, after |-> Mig!FilesOf(S)]}
PROOF
<1> DEFINE x == [file |-> f, batch |-> b, after |-> Mig!FilesOf(S)]
<1>1. N = S \cup {x}
  BY EntryAdded
<1>2. Mig!FilesOf(S) \subseteq Mig!AllMigrations
  BY DEF Mig!FilesOf, Mig!Entries
<1>3. x \in Mig!Entries /\ x.file = f /\ x.after = Mig!FilesOf(S)
  BY <1>2 DEF Mig!Entries
<1> HIDE DEF x
<1>4. Mig!FilesOf(N) = Mig!FilesOf(S) \cup {f}
  BY <1>1, <1>3 DEF Mig!FilesOf
<1>5. Mig!Order(N) = Mig!Order(S) \cup {[file |-> f, after |-> Mig!FilesOf(S)]}
  BY <1>1, <1>3 DEF Mig!Order
<1> QED BY <1>1, <1>3, <1>4, <1>5

LEMMA FilesLeft ==
  ASSUME NEW S \in SUBSET Mig!Entries, NEW F, NEW N, N = Mig!Without(S, F)
  PROVE  /\ N \in SUBSET Mig!Entries /\ Mig!FilesOf(N) = Mig!FilesOf(S) \ F
         /\ Mig!Order(N) = {[file |-> t.file, after |-> t.after \ F] : t \in {t \in Mig!Order(S)
              : t.file \notin F}}
PROOF
<1> DEFINE x(e) == [file |-> e.file, batch |-> e.batch, after |-> e.after \ F]
<1>1. N = {x(e) : e \in {e \in S : e.file \notin F}}
  BY EntriesLeft
<1>2. \A e \in S : x(e) \in Mig!Entries /\ x(e).file = e.file /\ x(e).after = e.after \ F
  BY DEF Mig!Entries
<1> HIDE DEF x
<1>3. N \in SUBSET Mig!Entries
  BY <1>1, <1>2
<1>4. Mig!FilesOf(N) = Mig!FilesOf(S) \ F
  BY <1>1, <1>2 DEF Mig!FilesOf
<1>5. Mig!Order(N) = {[file |-> t.file, after |-> t.after \ F] : t \in {t \in Mig!Order(S)
        : t.file \notin F}}
  <2> DEFINE o(e) == [file |-> e.file, after |-> e.after]
             y(t) == [file |-> t.file, after |-> t.after \ F]
             M == {y(t) : t \in {t \in Mig!Order(S) : t.file \notin F}}
  <2>1. \A e : o(e).file = e.file /\ y(o(e)) = y(e)
    OBVIOUS
  <2>2. \A e \in S : o(x(e)) = y(e)
    BY <1>2
  <2>3. Mig!Order(N) = {o(e) : e \in N} /\ Mig!Order(S) = {o(e) : e \in S}
    BY DEF Mig!Order
  <2> HIDE DEF o, y
  <2>4. \A z : z \in Mig!Order(N) <=> \E e \in S : e.file \notin F /\ z = y(e)
    BY <1>1, <2>2, <2>3
  <2>5. \A z : z \in M <=> \E e \in S : e.file \notin F /\ z = y(e)
    BY <2>1, <2>3
  <2>6. Mig!Order(N) = M
    BY <2>4, <2>5
  <2> QED BY <2>6 DEF y
<1> QED BY <1>3, <1>4, <1>5

LEMMA TablesGrow ==
  ASSUME NEW T \in SUBSET Tables, \A t, u \in T : t.file = u.file => t = u,
         NEW f \in Mig!AllMigrations \ Mig!FilesOf(T),
         NEW N, N = Mig!With(T, [file |-> f, after |-> {}])
  PROVE  /\ N \in SUBSET Tables /\ Mig!FilesOf(N) = Mig!FilesOf(T) \cup {f}
         /\ \A t, u \in N : t.file = u.file => t = u
         /\ N = T \cup {[file |-> f, after |-> Mig!FilesOf(T)]}
PROOF
<1> DEFINE x == [file |-> f, after |-> Mig!FilesOf(T)]
<1>1. N = T \cup {x}
  BY TableAdded
<1>2. Mig!FilesOf(T) \subseteq Mig!AllMigrations
  BY DEF Mig!FilesOf, Tables
<1>3. x \in Tables /\ x.file = f
  BY <1>2 DEF Tables
<1> HIDE DEF x
<1>4. Mig!FilesOf(N) = Mig!FilesOf(T) \cup {f}
  BY <1>1, <1>3 DEF Mig!FilesOf
<1>5. \A t \in T : t.file # f
  BY DEF Mig!FilesOf
<1>6. \A t, u \in N : t.file = u.file => t = u
  BY <1>1, <1>3, <1>5
<1> QED BY <1>1, <1>3, <1>4, <1>6 DEF x

LEMMA TablesShrink ==
  ASSUME NEW T \in SUBSET Tables, \A t, u \in T : t.file = u.file => t = u,
         NEW F, NEW N, N = Mig!Without(T, F)
  PROVE  /\ N \in SUBSET Tables /\ Mig!FilesOf(N) = Mig!FilesOf(T) \ F
         /\ \A t, u \in N : t.file = u.file => t = u
PROOF
<1> DEFINE x(t) == [file |-> t.file, after |-> t.after \ F]
<1>1. N = {x(t) : t \in {t \in T : t.file \notin F}}
  BY TablesLeft
<1>2. \A t \in T : x(t) \in Tables /\ x(t).file = t.file
  BY DEF Tables
<1> HIDE DEF x
<1>3. N \in SUBSET Tables
  BY <1>1, <1>2
<1>4. Mig!FilesOf(N) = Mig!FilesOf(T) \ F
  BY <1>1, <1>2 DEF Mig!FilesOf
<1>5. \A t, u \in N : t.file = u.file => t = u
  BY <1>1, <1>2
<1> QED BY <1>3, <1>4, <1>5

\* Without files that are not there, and without any that are.
LEMMA NothingLeft ==
  ASSUME NEW T \in SUBSET Tables
  PROVE  Mig!Without(T, Mig!FilesOf(T)) = {} /\ Mig!Without(T, {}) = T
PROOF
<1>1. Mig!Without(T, Mig!FilesOf(T)) = {}
  BY DEF Mig!Without, Mig!FilesOf
<1>2. \A t \in T : [file |-> t.file, after |-> t.after \ {}] = t
  BY DEF Tables
<1>3. Mig!Without(T, {}) = {[file |-> t.file, after |-> t.after \ {}] : t \in {t \in T
        : t.file \notin {}}}
  BY TablesLeft
<1> QED BY <1>1, <1>2, <1>3

-----------------------------------------------------------------------------
(* The inductive invariant of the migrations: each process.                  *)

Saving(p) == pc[p] \in {"save", "write"}

\* What a command is at, and what it has still to do.
PlanOk(p) ==
  /\ pc[p] = "drop" => cmd[p] = "fresh"
  /\ cmd[p] = "fresh" => pc[p] \in {"drop", "save", "write"} /\ mem[p] = Mig!Nothing /\ todo[p] = {}
  /\ pc[p] = "reload" => cmd[p] = "seed"
  /\ pc[p] \in {"run", "save", "write"} => cmd[p] \in {"migrate", "rollback", "seed", "fresh"}
  /\ pc[p] # "idle" => cmd[p] # None
  /\ cmd[p] = "migrate" => todo[p] \subseteq present
  /\ cmd[p] = "rollback" => todo[p] \subseteq Mig!Migrated(mem[p])
  /\ cmd[p] = "seed" => todo[p] \subseteq Seeders
  /\ pc[p] \in {"idle", "load", "drop"} => todo[p] = {} /\ mem[p] = Mig!Nothing
  /\ Saving(p) /\ cmd[p] \notin {"seed", "fresh"} => file[p] \in Mig!AllMigrations
  /\ pc[p] = "write" <=> writer = p

\* Entries come after others that are there, in batches that do not fall.
WellKept(d) ==
  /\ \E n \in Nat : \A e \in d.migrated : e.batch <= n
  /\ \A e \in d.migrated : e.after \subseteq Mig!Migrated(d) \ {e.file}
  /\ \A e, g \in d.migrated : e.file \in g.after => e.batch <= g.batch

\* migrate adds a batch after the others, rollback takes the last ones back.
MemOk(p) ==
  /\ WellKept(mem[p])
  /\ cmd[p] = "migrate" /\ (pc[p] = "run" \/ Saving(p)) =>
       /\ todo[p] = present \ Mig!Migrated(mem[p])
       /\ \A e \in mem[p].migrated : e.batch <= batch[p]
  /\ cmd[p] = "rollback" =>
       \A e, g \in mem[p].migrated : e.file \in todo[p] /\ e.file \in g.after => g.file \in todo[p]

LocalOk == WellKept(Mig!Loaded) /\ \A p \in Conns : PlanOk(p) /\ MemOk(p)

-----------------------------------------------------------------------------
(* What the steps do.                                                        *)

Work(p) ==
  \/ Mig!Load(p) \/ Mig!DropAll(p) \/ Mig!DropFails(p) \/ Mig!Up(p) \/ Mig!Down(p)
       \/ Mig!Seed(p) \/ Mig!Fails(p) \/ Mig!PartlyFails(p)
  \/ Mig!Truncate(p) \/ Mig!Save(p) \/ Mig!Reload(p) \/ Mig!Killed(p)
  \/ \E c \in Commands : Mig!Begin(p, c)

Same(q) ==
  /\ pc'[q] = pc[q] /\ cmd'[q] = cmd[q] /\ mem'[q] = mem[q]
  /\ batch'[q] = batch[q] /\ todo'[q] = todo[q] /\ file'[q] = file[q]

LEMMA NextWorks == ASSUME Mig!Next
                   PROVE (\E p \in Conns : Work(p)) \/ \E f \in Mig!AllMigrations : Mig!Release(f)
BY DEF Mig!Next, Work

LEMMA OthersStay ==
  ASSUME Mig!TypeOK, NEW p \in Conns, Work(p)
  PROVE  present' = present /\ \A q \in Conns : q # p => Same(q)
PROOF
<1> USE
        DEF Mig!TypeOK, Same, Mig!GoTo, Mig!Exit, Mig!Done, Mig!GoOn, Mig!procs, Mig!history,
        Mig!counts
<1>1. CASE Mig!Load(p)  BY <1>1 DEF Mig!Load
<1>2. CASE Mig!DropAll(p)  BY <1>2 DEF Mig!DropAll
<1>3. CASE Mig!DropFails(p)  BY <1>3 DEF Mig!DropFails
<1>4. CASE Mig!Up(p)  BY <1>4 DEF Mig!Up
<1>5. CASE Mig!Down(p)  BY <1>5 DEF Mig!Down
<1>6. CASE Mig!Seed(p)  BY <1>6 DEF Mig!Seed
<1>7. CASE Mig!Fails(p)  BY <1>7 DEF Mig!Fails
<1>8. CASE Mig!Truncate(p)  BY <1>8 DEF Mig!Truncate
<1>9. CASE Mig!Save(p)  BY <1>9 DEF Mig!Save
<1>10. CASE Mig!Reload(p)  BY <1>10 DEF Mig!Reload
<1>11. CASE Mig!Killed(p)  BY <1>11 DEF Mig!Killed
<1>12. CASE \E c \in Commands : Mig!Begin(p, c)  BY <1>12 DEF Mig!Begin
<1>13. CASE Mig!PartlyFails(p)  BY <1>13 DEF Mig!PartlyFails
<1> QED
  BY <1>1, <1>2, <1>3, <1>4, <1>5, <1>6, <1>7, <1>8, <1>9, <1>10, <1>11, <1>12, <1>13 DEF Work

LEMMA DataFields ==
  /\ Mig!Nothing \in Mig!Data /\ Mig!Nothing.migrated = {} /\ Mig!Nothing.seeded = {}
  /\ \A d \in Mig!Data : d.migrated \in SUBSET Mig!Entries /\ d.seeded \in SUBSET Seeders
  /\ \A d \in Mig!Data, X \in SUBSET Mig!Entries :
       LET n == [d EXCEPT !.migrated = X]
       IN  n \in Mig!Data /\ n.migrated = X /\ n.seeded = d.seeded
  /\ \A d \in Mig!Data, X \in SUBSET Seeders :
       LET n == [d EXCEPT !.seeded = X]
       IN  n \in Mig!Data /\ n.migrated = d.migrated /\ n.seeded = X
BY DEF Mig!Nothing, Mig!Data

LEMMA LoadedIsData == ASSUME Mig!TypeOK PROVE Mig!Loaded \in Mig!Data
BY DataFields DEF Mig!TypeOK, Mig!Loaded

\* An exit leaves nothing of the command.
LEMMA ExitEffect ==
  ASSUME Mig!TypeOK, NEW p \in Conns, Mig!Exit(p)
  PROVE  /\ pc'[p] = "idle" /\ cmd'[p] = None /\ mem'[p] = Mig!Nothing /\ todo'[p] = {}
              /\ file'[p] = 0
         /\ cmd' \in [Conns -> Mig!AllCommands \cup {None}]
         /\ pc' \in [Conns -> {"idle", "load", "run", "reload", "drop", "save", "write"}]
         /\ steps' \in [Conns -> Nat] /\ mem' \in [Conns -> Mig!Data] /\ batch' \in [Conns -> Nat]
         /\ todo' \in [Conns -> SUBSET Nat] /\ file' \in [Conns -> Nat]
BY DataFields DEF Mig!TypeOK, Mig!Exit, Mig!GoTo

\* What a command has loaded tells it the last batch.
LEMMA LastBatchFacts ==
  ASSUME NEW d \in Mig!Data, WellKept(d)
  PROVE  Mig!LastBatch(d) \in Nat /\ \A e \in d.migrated : e.batch \in Nat
           /\ e.batch <= Mig!LastBatch(d)
PROOF
<1> DEFINE S == {0} \cup {e.batch : e \in d.migrated}
<1>1. \A e \in d.migrated : e.batch \in Nat
  BY DataFields DEF Mig!Entries
<1>2. PICK n \in Nat : \A e \in d.migrated : e.batch <= n
  BY DEF WellKept
<1>3. S \subseteq Nat /\ S # {} /\ \A x \in S : x <= n
  BY <1>1, <1>2
<1>4. Mig!Max(S) \in S /\ \A x \in S : x <= Mig!Max(S)
  BY <1>3, GreatestOfBounded
<1>5. Mig!LastBatch(d) = Mig!Max(S)
  BY DEF Mig!LastBatch
<1>6. \A e \in d.migrated : e.batch \in S
  OBVIOUS
<1> QED BY <1>1, <1>3, <1>4, <1>5, <1>6

LEMMA PlanFacts ==
  ASSUME Mig!TypeOK, LocalOk, NEW p \in Conns
  PROVE  /\ cmd[p] = "migrate" => Mig!Plan(p) = present \ Mig!Migrated(Mig!Loaded)
         /\ cmd[p] = "seed" => Mig!Plan(p) \subseteq Seeders
         /\ cmd[p] \notin {"migrate", "seed"} => Mig!Plan(p) = Mig!ToRollBack(Mig!Loaded, steps[p]) 
         /\ Mig!ToRollBack(Mig!Loaded, steps[p]) \subseteq Mig!Migrated(Mig!Loaded)
         /\ Mig!Migrated(Mig!Loaded) \subseteq Mig!AllMigrations
         /\ Mig!Plan(p) \subseteq Nat
PROOF
<1>1. /\ cmd[p] = "migrate" => Mig!Plan(p) = present \ Mig!Migrated(Mig!Loaded)
      /\ cmd[p] = "seed" => Mig!Plan(p) = Seeders \ Mig!Loaded.seeded
      /\ cmd[p] \notin {"migrate", "seed"} => Mig!Plan(p) = Mig!ToRollBack(Mig!Loaded, steps[p])
  BY DEF Mig!Plan, Mig!PendingMigrations, Mig!PendingSeeders
<1>2. Mig!ToRollBack(Mig!Loaded, steps[p]) \subseteq Mig!Migrated(Mig!Loaded)
  BY DEF Mig!ToRollBack, Mig!Migrated, Mig!FilesOf
<1>3. Mig!Migrated(Mig!Loaded) \subseteq Mig!AllMigrations
  BY LoadedIsData, DataFields DEF Mig!Migrated, Mig!FilesOf, Mig!Entries
<1>4. Mig!AllMigrations \subseteq Nat /\ Seeders \subseteq Nat /\ present \subseteq Mig!AllMigrations
  BY DatabaseAssumption DEF Mig!AllMigrations, Mig!TypeOK
<1> QED BY <1>1, <1>2, <1>3, <1>4

\* A load that finds nothing to do ends the command; another one plans it.
Plans(p) ==
  /\ Mig!Plan(p) # {} /\ todo'[p] = Mig!Plan(p) /\ cmd'[p] = cmd[p]
  /\ mem'[p] = Mig!Loaded /\ batch'[p] = Mig!LastBatch(Mig!Loaded) + 1 /\ pc'[p] = "run"
Turns(p) ==
  /\ cmd[p] = "reset" /\ cmd'[p] = "rollback"
  /\ mem'[p] = mem[p] /\ todo'[p] = todo[p] /\ pc'[p] = "load"

LEMMA LoadEffect ==
  ASSUME Mig!TypeOK, LocalOk, NEW p \in Conns, Mig!Load(p)
  PROVE  /\ pc[p] = "load"
         /\ UNCHANGED <<present, tables, filled, deploy, writer, lost, cut, Mig!counts>>
         /\ beside' = beside \cup (IF Mig!Running = {p} THEN {} ELSE Mig!Repeatable(Mig!Plan(p)))
         /\ Turns(p) \/ Plans(p) \/ Mig!Exit(p)
         /\ Mig!TypeOK'
PROOF
<1> USE DEF Mig!TypeOK, Mig!Load
<1>1. Mig!Loaded \in Mig!Data /\ Mig!LastBatch(Mig!Loaded) \in Nat /\ Mig!Plan(p) \subseteq Nat
  BY LoadedIsData, LastBatchFacts, PlanFacts DEF LocalOk
<1>2. /\ pc[p] = "load" /\ UNCHANGED <<present, tables, filled, deploy, writer, lost, cut, Mig!counts>>
      /\ beside' = beside \cup (IF Mig!Running = {p} THEN {} ELSE Mig!Repeatable(Mig!Plan(p)))
      /\ beside' \subseteq Mig!AllCommands \cup {"idempotent"}
  BY DEF Mig!Repeatable
<1>3. CASE cmd[p] = "reset" /\ Mig!Loaded.migrated # {}
  <2>1. /\ cmd' = [cmd EXCEPT ![p] = "rollback"]
             /\ steps' = [steps EXCEPT ![p] = Mig!LastBatch(Mig!Loaded)]
        /\ UNCHANGED <<pc, mem, batch, todo, file>>
    BY <1>3
  <2>2. Turns(p)
    BY <1>2, <1>3, <2>1 DEF Turns
  <2>3. cmd' \in [Conns -> Mig!AllCommands \cup {None}] /\ steps' \in [Conns -> Nat]
    BY <1>1, <2>1 DEF Mig!AllCommands
  <2>4. Mig!TypeOK'
    BY <1>2, <2>1, <2>3 DEF Mig!counts
  <2> QED BY <1>2, <2>2, <2>4
<1>4. CASE ~(cmd[p] = "reset" /\ Mig!Loaded.migrated # {}) /\ Mig!Plan(p) = {}
  <2>1. Mig!Exit(p)
    BY <1>4
  <2>2. Mig!TypeOK'
    BY <1>2, <2>1, ExitEffect DEF Mig!counts
  <2> QED BY <1>2, <2>1, <2>2
<1>5. CASE ~(cmd[p] = "reset" /\ Mig!Loaded.migrated # {}) /\ Mig!Plan(p) # {}
  <2>1. /\ mem' = [mem EXCEPT ![p] = Mig!Loaded] /\ todo' = [todo EXCEPT ![p] = Mig!Plan(p)]
        /\ batch' = [batch EXCEPT ![p] = Mig!LastBatch(Mig!Loaded) + 1]
        /\ Mig!GoTo(p, "run") /\ UNCHANGED <<cmd, steps, file>>
    BY <1>5
  <2>2. Plans(p)
    BY <1>1, <1>5, <2>1 DEF Plans, Mig!GoTo
  <2>3. /\ mem' \in [Conns -> Mig!Data] /\ todo' \in [Conns -> SUBSET Nat]
             /\ batch' \in [Conns -> Nat]
        /\ pc' \in [Conns -> {"idle", "load", "run", "reload", "drop", "save", "write"}]
    BY <1>1, <2>1 DEF Mig!GoTo
  <2>4. Mig!TypeOK'
    BY <1>2, <2>1, <2>3 DEF Mig!counts
  <2> QED BY <1>2, <2>2, <2>4
<1> QED BY <1>3, <1>4, <1>5

Finished(p, f, d) ==
  /\ mem'[p] = d /\ file'[p] = f /\ todo'[p] = todo[p] \ {f} /\ pc'[p] = "save"
  /\ cmd'[p] = cmd[p] /\ batch'[p] = batch[p]
  /\ UNCHANGED <<present, deploy, writer, Mig!history, Mig!counts>>

LEMMA DoneEffect ==
  ASSUME Mig!TypeOK, NEW p \in Conns, NEW f \in Nat, NEW d \in Mig!Data, Mig!Done(p, f, d)
  PROVE  /\ Finished(p, f, d)
         /\ mem' \in [Conns -> Mig!Data] /\ file' \in [Conns -> Nat]
              /\ todo' \in [Conns -> SUBSET Nat]
         /\ pc' \in [Conns -> {"idle", "load", "run", "reload", "drop", "save", "write"}]
         /\ UNCHANGED <<present, deploy, writer, cmd, steps, batch, Mig!history, Mig!counts>>
BY DEF Mig!TypeOK, Mig!Done, Mig!GoTo, Finished

\* A table is added, or the tables of F go.
Added(f) ==
  /\ tables' = tables \cup {[file |-> f, after |-> Mig!FilesOf(tables)]}
  /\ Mig!FilesOf(tables') = Mig!FilesOf(tables) \cup {f}
TablesOk ==
  /\ tables' \in SUBSET Tables
  /\ \A t, u \in tables' : t.file = u.file => t = u
\* An entry is added to the record, or that of f goes.
Recorded(d, f, b, n) ==
  /\ n.migrated = d.migrated \cup {[file |-> f, batch |-> b, after |-> Mig!Migrated(d)]}
  /\ Mig!Migrated(n) = Mig!Migrated(d) \cup {f}
  /\ Mig!Order(n.migrated) = Mig!Order(d.migrated) \cup {[file |-> f, after |-> Mig!Migrated(d)]}
Dropped(F) ==
  /\ tables' = {[file |-> t.file, after |-> t.after \ F] : t \in {t \in tables : t.file \notin F}}
  /\ Mig!FilesOf(tables') = Mig!FilesOf(tables) \ F
Removed(d, f, n) ==
  /\ n.migrated = {[file |-> e.file, batch |-> e.batch, after |-> e.after \ {f}] :
                     e \in {e \in d.migrated : e.file # f}}
  /\ Mig!Migrated(n) = Mig!Migrated(d) \ {f}
  /\ Mig!Order(n.migrated) = {[file |-> t.file, after |-> t.after \ {f}] :
                            t \in {t \in Mig!Order(d.migrated) : t.file # f}}

\* up() makes the table of f, or finds what is to do done.
Makes(f) == f \notin Backfills \cup Mig!FilesOf(tables) /\ Added(f)
Takes(f) == f \in Idempotent /\ f \in Backfills \cup Mig!FilesOf(tables) /\ UNCHANGED tables

LEMMA CreateEffect ==
  ASSUME Mig!TypeOK, NEW f \in Mig!AllMigrations, Mig!Create(f)
  PROVE  (Makes(f) \/ Takes(f)) /\ TablesOk
PROOF
<1>1. tables \in SUBSET Tables /\ \A t, u \in tables : t.file = u.file => t = u
  BY DEF Mig!TypeOK, Tables
<1>2. CASE f \in Backfills \cup Mig!FilesOf(tables)
  <2>1. Takes(f)
    BY <1>2, DatabaseAssumption DEF Mig!Create, Takes
  <2> QED BY <1>1, <2>1 DEF Takes, TablesOk
<1>3. CASE f \notin Backfills \cup Mig!FilesOf(tables)
  <2>1. tables' = Mig!With(tables, [file |-> f, after |-> {}])
    BY <1>3 DEF Mig!Create
  <2>2. Added(f) /\ TablesOk
    BY <1>1, <1>3, <2>1, TablesGrow DEF Added, TablesOk
  <2> QED BY <1>3, <2>2 DEF Makes
<1> QED BY <1>2, <1>3

LEMMA UpEffect ==
  ASSUME Mig!TypeOK, LocalOk, NEW p \in Conns, Mig!Up(p)
  PROVE  /\ pc[p] = "run" /\ cmd[p] = "migrate" /\ Mig!TypeOK'
         /\ \E f \in todo[p], n \in Mig!Data :
              /\ f \in Mig!AllMigrations /\ f \in present /\ \A g \in todo[p] : f <= g
              /\ Makes(f) \/ Takes(f)
              /\ Recorded(mem[p], f, batch[p], n) /\ Finished(p, f, n)
PROOF
<1> DEFINE e(f) == [file |-> f, batch |-> batch[p], after |-> {}]
           n(f) == [mem[p] EXCEPT !.migrated = Mig!With(@, e(f))]
<1>1. pc[p] = "run" /\ cmd[p] = "migrate" /\ UNCHANGED filled
  BY DEF Mig!Up
<1>2. PICK f \in Mig!First(p) : Mig!Create(f) /\ Mig!Done(p, f, n(f))
  BY DEF Mig!Up
<1>3. f \in todo[p] /\ f \in present /\ f \in Mig!AllMigrations /\ f \in Nat
        /\ \A g \in todo[p] : f <= g
  BY <1>1, <1>2 DEF Mig!First, Mig!IsFirst, LocalOk, PlanOk, Mig!TypeOK, Mig!AllMigrations
<1>4. mem[p] \in Mig!Data /\ mem[p].migrated \in SUBSET Mig!Entries /\ batch[p] \in Nat
  BY DataFields DEF Mig!TypeOK
<1> DEFINE N == Mig!With(mem[p].migrated, e(f))
<1>5. /\ N \in SUBSET Mig!Entries /\ Mig!FilesOf(N) = Mig!Migrated(mem[p]) \cup {f}
      /\ Mig!Order(N) = Mig!Order(mem[p].migrated) \cup {[file |-> f, after |-> Mig!Migrated(mem[p])]}
      /\ N = mem[p].migrated \cup {[file |-> f, batch |-> batch[p], after |-> Mig!Migrated(mem[p])]}
  <2> DEFINE M == mem[p].migrated
  <2>1. M \in SUBSET Mig!Entries /\ Mig!Migrated(mem[p]) = Mig!FilesOf(M)
    BY <1>4 DEF Mig!Migrated
  <2> HIDE DEF M
  <2>2. /\ Mig!With(M, e(f)) \in SUBSET Mig!Entries
             /\ Mig!FilesOf(Mig!With(M, e(f))) = Mig!FilesOf(M) \cup {f}
        /\ Mig!Order(Mig!With(M, e(f))) = Mig!Order(M) \cup {[file |-> f, after |-> Mig!FilesOf(M)]}
    BY <1>3, <1>4, <2>1, FilesAdded
  <2>3. Mig!With(M, e(f)) = M \cup {[file |-> f, batch |-> batch[p], after |-> Mig!FilesOf(M)]}
    BY <1>3, <1>4, <2>1, EntryAdded
  <2> QED BY <2>1, <2>2, <2>3 DEF M
<1> HIDE DEF N
<1>6. n(f) = [mem[p] EXCEPT !.migrated = N]
  BY DEF N
<1>7. n(f) \in Mig!Data /\ n(f).migrated = N
  <2>1. mem[p] \in Mig!Data /\ N \in SUBSET Mig!Entries
    BY <1>4, <1>5
  <2> HIDE DEF n
  <2> QED BY <1>6, <2>1, DataFields
<1>8. Recorded(mem[p], f, batch[p], n(f))
  BY <1>5, <1>7 DEF Recorded, Mig!Migrated
<1>9. /\ Finished(p, f, n(f))
      /\ mem' \in [Conns -> Mig!Data] /\ file' \in [Conns -> Nat] /\ todo' \in [Conns -> SUBSET Nat]
      /\ pc' \in [Conns -> {"idle", "load", "run", "reload", "drop", "save", "write"}]
      /\ UNCHANGED <<present, deploy, writer, cmd, steps, batch, Mig!history, Mig!counts>>
  BY <1>2, <1>3, <1>7, DoneEffect
<1>10. (Makes(f) \/ Takes(f)) /\ TablesOk
  BY <1>2, <1>3, CreateEffect
<1>11. Mig!TypeOK'
  BY <1>1, <1>9, <1>10 DEF Mig!TypeOK, TablesOk, Tables, Mig!history, Mig!counts
<1> HIDE DEF n
<1> QED BY <1>1, <1>3, <1>7, <1>8, <1>9, <1>10, <1>11

LEMMA DropEffect ==
  ASSUME Mig!TypeOK, NEW F, Mig!Drop(F)
  PROVE  Dropped(F) /\ TablesOk /\ filled' \subseteq filled
PROOF
<1>1. tables \in SUBSET Tables /\ \A t, u \in tables : t.file = u.file => t = u
  BY DEF Mig!TypeOK, Tables
<1>2. tables' = Mig!Without(tables, F) /\ filled' \subseteq filled
  BY DEF Mig!Drop
<1>3. tables' = {[file |-> t.file, after |-> t.after \ F] : t \in {t \in tables : t.file \notin F}}
  BY <1>1, <1>2, TablesLeft
<1>4. Mig!FilesOf(tables') = Mig!FilesOf(tables) \ F /\ TablesOk
  BY <1>1, <1>2, TablesShrink DEF TablesOk
<1> QED BY <1>2, <1>3, <1>4 DEF Dropped

LEMMA DownEffect ==
  ASSUME Mig!TypeOK, LocalOk, NEW p \in Conns, Mig!Down(p)
  PROVE  /\ pc[p] = "run" /\ cmd[p] = "rollback" /\ Mig!TypeOK'
         /\ \E f \in todo[p], n \in Mig!Data :
              /\ f \in Mig!Migrated(mem[p]) /\ f \in Mig!AllMigrations
              /\ \A e \in mem[p].migrated : e.file \in todo[p] => f \notin e.after
              /\ Dropped({f}) /\ Removed(mem[p], f, n) /\ Finished(p, f, n)
PROOF
<1> DEFINE n(f) == [mem[p] EXCEPT !.migrated = Mig!Without(@, {f})]
<1>1. pc[p] = "run" /\ cmd[p] = "rollback"
  BY DEF Mig!Down
<1>2. PICK f \in Mig!First(p) : Mig!Drop({f}) /\ Mig!Done(p, f, n(f))
  BY DEF Mig!Down
<1>3. f \in todo[p] /\ f \in Mig!Migrated(mem[p])
        /\ \A e \in mem[p].migrated : e.file \in todo[p] => f \notin e.after
  BY <1>1, <1>2 DEF Mig!First, Mig!IsFirst, LocalOk, PlanOk
<1>4. mem[p] \in Mig!Data /\ mem[p].migrated \in SUBSET Mig!Entries
  BY DataFields DEF Mig!TypeOK
<1>5. f \in Mig!AllMigrations /\ f \in Nat
  BY <1>3, <1>4 DEF Mig!Migrated, Mig!FilesOf, Mig!Entries, Mig!AllMigrations
<1> DEFINE N == Mig!Without(mem[p].migrated, {f})
<1>6. /\ N \in SUBSET Mig!Entries /\ Mig!FilesOf(N) = Mig!Migrated(mem[p]) \ {f}
      /\ Mig!Order(N) = {[file |-> t.file, after |-> t.after \ {f}] :
                       t \in {t \in Mig!Order(mem[p].migrated) : t.file \notin {f}}}
      /\ N = {[file |-> e.file, batch |-> e.batch, after |-> e.after \ {f}] :
                       e \in {e \in mem[p].migrated : e.file \notin {f}}}
  <2> DEFINE M == mem[p].migrated
  <2>1. M \in SUBSET Mig!Entries /\ Mig!Migrated(mem[p]) = Mig!FilesOf(M)
    BY <1>4 DEF Mig!Migrated
  <2> HIDE DEF M
  <2>2. /\ Mig!Without(M, {f}) \in SUBSET Mig!Entries
             /\ Mig!FilesOf(Mig!Without(M, {f})) = Mig!FilesOf(M) \ {f}
        /\ Mig!Order(Mig!Without(M, {f})) = {[file |-> t.file, after |-> t.after \ {f}] :
                                       t \in {t \in Mig!Order(M) : t.file \notin {f}}}
    BY <2>1, FilesLeft
  <2>3. Mig!Without(M, {f}) = {[file |-> e.file, batch |-> e.batch, after |-> e.after \ {f}] :
                             e \in {e \in M : e.file \notin {f}}}
    BY <2>1, EntriesLeft
  <2> QED BY <2>1, <2>2, <2>3 DEF M
<1> HIDE DEF N
<1>7. n(f) = [mem[p] EXCEPT !.migrated = N]
  BY DEF N
<1>8. n(f) \in Mig!Data /\ n(f).migrated = N
  <2>1. mem[p] \in Mig!Data /\ N \in SUBSET Mig!Entries
    BY <1>4, <1>6
  <2> HIDE DEF n
  <2> QED BY <1>7, <2>1, DataFields
<1>9. Removed(mem[p], f, n(f))
  BY <1>6, <1>8 DEF Removed, Mig!Migrated
<1>10. /\ Finished(p, f, n(f))
       /\ mem' \in [Conns -> Mig!Data] /\ file' \in [Conns -> Nat] /\ todo' \in [Conns -> SUBSET Nat]
       /\ pc' \in [Conns -> {"idle", "load", "run", "reload", "drop", "save", "write"}]
       /\ UNCHANGED <<present, deploy, writer, cmd, steps, batch, Mig!history, Mig!counts>>
  BY <1>2, <1>5, <1>8, DoneEffect
<1>11. Dropped({f}) /\ TablesOk /\ filled' \subseteq filled
  BY <1>2, DropEffect
<1>12. Mig!TypeOK'
  BY <1>10, <1>11 DEF Mig!TypeOK, TablesOk, Tables, Mig!history, Mig!counts
<1> HIDE DEF n
<1> QED BY <1>1, <1>3, <1>5, <1>8, <1>9, <1>10, <1>11, <1>12

LEMMA SeedEffect ==
  ASSUME Mig!TypeOK, LocalOk, NEW p \in Conns, Mig!Seed(p)
  PROVE  /\ pc[p] = "run" /\ cmd[p] = "seed" /\ Mig!TypeOK' /\ UNCHANGED tables
         /\ \E f \in todo[p], n \in Mig!Data : n.migrated = mem[p].migrated /\ Finished(p, f, n)
PROOF
<1> DEFINE n(f) == [mem[p] EXCEPT !.seeded = @ \cup {f}]
<1>1. pc[p] = "run" /\ cmd[p] = "seed" /\ UNCHANGED tables
  BY DEF Mig!Seed
<1>2. PICK f \in Mig!First(p) : filled' = filled \cup {f} /\ Mig!Done(p, f, n(f))
  BY DEF Mig!Seed
<1>3. f \in todo[p] /\ f \in Seeders /\ f \in Nat
  BY <1>1, <1>2, DatabaseAssumption DEF Mig!First, LocalOk, PlanOk
<1>4. n(f) \in Mig!Data /\ n(f).migrated = mem[p].migrated
  <2>1. mem[p] \in Mig!Data /\ mem[p].seeded \cup {f} \in SUBSET Seeders
    BY <1>3, DataFields DEF Mig!TypeOK
  <2> QED BY <2>1, DataFields
<1>5. /\ Finished(p, f, n(f))
      /\ mem' \in [Conns -> Mig!Data] /\ file' \in [Conns -> Nat] /\ todo' \in [Conns -> SUBSET Nat]
      /\ pc' \in [Conns -> {"idle", "load", "run", "reload", "drop", "save", "write"}]
      /\ UNCHANGED <<present, deploy, writer, cmd, steps, batch, Mig!history, Mig!counts>>
  BY <1>2, <1>3, <1>4, DoneEffect
<1>6. Mig!TypeOK'
  BY <1>1, <1>2, <1>3, <1>5 DEF Mig!TypeOK, Mig!history, Mig!counts
<1> HIDE DEF n
<1> QED BY <1>1, <1>3, <1>4, <1>5, <1>6

LEMMA DropAllEffect ==
  ASSUME Mig!TypeOK, NEW p \in Conns, Mig!DropAll(p)
  PROVE  /\ pc[p] = "drop" /\ pc'[p] = "save" /\ Mig!TypeOK' /\ tables' = {}
         /\ UNCHANGED <<present, deploy, writer, cmd, mem, batch, todo, file, Mig!history, Mig!counts>>
PROOF
<1>1. TablesOk /\ filled' \subseteq filled /\ tables' = {}
  <2>1. Mig!Drop(Mig!FilesOf(tables)) /\ tables \in SUBSET Tables
    BY DEF Mig!DropAll, Mig!TypeOK, Tables
  <2>2. tables' = {}
    BY <2>1, NothingLeft DEF Mig!Drop
  <2> QED BY <2>1, <2>2, DropEffect
<1>2. /\ pc[p] = "drop" /\ pc' = [pc EXCEPT ![p] = "save"]
      /\ UNCHANGED <<present, deploy, writer, cmd, steps, mem, batch, todo, file, Mig!history, Mig!counts>>
  BY DEF Mig!DropAll, Mig!GoTo
<1>3. Mig!TypeOK'
  BY <1>1, <1>2 DEF Mig!TypeOK, TablesOk, Tables, Mig!history, Mig!counts
<1> QED BY <1>1, <1>2, <1>3 DEF Mig!TypeOK

LEMMA DropFailsEffect ==
  ASSUME Mig!TypeOK, NEW p \in Conns, Mig!DropFails(p)
  PROVE  /\ pc[p] = "drop" /\ Mig!Exit(p) /\ Mig!TypeOK'
         /\ UNCHANGED <<present, deploy, writer, cut, beside, Mig!counts>>
         /\ \E F \in SUBSET Mig!FilesOf(tables) : Dropped(F) /\ lost' = lost \cup F
PROOF
<1>1. PICK F \in SUBSET Mig!FilesOf(tables) : Mig!Drop(F) /\ lost' = lost \cup F
  BY DEF Mig!DropFails
<1>2. Dropped(F) /\ TablesOk /\ filled' \subseteq filled
  BY <1>1, DropEffect
<1>3. pc[p] = "drop" /\ Mig!Exit(p) /\ UNCHANGED <<present, deploy, writer, cut, beside, Mig!counts>>
  BY DEF Mig!DropFails
<1>4. Mig!FilesOf(tables) \subseteq Mig!AllMigrations
  BY DEF Mig!TypeOK, Mig!FilesOf
<1>5. lost' \subseteq Mig!AllMigrations
  BY <1>1, <1>4 DEF Mig!TypeOK
<1>6. Mig!TypeOK'
  BY <1>2, <1>3, <1>5, ExitEffect DEF Mig!TypeOK, TablesOk, Tables, Mig!counts
<1> QED BY <1>1, <1>2, <1>3, <1>6

LEMMA FailsEffect ==
  ASSUME Mig!TypeOK, NEW p \in Conns, Mig!Fails(p)
  PROVE  /\ pc[p] = "run" /\ Mig!Exit(p) /\ Mig!TypeOK'
         /\ UNCHANGED <<present, tables, deploy, writer, Mig!history, Mig!counts>>
BY ExitEffect DEF Mig!Fails, Mig!TypeOK, Mig!history, Mig!counts

\* What a file has left half done is lost; a seeder has no table.
HalfDone(f) ==
  /\ lost' = lost \cup {f} /\ f \in Mig!AllMigrations
  /\ \/ Mig!FilesOf(tables') \subseteq Mig!FilesOf(tables) \cup {f}
        /\ Mig!FilesOf(tables) \subseteq Mig!FilesOf(tables')
     \/ Mig!FilesOf(tables') = Mig!FilesOf(tables) \ {f}

LEMMA PartlyFailsEffect ==
  ASSUME Mig!TypeOK, LocalOk, NEW p \in Conns, Mig!PartlyFails(p)
  PROVE  /\ pc[p] = "run" /\ Mig!Exit(p) /\ Mig!TypeOK'
         /\ UNCHANGED <<present, deploy, writer, cut, beside, Mig!counts>>
         /\ UNCHANGED <<tables, lost>> \/ \E f \in todo[p] : HalfDone(f)
PROOF
<1>1. pc[p] = "run" /\ Mig!Exit(p) /\ UNCHANGED <<present, deploy, writer, cut, beside, Mig!counts>>
  BY DEF Mig!PartlyFails
<1>2. PICK f \in todo[p] :
        \/ cmd[p] = "migrate" /\ Mig!Create(f) /\ lost' = lost \cup {f} /\ UNCHANGED filled
        \/ cmd[p] = "rollback" /\ Mig!Drop({f}) /\ lost' = lost \cup {f}
        \/ cmd[p] = "seed" /\ filled' = filled \cup {f} /\ UNCHANGED <<tables, lost>>
  BY DEF Mig!PartlyFails, Mig!First
<1>3. CASE cmd[p] = "seed"
  <2>1. filled' = filled \cup {f} /\ UNCHANGED <<tables, lost>> /\ f \in Seeders
    BY <1>2, <1>3 DEF LocalOk, PlanOk
  <2>2. Mig!TypeOK'
    BY <1>1, <2>1, ExitEffect DEF Mig!TypeOK, Mig!counts
  <2> QED BY <1>1, <2>1, <2>2
<1>4. CASE cmd[p] = "migrate"
  <2>1. Mig!Create(f) /\ lost' = lost \cup {f} /\ filled' = filled
    BY <1>2, <1>4
  <2>2. f \in Mig!AllMigrations
    BY <1>4 DEF LocalOk, PlanOk, Mig!TypeOK
  <2>3. (Makes(f) \/ Takes(f)) /\ TablesOk
    BY <2>1, <2>2, CreateEffect
  <2>4. HalfDone(f)
    BY <2>1, <2>2, <2>3 DEF HalfDone, Makes, Takes, Added
  <2>5. Mig!TypeOK'
    BY <1>1, <2>1, <2>2, <2>3, ExitEffect DEF Mig!TypeOK, TablesOk, Tables, Mig!counts
  <2> QED BY <1>1, <2>4, <2>5
<1>5. CASE cmd[p] = "rollback"
  <2>1. Mig!Drop({f}) /\ lost' = lost \cup {f}
    BY <1>2, <1>5
  <2>2. f \in Mig!AllMigrations
    BY <1>5, DataFields DEF LocalOk, PlanOk, Mig!TypeOK, Mig!Migrated, Mig!FilesOf, Mig!Entries
  <2>3. Dropped({f}) /\ TablesOk /\ filled' \subseteq filled
    BY <2>1, DropEffect
  <2>4. HalfDone(f)
    BY <2>1, <2>2, <2>3 DEF HalfDone, Dropped
  <2>5. Mig!TypeOK'
    BY <1>1, <2>1, <2>2, <2>3, ExitEffect DEF Mig!TypeOK, TablesOk, Tables, Mig!counts
  <2> QED BY <1>1, <2>4, <2>5
<1> QED BY <1>2, <1>3, <1>4, <1>5

LEMMA TruncateEffect ==
  ASSUME Mig!TypeOK, NEW p \in Conns, Mig!Truncate(p)
  PROVE  /\ pc[p] = "save" /\ pc'[p] = "write" /\ writer = None /\ writer' = p
              /\ deploy' = Empty /\ Mig!TypeOK'
         /\ UNCHANGED <<present, tables, cmd, mem, batch, todo, file, Mig!history, Mig!counts>>
BY DEF Mig!Truncate, Mig!TypeOK, Mig!GoTo, Mig!history, Mig!counts

\* After a save the process is over, has a file to do, or goes on as migrate.
Moves(p) ==
  /\ cmd[p] # "fresh" /\ todo[p] # {} /\ cmd'[p] = cmd[p]
  /\ mem'[p] = mem[p] /\ batch'[p] = batch[p] /\ todo'[p] = todo[p]
  /\ pc'[p] = IF cmd[p] = "seed" THEN "reload" ELSE "run"
Migrates(p) ==
  /\ cmd[p] = "fresh" /\ cmd'[p] = "migrate" /\ pc'[p] = "load"
  /\ mem'[p] = mem[p] /\ batch'[p] = batch[p] /\ todo'[p] = todo[p]

LEMMA SaveEffect ==
  ASSUME Mig!TypeOK, NEW p \in Conns, Mig!Save(p)
  PROVE  /\ pc[p] = "write" /\ deploy' = mem[p] /\ writer' = None /\ Mig!TypeOK'
         /\ UNCHANGED <<present, tables, Mig!history, Mig!counts>>
         /\ Moves(p) \/ Migrates(p) \/ Mig!Exit(p)
PROOF
<1>1. /\ pc[p] = "write" /\ deploy' = mem[p] /\ writer' = None
      /\ UNCHANGED <<present, tables, filled, Mig!history, Mig!counts>> /\ Mig!GoOn(p)
  BY DEF Mig!Save
<1>2. deploy' \in Mig!Data \cup {Empty} /\ writer' \in Conns \cup {None}
        /\ (writer' # None => deploy' = Empty)
  BY <1>1 DEF Mig!TypeOK
<1>3. CASE cmd[p] = "fresh"
  <2>1. Migrates(p)
    BY <1>1, <1>3 DEF Mig!GoOn, Migrates, Mig!GoTo, Mig!TypeOK
  <2>2. Mig!TypeOK'
    BY <1>1, <1>2, <1>3 DEF Mig!GoOn, Mig!GoTo, Mig!TypeOK, Mig!AllCommands, Mig!history, Mig!counts
  <2> QED BY <1>1, <2>1, <2>2
<1>4. CASE cmd[p] # "fresh" /\ todo[p] = {}
  <2>1. Mig!Exit(p)
    BY <1>1, <1>4 DEF Mig!GoOn
  <2>2. Mig!TypeOK'
    BY <1>1, <1>2, <2>1, ExitEffect DEF Mig!TypeOK, Mig!history, Mig!counts
  <2> QED BY <1>1, <2>1, <2>2
<1>5. CASE cmd[p] # "fresh" /\ todo[p] # {}
  <2>1. Moves(p)
    BY <1>1, <1>5 DEF Mig!GoOn, Moves, Mig!GoTo, Mig!TypeOK
  <2>2. Mig!TypeOK'
    BY <1>1, <1>2, <1>5 DEF Mig!GoOn, Mig!GoTo, Mig!TypeOK, Mig!history, Mig!counts
  <2> QED BY <1>1, <2>1, <2>2
<1> QED BY <1>3, <1>4, <1>5

Rereads(p) == pc'[p] = "run" /\ mem'[p] = Mig!Loaded /\ cmd'[p] = cmd[p] /\ todo'[p] = todo[p]
  /\ todo[p] # {}
Skips(p) == pc'[p] = "reload" /\ mem'[p] = mem[p] /\ cmd'[p] = cmd[p] /\ todo'[p] \subseteq todo[p]

LEMMA ReloadEffect ==
  ASSUME Mig!TypeOK, NEW p \in Conns, Mig!Reload(p)
  PROVE  /\ pc[p] = "reload" /\ Mig!TypeOK'
         /\ UNCHANGED <<present, tables, deploy, writer, Mig!history, Mig!counts>>
         /\ Rereads(p) \/ Skips(p) \/ Mig!Exit(p)
PROOF
<1>1. pc[p] = "reload"
        /\ UNCHANGED <<present, tables, filled, deploy, writer, Mig!history, Mig!counts>>
  BY DEF Mig!Reload
<1>2. PICK f \in Mig!First(p) :
        IF f \notin Mig!Loaded.seeded
        THEN Mig!GoTo(p, "run") /\ mem' = [mem EXCEPT ![p] = Mig!Loaded]
               /\ UNCHANGED <<cmd, steps, batch, todo, file>>
        ELSE IF todo[p] = {f} THEN Mig!Exit(p)
        ELSE todo' = [todo EXCEPT ![p] = @ \ {f}] /\ UNCHANGED <<pc, mem, cmd, steps, batch, file>>
  BY DEF Mig!Reload
<1>3. f \in todo[p] /\ Mig!Loaded \in Mig!Data
  BY <1>2, LoadedIsData DEF Mig!First
<1>4. CASE f \notin Mig!Loaded.seeded
  <2>1. Rereads(p)
    BY <1>2, <1>3, <1>4 DEF Rereads, Mig!GoTo, Mig!TypeOK
  <2>2. Mig!TypeOK'
    BY <1>1, <1>2, <1>3, <1>4 DEF Mig!GoTo, Mig!TypeOK, Mig!history, Mig!counts
  <2> QED BY <1>1, <2>1, <2>2
<1>5. CASE f \in Mig!Loaded.seeded /\ todo[p] = {f}
  <2>1. Mig!Exit(p)
    BY <1>2, <1>5
  <2>2. Mig!TypeOK'
    BY <1>1, <2>1, ExitEffect DEF Mig!TypeOK, Mig!history, Mig!counts
  <2> QED BY <1>1, <2>1, <2>2
<1>6. CASE f \in Mig!Loaded.seeded /\ todo[p] # {f}
  <2>1. Skips(p)
    BY <1>1, <1>2, <1>6 DEF Skips, Mig!TypeOK
  <2>2. Mig!TypeOK'
    BY <1>1, <1>2, <1>6 DEF Mig!TypeOK, Mig!history, Mig!counts
  <2> QED BY <1>1, <2>1, <2>2
<1> QED BY <1>4, <1>5, <1>6

\* What a killed process had in hand is not recorded.
InHand(p) == IF cmd[p] = "seed" THEN {} ELSE IF cmd[p] = "fresh" THEN Mig!AllMigrations ELSE {file[p]}

LEMMA KilledEffect ==
  ASSUME Mig!TypeOK, LocalOk, NEW p \in Conns, Mig!Killed(p)
  PROVE  /\ pc[p] # "idle" /\ Mig!Exit(p) /\ Mig!TypeOK'
         /\ lost' = lost \cup (IF Saving(p) THEN InHand(p) ELSE {})
         /\ cut' = (cut \/ pc[p] = "write") /\ writer' = IF writer = p THEN None ELSE writer
         /\ UNCHANGED <<present, tables, deploy, beside>>
PROOF
<1>1. /\ pc[p] # "idle" /\ Mig!Exit(p) /\ kills < MaxKills /\ kills' = kills + 1
      /\ UNCHANGED <<present, tables, filled, deploy, beside, commands>>
      /\ cut' = (cut \/ pc[p] = "write")
  BY DEF Mig!Killed
<1>2. writer' = IF writer = p THEN None ELSE writer
  BY DEF Mig!Killed
<1>3. lost' = lost \cup (IF Saving(p) THEN InHand(p) ELSE {})
  BY DEF Mig!Killed, Saving, InHand
<1>4. lost' \subseteq Mig!AllMigrations
  BY <1>3 DEF InHand, Mig!TypeOK, LocalOk, PlanOk
<1>5. kills' \in 0..MaxKills
  BY <1>1, DatabaseAssumption DEF Mig!TypeOK
<1>6. cut' \in BOOLEAN
  BY <1>1
<1>7. writer' \in Conns \cup {None} /\ (writer' # None => deploy' = Empty)
  BY <1>1, <1>2 DEF Mig!TypeOK
<1>8. Mig!TypeOK'
  BY <1>1, <1>4, <1>5, <1>6, <1>7, ExitEffect DEF Mig!TypeOK
<1> QED BY <1>1, <1>2, <1>3, <1>8

LEMMA BeginEffect ==
  ASSUME Mig!TypeOK, LocalOk, NEW p \in Conns, NEW c \in Commands, Mig!Begin(p, c)
  PROVE  /\ pc[p] = "idle" /\ cmd'[p] = c /\ pc'[p] = IF c = "fresh" THEN "drop" ELSE "load"
         /\ c \in Mig!AllCommands /\ Mig!TypeOK'
         /\ beside' = beside \cup (IF Mig!Running = {} THEN {} ELSE {c} \cup {cmd[q]
              : q \in Mig!Running}) \cup Mig!Repeatable(UNION {todo[q] : q \in Mig!Running})
         /\ UNCHANGED <<present, tables, deploy, writer, mem, batch, todo, file, lost, cut>>
PROOF
<1>1. c \in Mig!AllCommands /\ MaxSteps \in Nat /\ MaxCommands \in Nat
  BY DatabaseAssumption
<1>2. /\ pc[p] = "idle" /\ cmd' = [cmd EXCEPT ![p] = c]
      /\ pc' = [pc EXCEPT ![p] = IF c = "fresh" THEN "drop" ELSE "load"]
      /\ beside' = beside \cup (IF Mig!Running = {} THEN {} ELSE {c} \cup {cmd[q]
           : q \in Mig!Running}) \cup Mig!Repeatable(UNION {todo[q] : q \in Mig!Running})
      /\ UNCHANGED <<present, tables, filled, deploy, writer, mem, batch, todo, file, lost, cut, kills>>
  BY DEF Mig!Begin, Mig!GoTo
<1>3. commands' \in 0..MaxCommands
  BY <1>1 DEF Mig!Begin, Mig!TypeOK
<1>4. steps' \in [Conns -> Nat]
  <2>1. CASE c = "rollback"
    <3>1. PICK s \in 1..MaxSteps : steps' = [steps EXCEPT ![p] = s]
      BY <2>1 DEF Mig!Begin
    <3> QED BY <3>1, <1>1 DEF Mig!TypeOK
  <2>2. CASE c # "rollback"
    BY <2>2 DEF Mig!Begin, Mig!TypeOK
  <2> QED BY <2>1, <2>2
<1>5. beside' \subseteq Mig!AllCommands \cup {"idempotent"}
  <2>1. \A q \in Mig!Running : cmd[q] \in Mig!AllCommands
    BY DEF Mig!Running, LocalOk, PlanOk, Mig!TypeOK
  <2>2. Mig!Repeatable(UNION {todo[q] : q \in Mig!Running}) \subseteq {"idempotent"}
    BY DEF Mig!Repeatable
  <2> QED BY <1>1, <1>2, <2>1, <2>2 DEF Mig!TypeOK
<1>6. cmd' \in [Conns -> Mig!AllCommands \cup {None}] /\ cmd'[p] = c
  BY <1>1, <1>2 DEF Mig!TypeOK
<1>7. pc' \in [Conns -> {"idle", "load", "run", "reload", "drop", "save", "write"}]
      /\ pc'[p] = IF c = "fresh" THEN "drop" ELSE "load"
  BY <1>2 DEF Mig!TypeOK
<1>8. Mig!TypeOK'
  BY <1>2, <1>3, <1>4, <1>5, <1>6, <1>7 DEF Mig!TypeOK
<1> QED BY <1>1, <1>2, <1>6, <1>7, <1>8

-----------------------------------------------------------------------------
(* The local parts of the invariant.                                         *)

LEMMA NothingIsKept == WellKept(Mig!Nothing)
BY DataFields DEF WellKept

LEMMA KeptRecorded ==
  ASSUME NEW d \in Mig!Data, NEW n \in Mig!Data, NEW f, NEW b \in Nat, WellKept(d), Recorded(d,
         f, b, n),
         f \notin Mig!Migrated(d), \A e \in d.migrated : e.batch <= b
  PROVE  WellKept(n) /\ \A e \in n.migrated : e.batch <= b
PROOF
<1> DEFINE x == [file |-> f, batch |-> b, after |-> Mig!Migrated(d)]
<1>1. n.migrated = d.migrated \cup {x} /\ Mig!Migrated(n) = Mig!Migrated(d) \cup {f}
  BY DEF Recorded
<1>2. x.file = f /\ x.batch = b /\ x.after = Mig!Migrated(d)
  OBVIOUS
<1> HIDE DEF x
<1>3. \A e \in d.migrated : e.after \subseteq Mig!Migrated(d) \ {e.file} /\ e.file \in Mig!Migrated(d)
  BY DEF WellKept, Mig!Migrated, Mig!FilesOf
<1>4. \A e \in n.migrated : e.batch <= b
  BY <1>1, <1>2
<1>5. \A e \in n.migrated : e.after \subseteq Mig!Migrated(n) \ {e.file}
  BY <1>1, <1>2, <1>3
<1>6. ASSUME NEW e \in n.migrated, NEW g \in n.migrated, e.file \in g.after PROVE e.batch <= g.batch
  <2>1. CASE g = x
    BY <2>1, <1>2, <1>4
  <2>2. CASE g \in d.migrated /\ e = x
    BY <2>2, <1>2, <1>3, <1>6
  <2>3. CASE g \in d.migrated /\ e \in d.migrated
    BY <2>3, <1>6 DEF WellKept
  <2> QED BY <1>1, <2>1, <2>2, <2>3
<1> QED BY <1>4, <1>5, <1>6 DEF WellKept

LEMMA KeptRemoved ==
  ASSUME NEW d \in Mig!Data, NEW n \in Mig!Data, NEW f, WellKept(d), Removed(d, f, n)
  PROVE  /\ WellKept(n)
         /\ \A e \in n.migrated : \E g \in d.migrated :
              g.file # f /\ e.file = g.file /\ e.batch = g.batch /\ e.after = g.after \ {f}
PROOF
<1> DEFINE x(e) == [file |-> e.file, batch |-> e.batch, after |-> e.after \ {f}]
<1>1. n.migrated = {x(e) : e \in {e \in d.migrated : e.file # f}}
        /\ Mig!Migrated(n) = Mig!Migrated(d) \ {f}
  BY DEF Removed
<1>2. \A e : x(e).file = e.file /\ x(e).batch = e.batch /\ x(e).after = e.after \ {f}
  OBVIOUS
<1> HIDE DEF x
<1>3. \A e \in n.migrated : \E g \in d.migrated :
        g.file # f /\ e.file = g.file /\ e.batch = g.batch /\ e.after = g.after \ {f}
  BY <1>1, <1>2
<1>4. \E k \in Nat : \A e \in n.migrated : e.batch <= k
  BY <1>3 DEF WellKept
<1>5. \A e \in n.migrated : e.after \subseteq Mig!Migrated(n) \ {e.file}
  <2>1. \A g \in d.migrated : g.after \subseteq Mig!Migrated(d) \ {g.file}
    BY DEF WellKept
  <2> QED BY <1>1, <1>3, <2>1
<1>6. \A e, g \in n.migrated : e.file \in g.after => e.batch <= g.batch
  BY <1>3 DEF WellKept
<1> QED BY <1>3, <1>4, <1>5, <1>6 DEF WellKept

LEMMA WriterMoves ==
  ASSUME Mig!TypeOK, LocalOk, NEW p \in Conns, Work(p)
  PROVE  \A q \in Conns : q # p => (writer' = q <=> writer = q)
PROOF
<1>1. None \notin Conns
  BY DatabaseAssumption
<1>2. pc[p] = "write" => writer = p
  BY DEF LocalOk, PlanOk
<1>3. writer' = writer \/ (writer = None /\ writer' = p) \/ (writer = p /\ writer' = None)
  BY <1>2
     DEF Work, Mig!Load, Mig!DropAll, Mig!DropFails, Mig!Up, Mig!Down, Mig!Seed, Mig!Fails,
     Mig!PartlyFails, Mig!Truncate, Mig!Save, Mig!Reload, Mig!Killed,
       Mig!Begin, Mig!Done
<1> QED BY <1>1, <1>3

LEMMA OthersLocal ==
  ASSUME Mig!TypeOK, LocalOk, NEW p \in Conns, Work(p), NEW q \in Conns, q # p
  PROVE  PlanOk(q)' /\ MemOk(q)'
PROOF
<1>1. present' = present /\ Same(q) /\ (writer' = q <=> writer = q)
  BY OthersStay, WriterMoves
<1>2. PlanOk(q) /\ MemOk(q)
  BY DEF LocalOk
<1>3. PlanOk(q)'
  BY <1>1, <1>2 DEF PlanOk, Same, Saving
<1>4. MemOk(q)'
  BY <1>1, <1>2 DEF MemOk, Same, Saving
<1> QED BY <1>3, <1>4

LEMMA ExitLocal ==
  ASSUME Mig!TypeOK, NEW p \in Conns, Mig!Exit(p), writer' # p
  PROVE  PlanOk(p)' /\ MemOk(p)'
PROOF
<1>1. pc'[p] = "idle" /\ cmd'[p] = None /\ mem'[p] = Mig!Nothing /\ todo'[p] = {}
  BY ExitEffect
<1>2. None \notin {"fresh", "migrate", "rollback", "seed"}
  BY DatabaseAssumption DEF Mig!AllCommands
<1>3. PlanOk(p)'
  BY <1>1, <1>2 DEF PlanOk, Saving
<1>4. WellKept(mem'[p])
  BY <1>1, NothingIsKept
<1>5. MemOk(p)'
  BY <1>1, <1>2, <1>4 DEF MemOk, Saving
<1> QED BY <1>3, <1>5

LEMMA LoadLocal ==
  ASSUME Mig!TypeOK, LocalOk, NEW p \in Conns, Mig!Load(p)
  PROVE  PlanOk(p)' /\ MemOk(p)' /\ WellKept(Mig!Loaded)'
PROOF
<1>1. /\ pc[p] = "load"
      /\ UNCHANGED <<present, tables, filled, deploy, writer, lost, cut, Mig!counts>>
      /\ Turns(p) \/ Plans(p) \/ Mig!Exit(p)
  BY LoadEffect
<1>2. PlanOk(p) /\ MemOk(p) /\ WellKept(Mig!Loaded)
  BY DEF LocalOk
<1>3. Mig!Loaded' = Mig!Loaded
  BY <1>1 DEF Mig!Loaded
<1>4. writer' # p /\ cmd[p] # "fresh" /\ cmd[p] # None /\ todo[p] = {}
  BY <1>1, <1>2 DEF PlanOk
<1>5. CASE Turns(p)
  <2>1. PlanOk(p)'
    BY <1>1, <1>2, <1>4, <1>5, DatabaseAssumption DEF Turns, PlanOk, Saving, Mig!AllCommands
  <2>2. MemOk(p)'
    BY <1>1, <1>2, <1>4, <1>5 DEF Turns, MemOk, Saving
  <2> QED BY <1>2, <1>3, <2>1, <2>2
<1>6. CASE Plans(p)
  <2>1. /\ cmd[p] = "migrate" => Mig!Plan(p) = present \ Mig!Migrated(Mig!Loaded)
        /\ cmd[p] = "seed" => Mig!Plan(p) \subseteq Seeders
        /\ cmd[p] \notin {"migrate", "seed"} => Mig!Plan(p) = Mig!ToRollBack(Mig!Loaded, steps[p])
        /\ Mig!ToRollBack(Mig!Loaded, steps[p]) \subseteq Mig!Migrated(Mig!Loaded)
    BY PlanFacts
  <2>2. /\ todo'[p] = Mig!Plan(p) /\ cmd'[p] = cmd[p] /\ Mig!Plan(p) # {}
        /\ mem'[p] = Mig!Loaded /\ batch'[p] = Mig!LastBatch(Mig!Loaded) + 1 /\ pc'[p] = "run"
    BY <1>6 DEF Plans
  <2>3. cmd[p] \in {"migrate", "rollback", "seed"}
    <3>1. cmd[p] = "reset" => Mig!Loaded.migrated = {}
      BY <1>1, <2>2, DatabaseAssumption DEF Mig!Load, Mig!GoTo, Mig!TypeOK, Mig!AllCommands
    <3>2. cmd[p] = "reset" => Mig!Plan(p) = {}
      BY <3>1, <2>1 DEF Mig!Migrated, Mig!FilesOf
    <3> QED BY <1>4, <2>2, <3>2 DEF Mig!TypeOK, Mig!AllCommands
  <2>4. PlanOk(p)'
    BY <1>1, <1>4, <2>1, <2>2, <2>3 DEF PlanOk, Saving
  <2>5. ASSUME NEW e \in Mig!Loaded.migrated, NEW g \in Mig!Loaded.migrated, cmd[p] = "rollback",
               e.file \in Mig!Plan(p), e.file \in g.after
        PROVE  g.file \in Mig!Plan(p)
    <3>1. /\ Mig!Loaded \in Mig!Data /\ Mig!LastBatch(Mig!Loaded) \in Nat /\ steps[p] \in Nat
          /\ \A x \in Mig!Loaded.migrated : x.batch \in Nat
      BY <1>2, LoadedIsData, LastBatchFacts DEF Mig!TypeOK
    <3>2. PICK x \in Mig!Loaded.migrated : x.file = e.file
                 /\ Mig!LastBatch(Mig!Loaded) < x.batch + steps[p]
      BY <2>1, <2>5 DEF Mig!ToRollBack, Mig!FilesOf
    <3>3. x.batch <= g.batch
      BY <1>2, <2>5, <3>2 DEF WellKept
    <3>4. Mig!LastBatch(Mig!Loaded) < g.batch + steps[p]
      BY <3>1, <3>2, <3>3
    <3> QED BY <2>1, <2>5, <3>4 DEF Mig!ToRollBack, Mig!FilesOf
  <2>6. \A e \in Mig!Loaded.migrated : e.batch <= Mig!LastBatch(Mig!Loaded) + 1
    <3>1. Mig!LastBatch(Mig!Loaded) \in Nat /\ \A e \in Mig!Loaded.migrated : e.batch \in Nat
            /\ e.batch <= Mig!LastBatch(Mig!Loaded)
      BY <1>2, LoadedIsData, LastBatchFacts
    <3> QED BY <3>1
  <2>7. MemOk(p)'
    BY <1>1, <1>2, <2>1, <2>2, <2>5, <2>6 DEF MemOk, Saving
  <2> QED BY <1>2, <1>3, <2>4, <2>7
<1>7. CASE Mig!Exit(p)
  BY <1>2, <1>3, <1>4, <1>7, ExitLocal
<1> QED BY <1>1, <1>5, <1>6, <1>7

LEMMA UpLocal ==
  ASSUME Mig!TypeOK, LocalOk, NEW p \in Conns, Mig!Up(p)
  PROVE  PlanOk(p)' /\ MemOk(p)'
PROOF
<1>1. pc[p] = "run" /\ cmd[p] = "migrate"
  BY UpEffect
<1>2. PICK f \in todo[p], n \in Mig!Data :
        /\ f \in Mig!AllMigrations /\ f \in present
        /\ Recorded(mem[p], f, batch[p], n) /\ Finished(p, f, n)
  BY UpEffect
<1>3. PlanOk(p) /\ MemOk(p) /\ mem[p] \in Mig!Data /\ batch[p] \in Nat
  BY DEF LocalOk, Mig!TypeOK
<1>4. /\ mem'[p] = n /\ file'[p] = f /\ todo'[p] = todo[p] \ {f} /\ pc'[p] = "save"
      /\ cmd'[p] = cmd[p] /\ batch'[p] = batch[p] /\ present' = present /\ writer' = writer
  BY <1>2 DEF Finished
<1>5. PlanOk(p)'
  BY <1>1, <1>2, <1>3, <1>4 DEF PlanOk, Saving
<1>6. todo[p] = present \ Mig!Migrated(mem[p]) /\ f \notin Mig!Migrated(mem[p])
  BY <1>1, <1>2, <1>3 DEF MemOk
<1>7. WellKept(n) /\ \A e \in n.migrated : e.batch <= batch[p]
  BY <1>1, <1>2, <1>3, <1>6, KeptRecorded DEF MemOk
<1>8. Mig!Migrated(n) = Mig!Migrated(mem[p]) \cup {f}
  BY <1>2 DEF Recorded
<1>9. MemOk(p)'
  BY <1>1, <1>4, <1>6, <1>7, <1>8 DEF MemOk
<1> QED BY <1>5, <1>9

LEMMA DownLocal ==
  ASSUME Mig!TypeOK, LocalOk, NEW p \in Conns, Mig!Down(p)
  PROVE  PlanOk(p)' /\ MemOk(p)'
PROOF
<1>1. pc[p] = "run" /\ cmd[p] = "rollback"
  BY DownEffect
<1>2. PICK f \in todo[p], n \in Mig!Data :
        f \in Mig!AllMigrations /\ Removed(mem[p], f, n) /\ Finished(p, f, n)
  BY DownEffect
<1>3. PlanOk(p) /\ MemOk(p) /\ mem[p] \in Mig!Data
  BY DEF LocalOk, Mig!TypeOK
<1>4. /\ mem'[p] = n /\ file'[p] = f /\ todo'[p] = todo[p] \ {f} /\ pc'[p] = "save"
      /\ cmd'[p] = cmd[p] /\ batch'[p] = batch[p] /\ present' = present /\ writer' = writer
  BY <1>2 DEF Finished
<1>5. Mig!Migrated(n) = Mig!Migrated(mem[p]) \ {f}
  BY <1>2 DEF Removed
<1>6. PlanOk(p)'
  BY <1>1, <1>2, <1>3, <1>4, <1>5 DEF PlanOk, Saving
<1>7. /\ WellKept(n)
      /\ \A e \in n.migrated : \E g \in mem[p].migrated :
           g.file # f /\ e.file = g.file /\ e.batch = g.batch /\ e.after = g.after \ {f}
  BY <1>2, <1>3, KeptRemoved DEF MemOk
<1>8. ASSUME NEW e \in n.migrated, NEW g \in n.migrated, e.file \in todo[p] \ {f},
             e.file \in g.after
      PROVE  g.file \in todo[p] \ {f}
  <2>1. PICK x \in mem[p].migrated : x.file = e.file
    BY <1>7
  <2>2. PICK y \in mem[p].migrated : y.file # f /\ y.file = g.file /\ g.after = y.after \ {f}
    BY <1>7
  <2> QED BY <1>1, <1>3, <1>8, <2>1, <2>2 DEF MemOk
<1>9. MemOk(p)'
  BY <1>1, <1>4, <1>7, <1>8 DEF MemOk
<1> QED BY <1>6, <1>9

LEMMA SeedLocal ==
  ASSUME Mig!TypeOK, LocalOk, NEW p \in Conns, Mig!Seed(p)
  PROVE  PlanOk(p)' /\ MemOk(p)'
PROOF
<1>1. pc[p] = "run" /\ cmd[p] = "seed"
  BY SeedEffect
<1>2. PICK f \in todo[p], n \in Mig!Data : n.migrated = mem[p].migrated /\ Finished(p, f, n)
  BY SeedEffect
<1>3. PlanOk(p) /\ MemOk(p)
  BY DEF LocalOk
<1>4. /\ mem'[p] = n /\ todo'[p] = todo[p] \ {f} /\ pc'[p] = "save"
      /\ cmd'[p] = cmd[p] /\ present' = present /\ writer' = writer
  BY <1>2 DEF Finished
<1>5. PlanOk(p)'
  BY <1>1, <1>3, <1>4 DEF PlanOk, Saving
<1>6. WellKept(n)
  BY <1>2, <1>3 DEF MemOk, WellKept, Mig!Migrated
<1>7. MemOk(p)'
  BY <1>1, <1>4, <1>6 DEF MemOk
<1> QED BY <1>5, <1>7

LEMMA SaveLocal ==
  ASSUME Mig!TypeOK, LocalOk, NEW p \in Conns, Mig!Save(p)
  PROVE  PlanOk(p)' /\ MemOk(p)' /\ WellKept(Mig!Loaded)'
PROOF
<1>1. /\ pc[p] = "write" /\ deploy' = mem[p] /\ writer' = None /\ present' = present
      /\ Moves(p) \/ Migrates(p) \/ Mig!Exit(p)
  BY SaveEffect
<1>2. PlanOk(p) /\ MemOk(p) /\ None # p
  BY DatabaseAssumption DEF LocalOk
<1>3. WellKept(Mig!Loaded)'
  <2>1. Mig!Loaded' = mem[p] \/ Mig!Loaded' = Mig!Nothing
    BY <1>1 DEF Mig!Loaded
  <2> QED BY <1>2, <2>1, NothingIsKept DEF MemOk
<1>4. CASE Moves(p)
  <2>1. PlanOk(p)'
    BY <1>1, <1>2, <1>4 DEF PlanOk, Moves, Saving
  <2>2. MemOk(p)'
    BY <1>1, <1>2, <1>4 DEF MemOk, Moves, Saving
  <2> QED BY <1>3, <2>1, <2>2
<1>5. CASE Migrates(p)
  <2>1. mem'[p] = Mig!Nothing /\ todo'[p] = {} /\ pc'[p] = "load" /\ cmd'[p] = "migrate"
    BY <1>2, <1>5 DEF PlanOk, Migrates
  <2>2. PlanOk(p)'
    BY <1>1, <1>2, <2>1, DatabaseAssumption DEF PlanOk, Saving, Mig!AllCommands
  <2>3. MemOk(p)'
    BY <2>1, NothingIsKept DEF MemOk, Saving
  <2> QED BY <1>3, <2>2, <2>3
<1>6. CASE Mig!Exit(p)
  BY <1>1, <1>2, <1>3, <1>6, ExitLocal
<1> QED BY <1>1, <1>4, <1>5, <1>6

LEMMA ReloadLocal ==
  ASSUME Mig!TypeOK, LocalOk, NEW p \in Conns, Mig!Reload(p)
  PROVE  PlanOk(p)' /\ MemOk(p)'
PROOF
<1>1. /\ pc[p] = "reload" /\ UNCHANGED <<present, tables, deploy, writer, Mig!history, Mig!counts>>
      /\ Rereads(p) \/ Skips(p) \/ Mig!Exit(p)
  BY ReloadEffect
<1>2. PlanOk(p) /\ MemOk(p) /\ WellKept(Mig!Loaded) /\ cmd[p] = "seed" /\ writer' # p
  BY <1>1 DEF LocalOk, PlanOk
<1>3. CASE Rereads(p)
  <2>1. PlanOk(p)'
    BY <1>1, <1>2, <1>3 DEF PlanOk, Rereads, Saving
  <2>2. MemOk(p)'
    BY <1>1, <1>2, <1>3 DEF MemOk, Rereads, Saving
  <2> QED BY <2>1, <2>2
<1>4. CASE Skips(p)
  <2>1. PlanOk(p)'
    BY <1>1, <1>2, <1>4 DEF PlanOk, Skips, Saving
  <2>2. MemOk(p)'
    BY <1>1, <1>2, <1>4 DEF MemOk, Skips, Saving
  <2> QED BY <2>1, <2>2
<1>5. CASE Mig!Exit(p)
  BY <1>2, <1>5, ExitLocal
<1> QED BY <1>1, <1>3, <1>4, <1>5

LEMMA WorkLocal ==
  ASSUME Mig!TypeOK, LocalOk, NEW p \in Conns, Work(p)
  PROVE  Mig!TypeOK' /\ LocalOk'
PROOF
<1>1. \A q \in Conns : q # p => PlanOk(q)' /\ MemOk(q)'
  BY OthersLocal
<1>2. PlanOk(p) /\ MemOk(p) /\ WellKept(Mig!Loaded) /\ None # p
  BY DatabaseAssumption DEF LocalOk
<1>3. deploy' = deploy => WellKept(Mig!Loaded)'
  BY <1>2 DEF Mig!Loaded
<1>4. SUFFICES Mig!TypeOK' /\ PlanOk(p)' /\ MemOk(p)' /\ WellKept(Mig!Loaded)'
  BY <1>1 DEF LocalOk
<1>5. CASE Mig!Load(p)
  BY <1>5, LoadEffect, LoadLocal
<1>6. CASE Mig!DropAll(p)
  <2>1. /\ pc[p] = "drop" /\ pc'[p] = "save" /\ Mig!TypeOK'
        /\ UNCHANGED <<present, deploy, writer, cmd, mem, batch, todo, file>>
    BY <1>6, DropAllEffect
  <2>2. cmd[p] = "fresh"
    BY <1>2, <2>1 DEF PlanOk
  <2>3. PlanOk(p)'
    BY <1>2, <2>1, <2>2 DEF PlanOk, Saving
  <2>4. MemOk(p)'
    BY <1>2, <2>1, <2>2 DEF MemOk, Saving
  <2> QED BY <1>3, <2>1, <2>3, <2>4
<1>7. CASE Mig!DropFails(p)
  <2>1. pc[p] = "drop" /\ Mig!Exit(p) /\ Mig!TypeOK' /\ UNCHANGED <<deploy, writer>>
    BY <1>7, DropFailsEffect
  <2>2. writer' # p
    BY <1>2, <2>1 DEF PlanOk
  <2> QED BY <1>3, <2>1, <2>2, ExitLocal
<1>8. CASE Mig!Up(p)
  BY <1>3, <1>8, UpEffect, UpLocal DEF Finished
<1>9. CASE Mig!Down(p)
  BY <1>3, <1>9, DownEffect, DownLocal DEF Finished
<1>10. CASE Mig!Seed(p)
  BY <1>3, <1>10, SeedEffect, SeedLocal DEF Finished
<1>11. CASE Mig!Fails(p)
  <2>1. pc[p] = "run" /\ Mig!Exit(p) /\ Mig!TypeOK' /\ UNCHANGED <<deploy, writer>>
    BY <1>11, FailsEffect
  <2>2. writer' # p
    BY <1>2, <2>1 DEF PlanOk
  <2> QED BY <1>3, <2>1, <2>2, ExitLocal
<1>12. CASE Mig!Truncate(p)
  <2>1. /\ pc[p] = "save" /\ pc'[p] = "write" /\ writer' = p /\ deploy' = Empty /\ Mig!TypeOK'
        /\ UNCHANGED <<present, cmd, mem, batch, todo, file>>
    BY <1>12, TruncateEffect
  <2>2. PlanOk(p)'
    BY <1>2, <2>1 DEF PlanOk, Saving
  <2>3. MemOk(p)'
    BY <1>2, <2>1 DEF MemOk, Saving
  <2>4. WellKept(Mig!Loaded)'
    BY <2>1, NothingIsKept DEF Mig!Loaded
  <2> QED BY <2>1, <2>2, <2>3, <2>4
<1>13. CASE Mig!Save(p)
  BY <1>13, SaveEffect, SaveLocal
<1>14. CASE Mig!Reload(p)
  BY <1>3, <1>14, ReloadEffect, ReloadLocal
<1>15. CASE Mig!Killed(p)
  <2>1. Mig!Exit(p) /\ Mig!TypeOK' /\ deploy' = deploy
          /\ writer' = IF writer = p THEN None ELSE writer
    BY <1>15, KilledEffect
  <2>2. writer' # p
    BY <1>2, <2>1
  <2> QED BY <1>3, <2>1, <2>2, ExitLocal
<1>16. CASE \E c \in Commands : Mig!Begin(p, c)
  <2>1. PICK c \in Commands : Mig!Begin(p, c)
    BY <1>16
  <2>2. /\ pc[p] = "idle" /\ cmd'[p] = c /\ pc'[p] = IF c = "fresh" THEN "drop" ELSE "load"
        /\ c \in Mig!AllCommands /\ Mig!TypeOK'
        /\ UNCHANGED <<present, deploy, writer, mem, batch, todo, file>>
    BY <2>1, BeginEffect
  <2>3. todo[p] = {} /\ mem[p] = Mig!Nothing
    BY <1>2, <2>2 DEF PlanOk
  <2>4. PlanOk(p)'
    BY <1>2, <2>2, <2>3, DatabaseAssumption DEF PlanOk, Saving
  <2>5. MemOk(p)'
    BY <1>2, <2>2, <2>3 DEF MemOk, Saving
  <2> QED BY <1>3, <2>2, <2>4, <2>5
<1>17. CASE Mig!PartlyFails(p)
  <2>1. pc[p] = "run" /\ Mig!Exit(p) /\ Mig!TypeOK' /\ UNCHANGED <<deploy, writer>>
    BY <1>17, PartlyFailsEffect
  <2>2. writer' # p
    BY <1>2, <2>1 DEF PlanOk
  <2> QED BY <1>3, <2>1, <2>2, ExitLocal
<1> QED
  BY <1>17, <1>5, <1>6, <1>7, <1>8, <1>9, <1>10, <1>11, <1>12, <1>13, <1>14, <1>15, <1>16 DEF Work

-----------------------------------------------------------------------------
(* Commands beside each other.                                               *)

\* What ran beside what is remembered: who runs now is no exception.
AloneOk ==
  /\ beside \subseteq {"migrate"} =>
       \A p, q \in Mig!Running : p # q => cmd[p] = "migrate" /\ todo[p] \cap Idempotent = {}
  /\ beside = {} => \A p, q \in Mig!Running : p = q

\* A step of p leaves those that run running, except p, and takes up nobody but p.
LEMMA RunningMoves ==
  ASSUME Mig!TypeOK, LocalOk, NEW p \in Conns, Work(p)
  PROVE  /\ beside \subseteq beside'
         /\ Mig!Running' \subseteq Mig!Running \cup {p}
         /\ \A q \in Mig!Running' : q # p => cmd'[q] = cmd[q]
         /\ p \in Mig!Running \/ p \notin Mig!Running' \/
              (cmd'[p] \in beside' /\ \A q \in Mig!Running : cmd[q] \in beside') \/ Mig!Running = {}
         /\ p \in Mig!Running => cmd'[p] = cmd[p] \/ cmd'[p] = "migrate"
              \/ p \notin Mig!Running' \/ cmd[p] = "reset"
PROOF
<1>1. \A q \in Conns : q # p => Same(q)
  BY OthersStay
<1>2. /\ Mig!Running' \subseteq Mig!Running \cup {p}
      /\ \A q \in Mig!Running' : q # p => cmd'[q] = cmd[q]
  BY <1>1 DEF Mig!Running, Same
<1>3. CASE \E c \in Commands : Mig!Begin(p, c)
  <2>1. PICK c \in Commands : Mig!Begin(p, c)
    BY <1>3
  <2>2. /\ pc[p] = "idle" /\ cmd'[p] = c
        /\ beside' = beside \cup (IF Mig!Running = {} THEN {} ELSE {c} \cup {cmd[q]
             : q \in Mig!Running}) \cup Mig!Repeatable(UNION {todo[q] : q \in Mig!Running})
    BY <2>1, BeginEffect
  <2>3. p \notin Mig!Running
    BY <2>2 DEF Mig!Running
  <2>4. Mig!Running # {} => cmd'[p] \in beside' /\ \A q \in Mig!Running : cmd[q] \in beside'
    BY <2>2
  <2> QED BY <1>2, <2>2, <2>3, <2>4
<1>4. ASSUME beside \subseteq beside', p \in Mig!Running,
             cmd'[p] = cmd[p] \/ cmd'[p] = "migrate" \/ p \notin Mig!Running' \/ cmd[p] = "reset"
      PROVE  /\ beside \subseteq beside'
             /\ p \in Mig!Running => cmd'[p] = cmd[p] \/ cmd'[p] = "migrate"
                  \/ p \notin Mig!Running' \/ cmd[p] = "reset"
             /\ p \in Mig!Running
  BY <1>4
<1>5. Mig!Exit(p) => p \notin Mig!Running'
  BY ExitEffect DEF Mig!Running
<1>6. CASE Mig!Load(p)
  BY <1>2, <1>4, <1>5, <1>6, LoadEffect DEF Mig!Running, Turns, Plans
<1>7. CASE Mig!DropAll(p)
  BY <1>2, <1>4, <1>7, DropAllEffect DEF Mig!Running, Mig!history
<1>8. CASE Mig!DropFails(p)
  BY <1>2, <1>4, <1>5, <1>8, DropFailsEffect DEF Mig!Running
<1>9. CASE Mig!Up(p)
  BY <1>2, <1>4, <1>9, UpEffect DEF Mig!Running, Finished, Mig!history
<1>10. CASE Mig!Down(p)
  BY <1>2, <1>4, <1>10, DownEffect DEF Mig!Running, Finished, Mig!history
<1>11. CASE Mig!Seed(p)
  BY <1>2, <1>4, <1>11, SeedEffect DEF Mig!Running, Finished, Mig!history
<1>12. CASE Mig!Fails(p)
  BY <1>2, <1>4, <1>5, <1>12, FailsEffect DEF Mig!Running, Mig!history
<1>13. CASE Mig!Truncate(p)
  BY <1>2, <1>4, <1>13, TruncateEffect DEF Mig!Running, Mig!history
<1>14. CASE Mig!Save(p)
  BY <1>2, <1>4, <1>5, <1>14, SaveEffect DEF Mig!Running, Moves, Migrates, Mig!history
<1>15. CASE Mig!Reload(p)
  BY <1>2, <1>4, <1>5, <1>15, ReloadEffect DEF Mig!Running, Rereads, Skips, Mig!history
<1>16. CASE Mig!Killed(p)
  BY <1>2, <1>4, <1>5, <1>16, KilledEffect DEF Mig!Running
<1>17. CASE Mig!PartlyFails(p)
  BY <1>2, <1>4, <1>5, <1>17, PartlyFailsEffect DEF Mig!Running
<1> QED
  BY <1>17, <1>3, <1>6, <1>7, <1>8, <1>9, <1>10, <1>11, <1>12, <1>13, <1>14, <1>15, <1>16 DEF Work

\* Beside others nobody takes up an idempotent file that is not remembered.
LEMMA TodoMoves ==
  ASSUME Mig!TypeOK, LocalOk, NEW p \in Conns, Work(p), "idempotent" \notin beside'
  PROVE  /\ p \in Mig!Running =>
              todo'[p] \subseteq todo[p] \/ Mig!Running = {p} \/ todo'[p] \cap Idempotent = {}
         /\ p \notin Mig!Running => todo'[p] = {} /\ \A q \in Mig!Running : todo[q] \cap Idempotent = {}
PROOF
<1>1. Mig!Exit(p) => todo'[p] = {}
  BY ExitEffect
<1>2. CASE \E c \in Commands : Mig!Begin(p, c)
  <2>1. PICK c \in Commands : Mig!Begin(p, c)
    BY <1>2
  <2>2. /\ pc[p] = "idle" /\ todo' = todo
        /\ Mig!Repeatable(UNION {todo[q] : q \in Mig!Running}) \subseteq beside'
    BY <2>1, BeginEffect
  <2>3. todo[p] = {}
    BY <2>2 DEF LocalOk, PlanOk
  <2>4. (UNION {todo[q] : q \in Mig!Running}) \cap Idempotent = {}
    BY <2>2 DEF Mig!Repeatable
  <2> QED BY <2>2, <2>3, <2>4 DEF Mig!Running
<1>3. CASE Mig!Load(p)
  <2>1. /\ pc[p] = "load" /\ (Turns(p) \/ Plans(p) \/ Mig!Exit(p))
        /\ Mig!Running # {p} => Mig!Repeatable(Mig!Plan(p)) \subseteq beside'
    BY <1>3, LoadEffect
  <2>2. Mig!Running # {p} => Mig!Plan(p) \cap Idempotent = {}
    BY <2>1 DEF Mig!Repeatable
  <2> QED BY <1>1, <2>1, <2>2 DEF Mig!Running, Turns, Plans
<1>4. ASSUME p \in Mig!Running, todo'[p] \subseteq todo[p]
      PROVE  /\ p \in Mig!Running =>
              todo'[p] \subseteq todo[p] \/ Mig!Running = {p} \/ todo'[p] \cap Idempotent = {}
             /\ p \in Mig!Running
  BY <1>4
<1>5. CASE Mig!DropAll(p)
  BY <1>4, <1>5, DropAllEffect DEF Mig!Running
<1>6. CASE Mig!DropFails(p)
  BY <1>1, <1>4, <1>6, DropFailsEffect DEF Mig!Running
<1>7. CASE Mig!Up(p)
  BY <1>4, <1>7, UpEffect DEF Mig!Running, Finished
<1>8. CASE Mig!Down(p)
  BY <1>4, <1>8, DownEffect DEF Mig!Running, Finished
<1>9. CASE Mig!Seed(p)
  BY <1>4, <1>9, SeedEffect DEF Mig!Running, Finished
<1>10. CASE Mig!Fails(p)
  BY <1>1, <1>4, <1>10, FailsEffect DEF Mig!Running
<1>11. CASE Mig!PartlyFails(p)
  BY <1>1, <1>4, <1>11, PartlyFailsEffect DEF Mig!Running
<1>12. CASE Mig!Truncate(p)
  BY <1>4, <1>12, TruncateEffect DEF Mig!Running
<1>13. CASE Mig!Save(p)
  BY <1>1, <1>4, <1>13, SaveEffect DEF Mig!Running, Moves, Migrates
<1>14. CASE Mig!Reload(p)
  BY <1>1, <1>4, <1>14, ReloadEffect DEF Mig!Running, Rereads, Skips
<1>15. CASE Mig!Killed(p)
  BY <1>1, <1>4, <1>15, KilledEffect DEF Mig!Running
<1> QED
  BY <1>2, <1>3, <1>5, <1>6, <1>7, <1>8, <1>9, <1>10, <1>11, <1>12, <1>13, <1>14, <1>15 DEF Work

LEMMA AloneStays ==
  ASSUME Mig!TypeOK, LocalOk, AloneOk, NEW p \in Conns, Work(p)
  PROVE  AloneOk'
PROOF
<1>1. /\ beside \subseteq beside'
      /\ Mig!Running' \subseteq Mig!Running \cup {p}
      /\ \A q \in Mig!Running' : q # p => cmd'[q] = cmd[q]
      /\ p \in Mig!Running \/ p \notin Mig!Running' \/
           (cmd'[p] \in beside' /\ \A q \in Mig!Running : cmd[q] \in beside') \/ Mig!Running = {}
      /\ p \in Mig!Running => cmd'[p] = cmd[p] \/ cmd'[p] = "migrate" \/ p \notin Mig!Running'
           \/ cmd[p] = "reset"
  BY RunningMoves
<1>2. ASSUME beside' \subseteq {"migrate"}, NEW q \in Mig!Running', NEW r \in Mig!Running', q # r
      PROVE  cmd'[q] = "migrate"
  <2>1. \A x, y \in Mig!Running : x # y => cmd[x] = "migrate"
    BY <1>1, <1>2 DEF AloneOk
  <2>2. CASE p \in Mig!Running
    <3>1. q \in Mig!Running /\ r \in Mig!Running
      BY <1>1, <2>2
    <3>2. cmd[q] = "migrate"
      BY <1>2, <2>1, <3>1
    <3> QED BY <1>1, <1>2, <3>2
  <2>3. CASE p \notin Mig!Running
    <3>1. CASE q # p /\ r # p
      <4>1. q \in Mig!Running /\ r \in Mig!Running
        BY <3>1, <1>1
      <4> QED BY <3>1, <4>1, <1>1, <1>2, <2>1
    <3>2. CASE q = p
      BY <1>1, <1>2, <2>3, <3>2
    <3>3. CASE r = p
      <4>1. q \in Mig!Running /\ cmd'[q] = cmd[q]
        BY <3>3, <1>1, <1>2
      <4> QED BY <1>1, <1>2, <2>3, <3>3, <4>1
    <3> QED BY <3>1, <3>2, <3>3
  <2> QED BY <2>2, <2>3
<1>3. ASSUME beside' = {}, NEW q \in Mig!Running', NEW r \in Mig!Running' PROVE q = r
  <2>1. \A x, y \in Mig!Running : x = y
    BY <1>1, <1>3 DEF AloneOk
  <2> QED BY <1>1, <1>3, <2>1
<1>4. ASSUME beside' \subseteq {"migrate"}, NEW q \in Mig!Running', NEW r \in Mig!Running', q # r
      PROVE  todo'[q] \cap Idempotent = {}
  <2>1. \A x, y \in Mig!Running : x # y => todo[x] \cap Idempotent = {}
    BY <1>1, <1>4 DEF AloneOk
  <2>2. /\ p \in Mig!Running =>
              todo'[p] \subseteq todo[p] \/ Mig!Running = {p} \/ todo'[p] \cap Idempotent = {}
        /\ p \notin Mig!Running => todo'[p] = {} /\ \A x \in Mig!Running : todo[x] \cap Idempotent = {}
    BY <1>4, TodoMoves
  <2>3. q # p => q \in Mig!Running /\ todo'[q] = todo[q]
    BY <1>1, <1>4, OthersStay DEF Same, Mig!Running
  <2>4. CASE p \in Mig!Running
    <3>1. q \in Mig!Running /\ r \in Mig!Running
      BY <1>1, <1>4, <2>4
    <3> QED BY <1>4, <2>1, <2>2, <2>3, <2>4, <3>1
  <2>5. CASE p \notin Mig!Running
    BY <2>2, <2>3, <2>5
  <2> QED BY <2>4, <2>5
<1> QED BY <1>2, <1>3, <1>4 DEF AloneOk

-----------------------------------------------------------------------------
(* The record and the schema.                                                *)

\* d tells the schema, and the order in which its tables were made.
Exact(d) == Mig!Schema(d) = tables
Least(f, S) == f \in S /\ \A g \in S : f <= g
\* A migrate process whose next table must not exist, and does, gets no further.
Blocked(p) == \E f \in Mig!FilesOf(tables) \ Idempotent : Least(f, todo[p])

\* One process at a time saves; what it saves tells the schema.
SaverOk(p) ==
  /\ \A q \in Conns : Saving(q) => q = p
  /\ Exact(mem[p])
  /\ cmd[p] = "migrate" =>
       /\ file[p] \in present /\ file[p] \in Mig!FilesOf(tables) \cup Idempotent
       /\ \A g \in present \ (Backfills \cup Mig!FilesOf(tables)) : file[p] <= g
       /\ pc[p] = "save" =>
            /\ file[p] \notin Mig!Migrated(Mig!Loaded)
            /\ Mig!FilesOf(tables) \subseteq Mig!Migrated(Mig!Loaded) \cup {file[p]}
  /\ cmd[p] = "seed" /\ pc[p] = "save" => Exact(Mig!Loaded)

\* What is at work knows the schema and the record, or is blocked.
RunnerOk(p) ==
  \/ /\ Exact(mem[p]) /\ \A q \in Conns : ~Saving(q)
     /\ Mig!Migrated(mem[p]) = Mig!Migrated(Mig!Loaded)
  \/ cmd[p] = "migrate" /\ Blocked(p)

\* Of processes that migrate at once, one has a table that deploy.json does not show yet.
OrderlyOk == Mig!Orderly =>
  /\ (\A p \in Conns : pc[p] # "write") => deploy # Empty
  /\ (\A p \in Conns : ~Saving(p)) => Exact(Mig!Loaded)
  /\ \A p \in Conns : Saving(p) => SaverOk(p)
  /\ \A p \in Conns : pc[p] = "run" => RunnerOk(p)

\* Orderly goes for good.
LEMMA OrderlyBefore ==
  ASSUME Mig!TypeOK, LocalOk, NEW p \in Conns, Work(p), Mig!Orderly'
  PROVE  Mig!Orderly /\ lost' = {} /\ ~cut'
PROOF
<1>1. beside \subseteq beside'
  BY RunningMoves
<1>2. lost \subseteq lost' /\ (cut => cut')
  <2>1. CASE \E c \in Commands : Mig!Begin(p, c)
    BY <2>1, BeginEffect
  <2>2. CASE Mig!Killed(p)
    BY <2>2, KilledEffect
  <2>3. CASE Mig!DropFails(p)
    BY <2>3, DropFailsEffect
  <2>5. CASE Mig!Load(p)
    BY <2>5, LoadEffect
  <2>6. CASE Mig!PartlyFails(p)
    BY <2>6, PartlyFailsEffect DEF HalfDone
  <2>4. CASE Mig!DropAll(p) \/ Mig!Up(p) \/ Mig!Down(p) \/ Mig!Seed(p)
               \/ Mig!Fails(p) \/ Mig!Truncate(p) \/ Mig!Save(p) \/ Mig!Reload(p)
    <3>1. Mig!history' = Mig!history
      BY <2>4
         DEF Mig!DropAll, Mig!Up, Mig!Down, Mig!Seed, Mig!Fails, Mig!Truncate,
         Mig!Save, Mig!Reload, Mig!Done
    <3> QED BY <3>1 DEF Mig!history
  <2> QED BY <2>1, <2>2, <2>3, <2>4, <2>5, <2>6 DEF Work
<1> QED BY <1>1, <1>2 DEF Mig!Orderly

\* Besides migrate commands run alone.
LEMMA AloneFacts ==
  ASSUME Mig!TypeOK, LocalOk, AloneOk, Mig!Orderly, NEW p \in Conns, pc[p] # "idle",
         cmd[p] # "migrate"
  PROVE  \A q \in Conns : q # p => pc[q] = "idle"
BY DEF AloneOk, Mig!Orderly, Mig!Running

\* What a record tells of the tables, entry by entry.
LEMMA SchemaIs ==
  ASSUME NEW d \in Mig!Data
  PROVE  Mig!Schema(d) = {[file |-> t.file, after |-> t.after \ Backfills] : t \in {t \in
           Mig!Order(d.migrated) : t.file \notin Backfills}}
PROOF
<1>1. d.migrated \in SUBSET Mig!Entries
  BY DataFields
<1> QED BY <1>1, FilesLeft DEF Mig!Schema

LEMMA EntriesTell ==
  ASSUME NEW d \in Mig!Data
  PROVE  \A z : z \in Mig!Schema(d) <=> \E e \in d.migrated :
           e.file \notin Backfills /\ z = [file |-> e.file, after |-> e.after \ Backfills]
PROOF
<1> DEFINE o(e) == [file |-> e.file, after |-> e.after]
           y(e) == [file |-> e.file, after |-> e.after \ Backfills]
<1>1. \A e : o(e).file = e.file /\ y(o(e)) = y(e)
  OBVIOUS
<1>2. Mig!Order(d.migrated) = {o(e) : e \in d.migrated}
  BY DEF Mig!Order
<1>3. Mig!Schema(d) = {y(t) : t \in {t \in Mig!Order(d.migrated) : t.file \notin Backfills}}
  BY SchemaIs
<1> HIDE DEF o, y
<1>4. \A z : z \in Mig!Schema(d) <=> \E e \in d.migrated : e.file \notin Backfills /\ z = y(e)
  BY <1>1, <1>2, <1>3
<1> QED BY <1>4 DEF y

LEMMA SameFiles ==
  ASSUME NEW d \in Mig!Data, Exact(d) PROVE Mig!Migrated(d) \ Backfills = Mig!FilesOf(tables)
PROOF
<1> DEFINE y(e) == [file |-> e.file, after |-> e.after \ Backfills]
<1>1. \A z : z \in tables <=> \E e \in d.migrated : e.file \notin Backfills /\ z = y(e)
  BY EntriesTell DEF Exact
<1>2. \A e : y(e).file = e.file
  OBVIOUS
<1> HIDE DEF y
<1>3. \A x : x \in Mig!FilesOf(tables) <=> \E e \in d.migrated : e.file \notin Backfills /\ x = e.file
  BY <1>1, <1>2 DEF Mig!FilesOf
<1> QED BY <1>3 DEF Mig!Migrated, Mig!FilesOf

\* Recording a file, or taking it back, does to what the record tells what up() and down() do.
LEMMA SchemaRecorded ==
  ASSUME NEW d \in Mig!Data, NEW n \in Mig!Data, NEW f, NEW b \in Nat, Recorded(d, f, b, n)
  PROVE  /\ f \in Backfills => Mig!Schema(n) = Mig!Schema(d)
         /\ f \notin Backfills => Mig!Schema(n) =
              Mig!Schema(d) \cup {[file |-> f, after |-> Mig!Migrated(d) \ Backfills]}
PROOF
<1> DEFINE x == [file |-> f, batch |-> b, after |-> Mig!Migrated(d)]
           y(e) == [file |-> e.file, after |-> e.after \ Backfills]
<1>1. n.migrated = d.migrated \cup {x}
  BY DEF Recorded
<1>2. \A z : z \in Mig!Schema(n) <=> \E e \in n.migrated : e.file \notin Backfills /\ z = y(e)
  BY EntriesTell
<1>3. \A z : z \in Mig!Schema(d) <=> \E e \in d.migrated : e.file \notin Backfills /\ z = y(e)
  BY EntriesTell
<1>4. x.file = f /\ y(x) = [file |-> f, after |-> Mig!Migrated(d) \ Backfills]
  OBVIOUS
<1> HIDE DEF x, y
<1>5. \A z : z \in Mig!Schema(n) <=> z \in Mig!Schema(d) \/ (f \notin Backfills /\ z = y(x))
  BY <1>1, <1>2, <1>3, <1>4
<1> QED BY <1>4, <1>5

LEMMA SchemaRemoved ==
  ASSUME NEW d \in Mig!Data, NEW n \in Mig!Data, NEW f, Removed(d, f, n)
  PROVE  Mig!Schema(n) = {[file |-> t.file, after |-> t.after \ {f}] : t \in {t \in Mig!Schema(d)
           : t.file \notin {f}}}
PROOF
<1> DEFINE x(e) == [file |-> e.file, batch |-> e.batch, after |-> e.after \ {f}]
           y(e) == [file |-> e.file, after |-> e.after \ Backfills]
           w(t) == [file |-> t.file, after |-> t.after \ {f}]
           M == {w(t) : t \in {t \in Mig!Schema(d) : t.file \notin {f}}}
<1>1. n.migrated = {x(e) : e \in {e \in d.migrated : e.file # f}}
  BY DEF Removed
<1>2. \A z : z \in Mig!Schema(n) <=> \E e \in n.migrated : e.file \notin Backfills /\ z = y(e)
  BY EntriesTell
<1>3. \A z : z \in Mig!Schema(d) <=> \E e \in d.migrated : e.file \notin Backfills /\ z = y(e)
  BY EntriesTell
<1>4. \A e : x(e).file = e.file /\ y(e).file = e.file
  OBVIOUS
<1>5. \A e : y(x(e)) = w(y(e))
  <2>1. \A A : (A \ {f}) \ Backfills = (A \ Backfills) \ {f}
    OBVIOUS
  <2> QED BY <2>1
<1> HIDE DEF x, y, w
<1>6. \A z : z \in Mig!Schema(n) <=>
        \E e \in d.migrated : e.file # f /\ e.file \notin Backfills /\ z = w(y(e))
  BY <1>1, <1>2, <1>4, <1>5
<1>7. \A z : z \in M <=> \E e \in d.migrated : e.file # f /\ e.file \notin Backfills /\ z = w(y(e))
  BY <1>3, <1>4
<1>8. Mig!Schema(n) = M
  BY <1>6, <1>7
<1> QED BY <1>8 DEF w

LEMMA NothingTold == ASSUME NEW d \in Mig!Data, d.migrated = {} PROVE Mig!Schema(d) = {}
BY EntriesTell

LEMMA SameSchema ==
  ASSUME NEW d, NEW n, n.migrated = d.migrated PROVE Mig!Schema(n) = Mig!Schema(d)
BY DEF Mig!Schema

\* When p goes to idle from where nothing is lost, all that is said of the others remains.
LEMMA OthersOrderly ==
  ASSUME Mig!TypeOK, LocalOk, AloneOk, OrderlyOk, Mig!Orderly, Mig!Orderly', NEW p \in Conns,
         \A q \in Conns : q # p => Same(q),
         UNCHANGED <<present, tables, deploy>>,
         ~Saving(p), ~Saving(p)',
         pc'[p] = "run" => RunnerOk(p)'
  PROVE  OrderlyOk'
PROOF
<1>1. /\ \A q \in Conns : (Saving(q)' <=> Saving(q)) /\ (pc'[q] = "write" <=> pc[q] = "write")
      /\ Mig!Loaded' = Mig!Loaded
  BY DEF Same, Saving, Mig!Loaded
<1>2. (\A q \in Conns : pc'[q] # "write") => deploy' # Empty
  BY <1>1 DEF OrderlyOk
<1>3. (\A q \in Conns : ~Saving(q)') => Exact(Mig!Loaded)'
  BY <1>1 DEF OrderlyOk, Exact
<1>4. ASSUME NEW q \in Conns, Saving(q)' PROVE SaverOk(q)'
  <2>1. Saving(q) /\ q # p /\ SaverOk(q) /\ Same(q)
    BY <1>1, <1>4 DEF OrderlyOk
  <2> QED BY <1>1, <2>1 DEF SaverOk, Same, Exact
<1>5. ASSUME NEW q \in Conns, pc'[q] = "run" PROVE RunnerOk(q)'
  <2>1. CASE q # p
    <3>1. pc[q] = "run" /\ RunnerOk(q) /\ Same(q)
      BY <1>5, <2>1 DEF OrderlyOk, Same
    <3> QED BY <1>1, <3>1 DEF RunnerOk, Same, Exact, Blocked
  <2> QED BY <1>5, <2>1
<1> QED BY <1>2, <1>3, <1>4, <1>5 DEF OrderlyOk

LEMMA LoadOrderly ==
  ASSUME Mig!TypeOK, LocalOk, AloneOk, OrderlyOk, Mig!Orderly, Mig!Orderly', NEW p \in Conns,
         Mig!Load(p)
  PROVE  OrderlyOk'
PROOF
<1>1. /\ pc[p] = "load"
      /\ UNCHANGED <<present, tables, filled, deploy, writer, lost, cut, Mig!counts>>
      /\ Turns(p) \/ Plans(p) \/ Mig!Exit(p)
  BY LoadEffect
<1>2. \A q \in Conns : q # p => Same(q)
  BY OthersStay DEF Work
<1>3. ~Saving(p) /\ ~Saving(p)'
  BY <1>1, ExitEffect DEF Saving, Turns, Plans
<1>4. ASSUME pc'[p] = "run" PROVE RunnerOk(p)'
  <2>1. mem'[p] = Mig!Loaded /\ todo'[p] = Mig!Plan(p) /\ cmd'[p] = cmd[p] /\ pc'[p] = "run"
    BY <1>1, <1>4, ExitEffect DEF Turns, Plans
  <2>2. CASE \A q \in Conns : ~Saving(q)
    <3>1. Exact(Mig!Loaded)
      BY <2>2 DEF OrderlyOk
    <3>2. \A q \in Conns : ~Saving(q)'
      BY <1>2, <1>3, <2>2 DEF Same, Saving
    <3>3. Mig!Loaded' = Mig!Loaded
      BY <1>1 DEF Mig!Loaded
    <3> QED BY <1>1, <2>1, <3>1, <3>2, <3>3 DEF RunnerOk, Exact
  <2>3. CASE \E s \in Conns : Saving(s)
    <3>1. PICK s \in Conns : Saving(s)
      BY <2>3
    <3>2. cmd[p] = "migrate" /\ cmd[s] = "migrate"
      BY <1>1, <1>3, <3>1, AloneFacts DEF Saving
    <3>3. /\ file[s] \in present /\ file[s] \in Nat /\ present \subseteq Nat
          /\ file[s] \in Mig!FilesOf(tables) \cup Idempotent
          /\ \A g \in present \ (Backfills \cup Mig!FilesOf(tables)) : file[s] <= g
          /\ pc[s] = "save" =>
               /\ file[s] \notin Mig!Migrated(Mig!Loaded)
               /\ Mig!FilesOf(tables) \subseteq Mig!Migrated(Mig!Loaded) \cup {file[s]}
      BY <3>1, <3>2 DEF OrderlyOk, SaverOk, Mig!TypeOK, Mig!AllMigrations
    <3>4. todo'[p] = present \ Mig!Migrated(Mig!Loaded)
      BY <2>1, <3>2, PlanFacts
    <3>5. todo'[p] \cap Idempotent = {}
      <4>1. Mig!Running # {p}
        BY <1>3, <3>1 DEF Mig!Running, Saving
      <4>2. Mig!Repeatable(todo'[p]) \subseteq beside'
        BY <2>1, <4>1, LoadEffect
      <4> QED BY <4>2 DEF Mig!Repeatable, Mig!Orderly
    <3>6. CASE pc[s] = "save"
      <4>1. file[s] \in todo'[p] /\ file[s] \in Mig!FilesOf(tables) \ Idempotent
        BY <3>3, <3>4, <3>5, <3>6
      <4>2. \A g \in todo'[p] : file[s] <= g
        <5>1. ASSUME NEW g \in todo'[p], g # file[s] PROVE file[s] <= g
          <6>1. g \in present /\ g \notin Mig!FilesOf(tables) /\ g \notin Backfills
            BY <3>3, <3>4, <3>5, <3>6, <5>1, DatabaseAssumption
          <6> QED BY <3>3, <6>1
        <5>2. file[s] <= file[s]
          BY <3>3
        <5> QED BY <5>1, <5>2
      <4>3. \E h \in Mig!FilesOf(tables) \ Idempotent : Least(h, todo'[p])
        BY <4>1, <4>2 DEF Least
      <4> QED BY <1>1, <2>1, <3>2, <4>3 DEF RunnerOk, Blocked
    <3>7. CASE pc[s] = "write"
      <4>1. deploy = Empty
        BY <3>7, DatabaseAssumption DEF LocalOk, PlanOk, Mig!TypeOK
      <4>2. todo'[p] = present
        BY <3>4, <4>1, DataFields DEF Mig!Loaded, Mig!Migrated, Mig!FilesOf
      <4>3. PICK m \in present : \A g \in present : m <= g
        BY <3>3, LeastOfNumbers
      <4>4. m \in Mig!FilesOf(tables) \ Idempotent
        <5>1. \A g \in present : g \notin Idempotent /\ g \notin Backfills
          BY <3>5, <4>2, DatabaseAssumption
        <5>2. CASE m \notin Mig!FilesOf(tables)
          <6>1. file[s] <= m /\ m <= file[s]
            BY <3>3, <4>3, <5>1, <5>2
          <6>2. file[s] = m
            BY <3>3, <6>1
          <6> QED BY <3>3, <5>1, <5>2, <6>2
        <5> QED BY <5>1, <5>2
      <4>5. \E h \in Mig!FilesOf(tables) \ Idempotent : Least(h, todo'[p])
        BY <4>2, <4>3, <4>4 DEF Least
      <4> QED BY <1>1, <2>1, <3>2, <4>5 DEF RunnerOk, Blocked
    <3> QED BY <3>1, <3>6, <3>7 DEF Saving
  <2> QED BY <2>2, <2>3
<1> QED BY <1>1, <1>2, <1>3, <1>4, OthersOrderly

LEMMA DropAllOrderly ==
  ASSUME Mig!TypeOK, LocalOk, AloneOk, OrderlyOk, Mig!Orderly, NEW p \in Conns, Mig!DropAll(p)
  PROVE  OrderlyOk'
PROOF
<1>1. /\ pc[p] = "drop" /\ pc'[p] = "save" /\ tables' = {}
      /\ UNCHANGED <<present, deploy, writer, cmd, mem, batch, todo, file, Mig!history, Mig!counts>>
  BY DropAllEffect
<1>2. cmd[p] = "fresh" /\ mem[p] = Mig!Nothing
  BY <1>1 DEF LocalOk, PlanOk
<1>3. \A q \in Conns : q # p => pc[q] = "idle" /\ Same(q)
  BY <1>1, <1>2, AloneFacts, OthersStay DEF Work
<1>4. deploy # Empty
  BY <1>1, <1>3 DEF OrderlyOk
<1>5. Exact(mem[p])'
  BY <1>1, <1>2, DataFields, NothingTold DEF Exact
<1>6. SaverOk(p)'
  BY <1>1, <1>2, <1>3, <1>5 DEF SaverOk, Same, Saving
<1> QED BY <1>1, <1>3, <1>4, <1>6 DEF OrderlyOk, Same, Saving

LEMMA DroppedNone ==
  ASSUME Mig!TypeOK, Dropped({})
  PROVE  tables' = tables
PROOF
<1>1. \A t \in tables : [file |-> t.file, after |-> t.after \ {}] = t
  BY DEF Mig!TypeOK
<1>2. tables' = {[file |-> t.file, after |-> t.after \ {}] : t \in {t \in tables : t.file \notin {}}}
  BY DEF Dropped
<1> QED BY <1>1, <1>2

LEMMA DropFailsOrderly ==
  ASSUME Mig!TypeOK, LocalOk, AloneOk, OrderlyOk, Mig!Orderly, Mig!Orderly', NEW p \in Conns,
         Mig!DropFails(p)
  PROVE  OrderlyOk'
PROOF
<1>1. PICK F \in SUBSET Mig!FilesOf(tables) : Dropped(F) /\ lost' = lost \cup F
  BY DropFailsEffect
<1>2. pc[p] = "drop" /\ Mig!Exit(p) /\ UNCHANGED <<present, deploy, writer, cut, beside, Mig!counts>>
  BY DropFailsEffect
<1>3. F = {}
  BY <1>1 DEF Mig!Orderly
<1>4. tables' = tables
  BY <1>1, <1>3, DroppedNone
<1>5. \A q \in Conns : q # p => Same(q)
  BY OthersStay DEF Work
<1>6. ~Saving(p) /\ ~Saving(p)' /\ pc'[p] = "idle"
  BY <1>2, ExitEffect DEF Saving
<1> QED BY <1>2, <1>4, <1>5, <1>6, OthersOrderly

LEMMA UpOrderly ==
  ASSUME Mig!TypeOK, LocalOk, AloneOk, OrderlyOk, Mig!Orderly, NEW p \in Conns, Mig!Up(p)
  PROVE  OrderlyOk'
PROOF
<1>1. pc[p] = "run" /\ cmd[p] = "migrate"
  BY UpEffect
<1>2. PICK f \in todo[p], n \in Mig!Data :
        /\ f \in Mig!AllMigrations /\ f \in present /\ \A g \in todo[p] : f <= g
        /\ Makes(f) \/ Takes(f)
        /\ Recorded(mem[p], f, batch[p], n) /\ Finished(p, f, n)
  BY UpEffect
<1>3. /\ mem'[p] = n /\ file'[p] = f /\ todo'[p] = todo[p] \ {f} /\ pc'[p] = "save"
      /\ cmd'[p] = "migrate" /\ present' = present /\ deploy' = deploy
  BY <1>1, <1>2 DEF Finished
<1>4. f \in Nat /\ todo[p] \subseteq Nat /\ mem[p] \in Mig!Data /\ batch[p] \in Nat
  BY <1>2 DEF Mig!AllMigrations, Mig!TypeOK
<1>5. f \in Mig!FilesOf(tables) => f \in Idempotent
  BY <1>2 DEF Makes, Takes
<1>6. ~Blocked(p)
  <2>1. ASSUME NEW h \in Mig!FilesOf(tables) \ Idempotent, Least(h, todo[p]) PROVE FALSE
    <3>1. h \in todo[p] /\ h <= f /\ f <= h
      BY <1>2, <2>1 DEF Least
    <3>2. h = f
      BY <1>4, <3>1
    <3> QED BY <1>5, <2>1, <3>2
  <2> QED BY <2>1 DEF Blocked
<1>7. /\ Exact(mem[p]) /\ \A q \in Conns : ~Saving(q)
      /\ Mig!Migrated(mem[p]) = Mig!Migrated(Mig!Loaded)
  BY <1>1, <1>6 DEF OrderlyOk, RunnerOk
<1>8. deploy # Empty
  BY <1>7 DEF OrderlyOk, Saving
<1>9. Mig!Migrated(mem[p]) \ Backfills = Mig!FilesOf(tables)
  BY <1>4, <1>7, SameFiles
<1>10. todo[p] = present \ Mig!Migrated(mem[p])
  BY <1>1 DEF LocalOk, MemOk
<1>11. f \notin Mig!Migrated(mem[p]) /\ f \notin Mig!FilesOf(tables)
  BY <1>2, <1>9, <1>10
<1>12. \/ f \in Backfills /\ f \in Idempotent /\ tables' = tables
       \/ f \notin Backfills /\ Added(f)
  BY <1>2, <1>11 DEF Makes, Takes
<1>13. /\ Mig!FilesOf(tables) \subseteq Mig!FilesOf(tables')
       /\ Mig!FilesOf(tables') \subseteq Mig!FilesOf(tables) \cup {f}
       /\ f \in Mig!FilesOf(tables') \cup Idempotent
  BY <1>12 DEF Added
<1>14. \A q \in Conns : q # p => Same(q) /\ ~Saving(q)'
  BY <1>7, OthersStay DEF Work, Same, Saving
<1>15. Exact(mem[p])'
  <2>1. /\ f \in Backfills => Mig!Schema(n) = Mig!Schema(mem[p])
        /\ f \notin Backfills => Mig!Schema(n) =
             Mig!Schema(mem[p]) \cup {[file |-> f, after |-> Mig!Migrated(mem[p]) \ Backfills]}
    BY <1>2, <1>4, SchemaRecorded
  <2>2. CASE f \in Backfills
    BY <1>3, <1>7, <1>12, <2>1, <2>2 DEF Exact
  <2>3. CASE f \notin Backfills
    <3>1. tables' = tables \cup {[file |-> f, after |-> Mig!FilesOf(tables)]}
      BY <1>12, <2>3 DEF Added
    <3>2. Mig!Schema(n) = tables'
      BY <1>7, <1>9, <2>1, <2>3, <3>1 DEF Exact
    <3> QED BY <1>3, <3>2 DEF Exact
  <2> QED BY <2>2, <2>3
<1>16. SaverOk(p)'
  <2>1. Mig!Migrated(Mig!Loaded)' = Mig!Migrated(mem[p])
    BY <1>3, <1>7 DEF Mig!Loaded, Mig!Migrated
  <2>2. /\ f \notin Mig!Migrated(mem[p])
        /\ Mig!FilesOf(tables') \subseteq Mig!Migrated(mem[p]) \cup {f}
    BY <1>9, <1>11, <1>13
  <2>3. \A g \in present \ (Backfills \cup Mig!FilesOf(tables')) : f <= g
    BY <1>2, <1>9, <1>10, <1>13
  <2>4. \A q \in Conns : Saving(q)' => q = p
    BY <1>14
  <2> QED BY <1>2, <1>3, <1>13, <1>15, <2>1, <2>2, <2>3, <2>4 DEF SaverOk
<1>17. ASSUME NEW q \in Conns, pc'[q] = "run" PROVE RunnerOk(q)'
  <2>1. q # p /\ Same(q) /\ pc[q] = "run" /\ RunnerOk(q)
    BY <1>3, <1>14, <1>17 DEF Same, OrderlyOk
  <2>2. cmd[q] = "migrate"
    BY <1>1, <2>1, AloneFacts
  <2>3. f \notin Idempotent
    <3>1. p \in Mig!Running /\ q \in Mig!Running
      BY <1>1, <2>1 DEF Mig!Running
    <3>2. todo[p] \cap Idempotent = {}
      BY <2>1, <3>1 DEF AloneOk, Mig!Orderly
    <3> QED BY <1>2, <3>2
  <2>4. \E h \in Mig!FilesOf(tables') \ Idempotent : Least(h, todo[q])
    <3>1. CASE Blocked(q)
      BY <1>13, <3>1 DEF Blocked
    <3>2. CASE Mig!Migrated(mem[q]) = Mig!Migrated(Mig!Loaded)
      <4>1. todo[q] = todo[p]
        BY <1>7, <1>10, <2>1, <2>2, <3>2 DEF LocalOk, MemOk
      <4> QED BY <1>2, <1>13, <2>3, <4>1 DEF Least
    <3> QED BY <2>1, <3>1, <3>2 DEF RunnerOk
  <2> QED BY <2>1, <2>2, <2>4 DEF RunnerOk, Blocked, Same, Least
<1>18. deploy' # Empty /\ Saving(p)'
  BY <1>3, <1>8 DEF Saving
<1> QED BY <1>14, <1>16, <1>17, <1>18 DEF OrderlyOk

LEMMA DownOrderly ==
  ASSUME Mig!TypeOK, LocalOk, AloneOk, OrderlyOk, Mig!Orderly, NEW p \in Conns, Mig!Down(p)
  PROVE  OrderlyOk'
PROOF
<1>1. pc[p] = "run" /\ cmd[p] = "rollback"
  BY DownEffect
<1>2. PICK f \in todo[p], n \in Mig!Data :
        Dropped({f}) /\ Removed(mem[p], f, n) /\ Finished(p, f, n)
  BY DownEffect
<1>3. /\ mem'[p] = n /\ pc'[p] = "save" /\ cmd'[p] = "rollback" /\ deploy' = deploy
  BY <1>1, <1>2 DEF Finished
<1>4. \A q \in Conns : q # p => pc[q] = "idle" /\ Same(q)
  BY <1>1, AloneFacts, OthersStay DEF Work
<1>5. Exact(mem[p]) /\ deploy # Empty
  BY <1>1, <1>4 DEF OrderlyOk, RunnerOk
<1>6. Exact(mem[p])'
  <2>1. Mig!Schema(n) = {[file |-> t.file, after |-> t.after \ {f}] : t \in {t \in tables
          : t.file \notin {f}}}
    <3>1. mem[p] \in Mig!Data
      BY DEF Mig!TypeOK
    <3> QED BY <1>2, <1>5, <3>1, SchemaRemoved DEF Exact
  <2>2. tables' = {[file |-> t.file, after |-> t.after \ {f}] : t \in {t \in tables
          : t.file \notin {f}}}
    BY <1>2 DEF Dropped
  <2>3. tables' = Mig!Schema(n)
    BY <2>1, <2>2
  <2> QED BY <1>3, <2>3 DEF Exact
<1>7. SaverOk(p)'
  BY <1>3, <1>4, <1>6 DEF SaverOk, Same, Saving
<1> QED BY <1>3, <1>4, <1>5, <1>7 DEF OrderlyOk, Same, Saving

LEMMA SeedOrderly ==
  ASSUME Mig!TypeOK, LocalOk, AloneOk, OrderlyOk, Mig!Orderly, NEW p \in Conns, Mig!Seed(p)
  PROVE  OrderlyOk'
PROOF
<1>1. pc[p] = "run" /\ cmd[p] = "seed" /\ UNCHANGED tables
  BY SeedEffect
<1>2. PICK f \in todo[p], n \in Mig!Data : n.migrated = mem[p].migrated /\ Finished(p, f, n)
  BY SeedEffect
<1>3. /\ mem'[p] = n /\ pc'[p] = "save" /\ cmd'[p] = "seed" /\ deploy' = deploy
  BY <1>1, <1>2 DEF Finished
<1>4. \A q \in Conns : q # p => pc[q] = "idle" /\ Same(q)
  BY <1>1, AloneFacts, OthersStay DEF Work
<1>5. Exact(mem[p]) /\ deploy # Empty /\ Exact(Mig!Loaded)
  BY <1>1, <1>4 DEF OrderlyOk, RunnerOk, Saving
<1>6. Exact(mem[p])' /\ Exact(Mig!Loaded)'
  <2>1. Mig!Schema(mem'[p]) = Mig!Schema(mem[p])
    BY <1>2, <1>3, SameSchema
  <2>2. Mig!Loaded' = Mig!Loaded
    BY <1>3 DEF Mig!Loaded
  <2> QED BY <1>1, <1>5, <2>1, <2>2 DEF Exact
<1>7. SaverOk(p)'
  BY <1>3, <1>4, <1>6 DEF SaverOk, Same, Saving
<1> QED BY <1>3, <1>4, <1>5, <1>7 DEF OrderlyOk, Same, Saving

LEMMA FailsOrderly ==
  ASSUME Mig!TypeOK, LocalOk, AloneOk, OrderlyOk, Mig!Orderly, Mig!Orderly', NEW p \in Conns,
         Mig!Fails(p)
  PROVE  OrderlyOk'
PROOF
<1>1. pc[p] = "run" /\ Mig!Exit(p)
        /\ UNCHANGED <<present, tables, deploy, writer, Mig!history, Mig!counts>>
  BY FailsEffect
<1>2. \A q \in Conns : q # p => Same(q)
  BY OthersStay DEF Work
<1>3. ~Saving(p) /\ ~Saving(p)' /\ pc'[p] = "idle"
  BY <1>1, ExitEffect DEF Saving
<1> QED BY <1>1, <1>2, <1>3, OthersOrderly

LEMMA PartlyFailsOrderly ==
  ASSUME Mig!TypeOK, LocalOk, AloneOk, OrderlyOk, Mig!Orderly, Mig!Orderly', NEW p \in Conns,
         Mig!PartlyFails(p)
  PROVE  OrderlyOk'
PROOF
<1>1. pc[p] = "run" /\ Mig!Exit(p) /\ UNCHANGED <<present, deploy>>
  BY PartlyFailsEffect
<1>2. tables' = tables
  <2>1. ASSUME NEW f, HalfDone(f) PROVE FALSE
    BY <2>1 DEF HalfDone, Mig!Orderly
  <2> QED BY <2>1, PartlyFailsEffect
<1>3. \A q \in Conns : q # p => Same(q)
  BY OthersStay DEF Work
<1>4. ~Saving(p) /\ ~Saving(p)' /\ pc'[p] = "idle"
  BY <1>1, ExitEffect DEF Saving
<1> QED BY <1>1, <1>2, <1>3, <1>4, OthersOrderly

\* Beside one that saves the others are blocked.
LEMMA OthersBlocked ==
  ASSUME Mig!TypeOK, OrderlyOk, Mig!Orderly, NEW p \in Conns, Saving(p), NEW q \in Conns,
         pc[q] = "run"
  PROVE  cmd[q] = "migrate" /\ Blocked(q)
BY DEF OrderlyOk, RunnerOk

LEMMA TruncateOrderly ==
  ASSUME Mig!TypeOK, LocalOk, OrderlyOk, Mig!Orderly, NEW p \in Conns, Mig!Truncate(p)
  PROVE  OrderlyOk'
PROOF
<1>1. /\ pc[p] = "save" /\ pc'[p] = "write"
      /\ UNCHANGED <<present, tables, cmd, mem, batch, todo, file, Mig!history, Mig!counts>>
  BY TruncateEffect
<1>2. \A q \in Conns : q # p => Same(q)
  BY OthersStay DEF Work
<1>3. Saving(p) /\ Saving(p)' /\ SaverOk(p)
  BY <1>1 DEF Saving, OrderlyOk
<1>4. \A q \in Conns : Saving(q)' => q = p
  BY <1>2, <1>3 DEF SaverOk, Same, Saving
<1>5. SaverOk(p)'
  BY <1>1, <1>3, <1>4 DEF SaverOk, Exact
<1>6. ASSUME NEW q \in Conns, pc'[q] = "run" PROVE RunnerOk(q)'
  <2>1. q # p /\ Same(q) /\ pc[q] = "run"
    BY <1>1, <1>2, <1>6 DEF Same
  <2>2. cmd[q] = "migrate" /\ Blocked(q)
    BY <1>3, <2>1, OthersBlocked
  <2> QED BY <1>1, <2>1, <2>2 DEF RunnerOk, Blocked, Same
<1> QED BY <1>1, <1>3, <1>4, <1>5, <1>6 DEF OrderlyOk

LEMMA SaveOrderly ==
  ASSUME Mig!TypeOK, LocalOk, OrderlyOk, Mig!Orderly, NEW p \in Conns, Mig!Save(p)
  PROVE  OrderlyOk'
PROOF
<1>1. /\ pc[p] = "write" /\ deploy' = mem[p] /\ UNCHANGED <<present, tables, Mig!history, Mig!counts>>
      /\ Moves(p) \/ Migrates(p) \/ Mig!Exit(p)
  BY SaveEffect
<1>2. \A q \in Conns : q # p => Same(q)
  BY OthersStay DEF Work
<1>3. Saving(p) /\ SaverOk(p)
  BY <1>1 DEF Saving, OrderlyOk
<1>4. ~Saving(p)'
  BY <1>1, ExitEffect DEF Saving, Moves, Migrates
<1>5. \A q \in Conns : ~Saving(q)'
  BY <1>2, <1>3, <1>4 DEF SaverOk, Same, Saving
<1>6. deploy' # Empty /\ Mig!Loaded' = mem[p]
  <2>1. mem[p] \in Mig!Data
    BY DEF Mig!TypeOK
  <2>2. mem[p] # Empty
    BY <2>1, DatabaseAssumption
  <2> QED BY <1>1, <2>2 DEF Mig!Loaded
<1>7. Exact(Mig!Loaded)'
  BY <1>1, <1>3, <1>6 DEF SaverOk, Exact
<1>8. ASSUME NEW q \in Conns, pc'[q] = "run" PROVE RunnerOk(q)'
  <2>1. CASE q = p
    <3>1. mem'[p] = mem[p]
      BY <1>1, <1>8, <2>1, ExitEffect DEF Moves, Migrates
    <3> QED BY <1>1, <1>3, <1>5, <1>6, <2>1, <3>1 DEF RunnerOk, SaverOk, Exact
  <2>2. CASE q # p
    <3>1. Same(q) /\ pc[q] = "run"
      BY <1>2, <1>8, <2>2 DEF Same
    <3>2. cmd[q] = "migrate" /\ Blocked(q)
      BY <1>3, <3>1, OthersBlocked
    <3> QED BY <1>1, <3>1, <3>2 DEF RunnerOk, Blocked, Same
  <2> QED BY <2>1, <2>2
<1> QED BY <1>5, <1>6, <1>7, <1>8 DEF OrderlyOk

LEMMA ReloadOrderly ==
  ASSUME Mig!TypeOK, LocalOk, AloneOk, OrderlyOk, Mig!Orderly, Mig!Orderly', NEW p \in Conns,
         Mig!Reload(p)
  PROVE  OrderlyOk'
PROOF
<1>1. /\ pc[p] = "reload" /\ UNCHANGED <<present, tables, deploy, writer, Mig!history, Mig!counts>>
      /\ Rereads(p) \/ Skips(p) \/ Mig!Exit(p)
  BY ReloadEffect
<1>2. cmd[p] = "seed"
  BY <1>1 DEF LocalOk, PlanOk
<1>3. \A q \in Conns : q # p => pc[q] = "idle" /\ Same(q)
  BY <1>1, <1>2, AloneFacts, OthersStay DEF Work
<1>4. ~Saving(p) /\ ~Saving(p)'
  BY <1>1, ExitEffect DEF Saving, Rereads, Skips
<1>5. ASSUME pc'[p] = "run" PROVE RunnerOk(p)'
  <2>1. mem'[p] = Mig!Loaded
    BY <1>1, <1>5, ExitEffect DEF Rereads, Skips
  <2>2. Exact(Mig!Loaded)
    BY <1>3, <1>4 DEF OrderlyOk, Saving
  <2>3. \A q \in Conns : ~Saving(q)'
    BY <1>3, <1>4 DEF Saving, Same
  <2>4. Mig!Loaded' = Mig!Loaded
    BY <1>1 DEF Mig!Loaded
  <2> QED BY <1>1, <2>1, <2>2, <2>3, <2>4 DEF RunnerOk, Exact
<1> QED BY <1>1, <1>3, <1>4, <1>5, OthersOrderly

LEMMA KilledOrderly ==
  ASSUME Mig!TypeOK, LocalOk, AloneOk, OrderlyOk, Mig!Orderly, Mig!Orderly', NEW p \in Conns,
         Mig!Killed(p)
  PROVE  OrderlyOk'
PROOF
<1>1. /\ pc[p] # "idle" /\ Mig!Exit(p)
      /\ lost' = lost \cup (IF Saving(p) THEN InHand(p) ELSE {})
      /\ cut' = (cut \/ pc[p] = "write")
      /\ UNCHANGED <<present, tables, deploy, beside>>
  BY KilledEffect
<1>2. \A q \in Conns : q # p => Same(q)
  BY OthersStay DEF Work
<1>3. ~Saving(p)' /\ pc'[p] = "idle"
  BY <1>1, ExitEffect DEF Saving
<1>4. CASE ~Saving(p)
  BY <1>1, <1>2, <1>3, <1>4, OthersOrderly
<1>5. CASE Saving(p)
  <2>1. pc[p] = "save" /\ InHand(p) = {}
    BY <1>1, <1>5 DEF Saving, Mig!Orderly
  <2>2. cmd[p] \in {"seed", "fresh"}
    BY <2>1 DEF InHand
  <2>3. \A q \in Conns : q # p => pc[q] = "idle" /\ pc'[q] = "idle"
    BY <1>1, <1>2, <2>2, AloneFacts DEF Same
  <2>4. deploy # Empty
    BY <2>1, <2>3 DEF OrderlyOk
  <2>5. Exact(Mig!Loaded)
    <3>1. CASE cmd[p] = "seed"
      BY <1>5, <2>1, <3>1 DEF OrderlyOk, SaverOk
    <3>2. CASE cmd[p] = "fresh"
      <4>1. Mig!AllMigrations = {}
        BY <2>1, <3>2 DEF InHand
      <4>2. Mig!Loaded.migrated = {} /\ tables = {}
        BY <4>1, LoadedIsData, DataFields DEF Mig!TypeOK, Mig!Entries
      <4> QED BY <4>2, LoadedIsData, NothingTold DEF Exact
    <3> QED BY <2>2, <3>1, <3>2
  <2> QED BY <1>1, <1>3, <2>3, <2>4, <2>5 DEF OrderlyOk, Saving, Exact, Mig!Loaded
<1> QED BY <1>4, <1>5

LEMMA BeginOrderly ==
  ASSUME Mig!TypeOK, LocalOk, AloneOk, OrderlyOk, Mig!Orderly, Mig!Orderly', NEW p \in Conns,
         NEW c \in Commands, Mig!Begin(p, c)
  PROVE  OrderlyOk'
PROOF
<1>1. /\ pc[p] = "idle" /\ pc'[p] = IF c = "fresh" THEN "drop" ELSE "load"
      /\ UNCHANGED <<present, tables, deploy>>
  BY BeginEffect
<1>2. \A q \in Conns : q # p => Same(q)
  BY OthersStay DEF Work
<1>3. ~Saving(p) /\ ~Saving(p)' /\ pc'[p] # "run"
  BY <1>1 DEF Saving
<1> QED BY <1>1, <1>2, <1>3, OthersOrderly

LEMMA WorkOrderly ==
  ASSUME Mig!TypeOK, LocalOk, AloneOk, OrderlyOk, NEW p \in Conns, Work(p)
  PROVE  OrderlyOk'
PROOF
<1>1. CASE ~Mig!Orderly'
  BY <1>1 DEF OrderlyOk
<1>2. CASE Mig!Orderly'
  <2>1. Mig!Orderly
    BY <1>2, OrderlyBefore
  <2> QED
    BY <1>2, <2>1, LoadOrderly, DropAllOrderly, DropFailsOrderly, UpOrderly, DownOrderly,
       SeedOrderly,
       FailsOrderly, PartlyFailsOrderly, TruncateOrderly, SaveOrderly, ReloadOrderly, KilledOrderly, BeginOrderly DEF Work
<1> QED BY <1>1, <1>2

-----------------------------------------------------------------------------
(* What is recorded wrongly.                                                 *)

\* d tells the schema except of F.
Within(d, F) ==
  /\ Mig!Migrated(d) \ (Backfills \cup Mig!FilesOf(tables)) \subseteq F
  /\ Mig!FilesOf(tables) \ Mig!Migrated(d) \subseteq F

\* What the file, and a process at work, have wrong was lost by a command that was cut short.
LostOk == ~cut /\ beside = {} =>
  /\ (\A p \in Conns : ~Saving(p)) => Within(Mig!Loaded, lost)
  /\ \A p \in Conns : pc[p] = "run" \/ Saving(p) => Within(mem[p], lost)
  /\ \A p \in Conns : pc[p] = "save" => Within(Mig!Loaded, lost \cup InHand(p))

\* While no two commands ran beside each other, there is one at most.
LEMMA OneAtATime ==
  ASSUME Mig!TypeOK, LocalOk, AloneOk, NEW p \in Conns, Work(p), beside' = {}
  PROVE  beside = {} /\ \A q \in Conns : q # p => pc[q] = "idle" /\ pc'[q] = "idle"
PROOF
<1>1. beside = {} /\ Mig!Running' \subseteq Mig!Running \cup {p}
  BY RunningMoves
<1>2. \A q, r \in Mig!Running : q = r
  BY <1>1 DEF AloneOk
<1>3. CASE p \in Mig!Running
  BY <1>1, <1>2, <1>3 DEF Mig!Running
<1>4. CASE p \notin Mig!Running
  <2>1. PICK c \in Commands : Mig!Begin(p, c)
    BY <1>4
       DEF Mig!Running, Work, Mig!Load, Mig!DropAll, Mig!DropFails, Mig!Up, Mig!Down, Mig!Seed,
       Mig!Fails, Mig!PartlyFails, Mig!Truncate, Mig!Save, Mig!Reload, Mig!Killed
  <2>2. Mig!Running = {}
    BY <2>1, BeginEffect
  <2> QED BY <1>1, <2>2 DEF Mig!Running
<1> QED BY <1>1, <1>3, <1>4

\* It suffices to look at the process that moves.
LEMMA LostOfOne ==
  ASSUME NEW p \in Conns, \A q \in Conns : q # p => pc[q] = "idle" /\ pc'[q] = "idle",
         ~Saving(p)' => Within(Mig!Loaded, lost)',
         pc'[p] = "run" \/ Saving(p)' => Within(mem[p], lost)',
         pc'[p] = "save" => Within(Mig!Loaded, lost \cup InHand(p))'
  PROVE  LostOk'
PROOF
<1>1. (\A q \in Conns : ~Saving(q)') => Within(Mig!Loaded, lost)'
  OBVIOUS
<1>2. ASSUME NEW q \in Conns, pc'[q] = "run" \/ Saving(q)' PROVE Within(mem[q], lost)'
  <2>1. q = p
    BY <1>2 DEF Saving
  <2> QED BY <1>2, <2>1
<1>3. ASSUME NEW q \in Conns, pc'[q] = "save" PROVE Within(Mig!Loaded, lost \cup InHand(q))'
  <2>1. q = p
    BY <1>3
  <2> QED BY <1>3, <2>1
<1> QED BY <1>1, <1>2, <1>3 DEF LostOk

LEMMA WorkLost ==
  ASSUME Mig!TypeOK, LocalOk, AloneOk, LostOk, NEW p \in Conns, Work(p)
  PROVE  LostOk'
PROOF
<1> SUFFICES ASSUME ~cut', beside' = {} PROVE LostOk'
  BY DEF LostOk
<1>1. beside = {} /\ \A q \in Conns : q # p => pc[q] = "idle" /\ pc'[q] = "idle"
  BY OneAtATime
<1>2. ~cut => /\ ~Saving(p) => Within(Mig!Loaded, lost)
              /\ pc[p] = "run" \/ Saving(p) => Within(mem[p], lost)
              /\ pc[p] = "save" => Within(Mig!Loaded, lost \cup InHand(p))
  BY <1>1 DEF LostOk, Saving
<1>3. SUFFICES /\ ~Saving(p)' => Within(Mig!Loaded, lost)'
               /\ pc'[p] = "run" \/ Saving(p)' => Within(mem[p], lost)'
               /\ pc'[p] = "save" => Within(Mig!Loaded, lost \cup InHand(p))'
  BY <1>1, LostOfOne
<1>4. Mig!Migrated(Mig!Nothing) = {} /\ Mig!Migrated(Mig!Loaded) \subseteq Mig!AllMigrations
  BY LoadedIsData, DataFields DEF Mig!Migrated, Mig!FilesOf, Mig!Entries
<1>5. Mig!Exit(p) => pc'[p] = "idle"
  BY ExitEffect
<1>6. CASE Mig!Load(p)
  <2>1. /\ pc[p] = "load"
        /\ UNCHANGED <<present, tables, filled, deploy, writer, lost, cut, Mig!counts>>
        /\ Turns(p) \/ Plans(p) \/ Mig!Exit(p)
    BY <1>6, LoadEffect
  <2>2. Within(Mig!Loaded, lost)
    BY <1>2, <2>1 DEF Saving
  <2>3. Within(Mig!Loaded, lost)' /\ (pc'[p] = "run" => mem'[p] = Mig!Loaded)
    BY <1>5, <2>1, <2>2 DEF Within, Mig!Loaded, Turns, Plans
  <2> QED BY <1>5, <2>1, <2>2, <2>3 DEF Saving, Turns, Plans, Within
<1>7. CASE Mig!DropAll(p)
  <2>1. /\ pc[p] = "drop" /\ pc'[p] = "save" /\ tables' = {}
        /\ UNCHANGED <<deploy, cmd, mem, file, Mig!history>>
    BY <1>7, DropAllEffect
  <2>2. cmd[p] = "fresh" /\ mem[p] = Mig!Nothing /\ Mig!FilesOf(tables') = {}
    BY <2>1 DEF LocalOk, PlanOk, Mig!FilesOf
  <2>3. Within(mem[p], lost)'
    BY <1>4, <2>1, <2>2 DEF Within
  <2>4. InHand(p)' = Mig!AllMigrations /\ Mig!Loaded' = Mig!Loaded
    BY <2>1, <2>2 DEF InHand, Mig!Loaded
  <2>5. Within(Mig!Loaded, lost \cup InHand(p))'
    BY <1>4, <2>2, <2>4 DEF Within
  <2> QED BY <2>1, <2>3, <2>5 DEF Saving
<1>8. CASE Mig!DropFails(p)
  <2>1. PICK F \in SUBSET Mig!FilesOf(tables) : Dropped(F) /\ lost' = lost \cup F
    BY <1>8, DropFailsEffect
  <2>2. pc[p] = "drop" /\ Mig!Exit(p) /\ UNCHANGED <<deploy, cut>>
    BY <1>8, DropFailsEffect
  <2>3. Within(Mig!Loaded, lost) /\ Mig!Loaded' = Mig!Loaded
    BY <1>2, <2>2 DEF Saving, Mig!Loaded
  <2>4. Mig!FilesOf(tables') = Mig!FilesOf(tables) \ F
    BY <2>1 DEF Dropped
  <2>5. Within(Mig!Loaded, lost)'
    BY <2>1, <2>3, <2>4 DEF Within
  <2> QED BY <1>5, <2>2, <2>5 DEF Saving
<1>9. CASE Mig!Up(p)
  <2>1. PICK f \in todo[p], n \in Mig!Data : (Makes(f) \/ Takes(f)) /\ Recorded(mem[p], f, batch[p], n)
               /\ Finished(p, f, n)
    BY <1>9, UpEffect
  <2>2. pc[p] = "run" /\ cmd[p] = "migrate"
    BY <1>9, UpEffect
  <2>3. /\ mem'[p] = n /\ file'[p] = f /\ pc'[p] = "save" /\ cmd'[p] = "migrate"
        /\ UNCHANGED <<deploy, lost, cut>>
    BY <2>1, <2>2 DEF Finished, Mig!history
  <2>4. Within(Mig!Loaded, lost) /\ Within(mem[p], lost) /\ Mig!Loaded' = Mig!Loaded
    BY <1>2, <2>2, <2>3 DEF Saving, Mig!Loaded
  <2>5. Mig!Migrated(n) = Mig!Migrated(mem[p]) \cup {f}
          /\ f \in Backfills \cup Mig!FilesOf(tables')
          /\ Mig!FilesOf(tables') \subseteq Mig!FilesOf(tables) \cup {f}
          /\ Mig!FilesOf(tables) \subseteq Mig!FilesOf(tables')
    BY <2>1 DEF Makes, Takes, Added, Recorded
  <2>6. InHand(p)' = {f}
    BY <2>3 DEF InHand
  <2>7. Within(mem[p], lost)' /\ Within(Mig!Loaded, lost \cup InHand(p))'
    BY <2>3, <2>4, <2>5, <2>6 DEF Within
  <2> QED BY <2>3, <2>7 DEF Saving
<1>10. CASE Mig!Down(p)
  <2>1. PICK f \in todo[p], n \in Mig!Data : Dropped({f}) /\ Removed(mem[p], f, n)
               /\ Finished(p, f, n)
    BY <1>10, DownEffect
  <2>2. pc[p] = "run" /\ cmd[p] = "rollback"
    BY <1>10, DownEffect
  <2>3. /\ mem'[p] = n /\ file'[p] = f /\ pc'[p] = "save" /\ cmd'[p] = "rollback"
        /\ UNCHANGED <<deploy, lost, cut>>
    BY <2>1, <2>2 DEF Finished, Mig!history
  <2>4. Within(Mig!Loaded, lost) /\ Within(mem[p], lost) /\ Mig!Loaded' = Mig!Loaded
    BY <1>2, <2>2, <2>3 DEF Saving, Mig!Loaded
  <2>5. Mig!Migrated(n) = Mig!Migrated(mem[p]) \ {f}
          /\ Mig!FilesOf(tables') = Mig!FilesOf(tables) \ {f}
    BY <2>1 DEF Dropped, Removed
  <2>6. InHand(p)' = {f}
    BY <2>3 DEF InHand
  <2>7. Within(mem[p], lost)' /\ Within(Mig!Loaded, lost \cup InHand(p))'
    BY <2>3, <2>4, <2>5, <2>6 DEF Within
  <2> QED BY <2>3, <2>7 DEF Saving
<1>11. CASE Mig!Seed(p)
  <2>1. PICK f \in todo[p], n \in Mig!Data : n.migrated = mem[p].migrated /\ Finished(p, f, n)
    BY <1>11, SeedEffect
  <2>2. pc[p] = "run" /\ UNCHANGED tables
    BY <1>11, SeedEffect
  <2>3. /\ mem'[p] = n /\ pc'[p] = "save" /\ UNCHANGED <<deploy, lost, cut>>
    BY <2>1 DEF Finished, Mig!history
  <2>4. Within(Mig!Loaded, lost) /\ Within(mem[p], lost) /\ Mig!Loaded' = Mig!Loaded
    BY <1>2, <2>2, <2>3 DEF Saving, Mig!Loaded
  <2>5. Within(mem[p], lost)' /\ Within(Mig!Loaded, lost \cup InHand(p))'
    BY <2>1, <2>2, <2>3, <2>4 DEF Within, Mig!Migrated
  <2> QED BY <2>3, <2>5 DEF Saving
<1>12. CASE Mig!Fails(p)
  <2>1. pc[p] = "run" /\ Mig!Exit(p) /\ UNCHANGED <<tables, deploy, lost, cut>>
    BY <1>12, FailsEffect DEF Mig!history
  <2>2. Within(Mig!Loaded, lost)'
    BY <1>2, <2>1 DEF Saving, Within, Mig!Loaded
  <2> QED BY <1>5, <2>1, <2>2 DEF Saving
<1>13. CASE Mig!Truncate(p)
  <2>1. pc[p] = "save" /\ pc'[p] = "write" /\ UNCHANGED <<tables, mem, lost, cut>>
    BY <1>13, TruncateEffect DEF Mig!history
  <2>2. Within(mem[p], lost)'
    BY <1>2, <2>1 DEF Saving, Within
  <2> QED BY <2>1, <2>2 DEF Saving
<1>14. CASE Mig!Save(p)
  <2>1. /\ pc[p] = "write" /\ deploy' = mem[p] /\ UNCHANGED <<tables, lost, cut>>
        /\ Moves(p) \/ Migrates(p) \/ Mig!Exit(p)
    BY <1>14, SaveEffect DEF Mig!history
  <2>2. Mig!Loaded' = mem[p]
    <3>1. mem[p] \in Mig!Data
      BY DEF Mig!TypeOK
    <3>2. mem[p] # Empty
      BY <3>1, DatabaseAssumption
    <3> QED BY <2>1, <3>2 DEF Mig!Loaded
  <2>3. Within(mem[p], lost)
    BY <1>2, <2>1 DEF Saving
  <2>4. Within(Mig!Loaded, lost)'
    BY <2>1, <2>2, <2>3 DEF Within
  <2>5. pc'[p] = "run" => Within(mem[p], lost)'
    BY <1>5, <2>1, <2>3 DEF Within, Moves, Migrates
  <2> QED BY <1>5, <2>1, <2>4, <2>5 DEF Saving, Moves, Migrates
<1>15. CASE Mig!Reload(p)
  <2>1. /\ pc[p] = "reload" /\ UNCHANGED <<tables, deploy, lost, cut>>
        /\ Rereads(p) \/ Skips(p) \/ Mig!Exit(p)
    BY <1>15, ReloadEffect DEF Mig!history
  <2>2. Within(Mig!Loaded, lost) /\ Within(Mig!Loaded, lost)'
    BY <1>2, <2>1 DEF Saving, Within, Mig!Loaded
  <2>3. pc'[p] = "run" => Within(mem[p], lost)'
    BY <1>5, <2>1, <2>2 DEF Within, Rereads, Skips
  <2> QED BY <1>5, <2>1, <2>2, <2>3 DEF Saving, Rereads, Skips
<1>16. CASE Mig!Killed(p)
  <2>1. /\ Mig!Exit(p) /\ lost' = lost \cup (IF Saving(p) THEN InHand(p) ELSE {})
        /\ cut' = (cut \/ pc[p] = "write") /\ UNCHANGED <<tables, deploy>>
    BY <1>16, KilledEffect
  <2>2. Within(Mig!Loaded, lost')
    BY <1>2, <2>1 DEF Saving, Within
  <2>3. Within(Mig!Loaded, lost)'
    BY <2>1, <2>2 DEF Within, Mig!Loaded
  <2> QED BY <1>5, <2>1, <2>3 DEF Saving
<1>17. CASE \E c \in Commands : Mig!Begin(p, c)
  <2>1. pc[p] = "idle" /\ pc'[p] \in {"drop", "load"} /\ UNCHANGED <<tables, deploy, lost, cut>>
    BY <1>17, BeginEffect
  <2>2. Within(Mig!Loaded, lost)'
    BY <1>2, <2>1 DEF Saving, Within, Mig!Loaded
  <2> QED BY <2>1, <2>2 DEF Saving
<1>18. CASE Mig!PartlyFails(p)
  <2>1. /\ pc[p] = "run" /\ Mig!Exit(p) /\ UNCHANGED <<deploy, cut>>
        /\ UNCHANGED <<tables, lost>> \/ \E f \in todo[p] : HalfDone(f)
    BY <1>18, PartlyFailsEffect
  <2>2. Within(Mig!Loaded, lost) /\ Mig!Loaded' = Mig!Loaded
    BY <1>2, <2>1 DEF Saving, Mig!Loaded
  <2>3. ASSUME NEW f, HalfDone(f) PROVE Within(Mig!Loaded, lost)'
    BY <2>2, <2>3 DEF Within, HalfDone
  <2>4. Within(Mig!Loaded, lost)'
    BY <2>1, <2>2, <2>3 DEF Within
  <2> QED BY <1>5, <2>1, <2>4 DEF Saving
<1> QED
  BY <1>18, <1>6, <1>7, <1>8, <1>9, <1>10, <1>11, <1>12, <1>13, <1>14, <1>15, <1>16, <1>17 DEF Work

-----------------------------------------------------------------------------
(* The theorems.                                                             *)

SchemaInv == Mig!TypeOK /\ LocalOk /\ AloneOk /\ OrderlyOk /\ LostOk

LEMMA SchemaStarts == ASSUME Mig!Init PROVE SchemaInv
PROOF
<1>1. /\ present = {} /\ tables = {} /\ filled = {} /\ deploy = Mig!Nothing /\ writer = None
      /\ cmd = [p \in Conns |-> None] /\ pc = [p \in Conns |-> "idle"]
      /\ steps = [p \in Conns |-> 0] /\ mem = [p \in Conns |-> Mig!Nothing]
      /\ batch = [p \in Conns |-> 0] /\ todo = [p \in Conns |-> {}] /\ file = [p \in Conns |-> 0]
      /\ lost = {} /\ cut = FALSE /\ beside = {} /\ commands = 0 /\ kills = 0
  BY DEF Mig!Init
<1>2. None \notin Mig!AllCommands /\ None \notin Conns /\ MaxCommands \in Nat
        /\ MaxKills \in Nat /\ Mig!Nothing # Empty
  BY DatabaseAssumption, DataFields
<1>3. Mig!TypeOK
  <2>1. /\ cmd \in [Conns -> Mig!AllCommands \cup {None}] /\ steps \in [Conns -> Nat]
        /\ pc \in [Conns -> {"idle", "load", "run", "reload", "drop", "save", "write"}]
        /\ batch \in [Conns -> Nat] /\ todo \in [Conns -> SUBSET Nat] /\ file \in [Conns -> Nat]
    BY <1>1
  <2>2. deploy \in Mig!Data /\ mem \in [Conns -> Mig!Data]
    BY <1>1, DataFields
  <2>3. commands \in 0..MaxCommands /\ kills \in 0..MaxKills
    BY <1>1, <1>2
  <2> QED BY <1>1, <2>1, <2>2, <2>3 DEF Mig!TypeOK
<1>4. Mig!Loaded = Mig!Nothing
  BY <1>1, <1>2 DEF Mig!Loaded
<1>5. \A p \in Conns : pc[p] = "idle" /\ cmd[p] = None /\ mem[p] = Mig!Nothing /\ todo[p] = {}
        /\ writer # p
  BY <1>1, <1>2
<1>6. \A p \in Conns : PlanOk(p)
  BY <1>2, <1>5 DEF PlanOk, Saving, Mig!AllCommands
<1>7. \A p \in Conns : MemOk(p)
  BY <1>2, <1>5, NothingIsKept DEF MemOk, Mig!AllCommands
<1>8. LocalOk
  BY <1>4, <1>6, <1>7, NothingIsKept DEF LocalOk
<1>9. AloneOk
  BY <1>5 DEF AloneOk, Mig!Running
<1>10. Exact(Mig!Loaded)
  BY <1>1, <1>4, DataFields, NothingTold DEF Exact
<1>11. OrderlyOk
  BY <1>1, <1>2, <1>5, <1>10 DEF OrderlyOk, Saving
<1>12. LostOk
  BY <1>1, <1>4, <1>5, DataFields DEF LostOk, Saving, Within, Mig!Migrated, Mig!FilesOf
<1> QED BY <1>3, <1>8, <1>9, <1>11, <1>12 DEF SchemaInv

LEMMA StillOk ==
  ASSUME SchemaInv, UNCHANGED <<tables, filled, deploy, writer, Mig!procs, Mig!history,
         Mig!counts>>,
         present \subseteq present', present' \subseteq Mig!AllMigrations,
         present' = present \/ Mig!Running = {}
  PROVE  SchemaInv'
PROOF
<1> USE DEF Mig!procs, Mig!history, Mig!counts
<1>1. Mig!TypeOK'
  BY DEF SchemaInv, Mig!TypeOK
<1>2. Mig!Loaded' = Mig!Loaded /\ Mig!Running' = Mig!Running
  BY DEF Mig!Loaded, Mig!Running
<1>3. ASSUME NEW p \in Conns PROVE PlanOk(p)' /\ MemOk(p)'
  <2>1. PlanOk(p) /\ MemOk(p)
    BY DEF SchemaInv, LocalOk
  <2>2. PlanOk(p)'
    BY <2>1 DEF PlanOk, Saving
  <2>3. MemOk(p)'
    BY <2>1 DEF MemOk, Saving, Mig!Running
  <2> QED BY <2>2, <2>3
<1>4. LocalOk'
  BY <1>2, <1>3 DEF SchemaInv, LocalOk
<1>5. AloneOk'
  BY <1>2 DEF SchemaInv, AloneOk
<1>6. OrderlyOk'
  <2>1. CASE present' = present
    BY <2>1, <1>2 DEF SchemaInv, OrderlyOk, Mig!Orderly, SaverOk, RunnerOk, Blocked, Exact, Saving
  <2>2. CASE Mig!Running = {}
    BY <2>2, <1>2 DEF SchemaInv, OrderlyOk, Mig!Orderly, Exact, Saving, Mig!Running
  <2> QED BY <2>1, <2>2
<1>7. LostOk'
  BY <1>2 DEF SchemaInv, LostOk, Within, Saving, InHand
<1> QED BY <1>1, <1>4, <1>5, <1>6, <1>7 DEF SchemaInv

LEMMA SchemaKept == ASSUME SchemaInv, [Mig!Next]_schemaVars PROVE SchemaInv'
PROOF
<1>1. CASE UNCHANGED schemaVars
  BY <1>1, StillOk DEF schemaVars, Mig!procs, Mig!history, Mig!counts, SchemaInv, Mig!TypeOK
<1>2. ASSUME NEW p \in Conns, Work(p) PROVE SchemaInv'
  BY <1>2, WorkLocal, AloneStays, WorkOrderly, WorkLost DEF SchemaInv
<1>3. ASSUME NEW f \in Mig!AllMigrations, Mig!Release(f) PROVE SchemaInv'
  BY <1>3, StillOk DEF Mig!Release, SchemaInv, Mig!TypeOK
<1> QED BY <1>1, <1>2, <1>3, NextWorks

\* At every moment the consoles, deploy.json and the tables agree as SchemaInv says, for any
\* number of them (MigrationRunner).
THEOREM SchemaAlways == DatabaseSpec => []SchemaInv
PROOF
<1> DEFINE all == <<vars, schemaVars>>
<1>1. DatabaseInit => SchemaInv
  BY SchemaStarts DEF DatabaseInit
<1>2. SchemaInv /\ [DatabaseNext]_all => SchemaInv'
  BY SchemaKept DEF DatabaseNext
<1>3. DatabaseSpec => DatabaseInit /\ [][DatabaseNext]_all
  BY DEF DatabaseSpec
<1> HIDE DEF all
<1> QED BY <1>1, <1>2, <1>3, PTL

\* For any number of consoles, migrations, seeders and batches, and any files that arrive between
\* commands: as long as no command is stopped between a table and its record, no file throws
\* half way, and beside another command only migrate runs, with no idempotent file to do,
\* deploy.json lists the tables in their order whenever no command runs
\* (MigrationRunner::saveDeployData).
THEOREM TheRecordTells == DatabaseSpec => []RecordIsSound
PROOF
<1>1. ASSUME SchemaInv PROVE Mig!RecordIsSound
  <2>1. ASSUME Mig!Orderly, Mig!Running = {}
        PROVE  deploy # Empty /\ Mig!Schema(deploy) = tables
    <3>1. \A p \in Conns : ~Saving(p) /\ pc[p] # "write"
      BY <2>1 DEF Mig!Running, Saving
    <3>2. deploy # Empty /\ Exact(Mig!Loaded)
      BY <1>1, <2>1, <3>1 DEF SchemaInv, OrderlyOk
    <3> QED BY <3>2 DEF Exact, Mig!Loaded
  <2> QED BY <1>1, <2>1 DEF Mig!RecordIsSound, Mig!RecordIsTheSchema, SchemaInv
<1>2. SchemaInv => RecordIsSound
  BY <1>1 DEF RecordIsSound
<1> QED BY <1>2, SchemaAlways, PTL

\* Of the commands that run one at a time, those cut short by a kill, by a file that throws
\* between two of its statements or by an exception among the drops of fresh leave no other
\* table recorded wrongly than those they were working on.
THEOREM OnlyTheLost == DatabaseSpec => []OnlyTheLostIsOff
PROOF
<1>1. ASSUME SchemaInv PROVE Mig!OnlyTheLostIsOff
  <2>1. ASSUME Mig!Running = {}, ~cut, beside = {} PROVE Within(Mig!Loaded, lost)
    BY <1>1, <2>1 DEF SchemaInv, LostOk, Mig!Running, Saving
  <2> QED BY <2>1 DEF Mig!OnlyTheLostIsOff, Within
<1>2. SchemaInv => OnlyTheLostIsOff
  BY <1>1 DEF OnlyTheLostIsOff
<1> QED BY <1>2, SchemaAlways, PTL

LEMMA DownUndoesTheLatest ==
  ASSUME SchemaInv, Mig!Orderly, NEW p \in Conns, Mig!Down(p)
  PROVE  \A t \in tables' : t \in tables
PROOF
<1>1. pc[p] = "run" /\ cmd[p] = "rollback"
  BY DownEffect DEF SchemaInv
<1>2. PICK f \in todo[p] :
        /\ \A e \in mem[p].migrated : e.file \in todo[p] => f \notin e.after
        /\ f \in Mig!Migrated(mem[p]) /\ Dropped({f})
  BY DownEffect DEF SchemaInv
<1>3. Exact(mem[p])
  BY <1>1 DEF SchemaInv, OrderlyOk, RunnerOk
<1>4. MemOk(p)
  BY DEF SchemaInv, LocalOk
<1>5. PICK x \in mem[p].migrated : x.file = f
  BY <1>2 DEF Mig!Migrated, Mig!FilesOf
<1>6. ASSUME NEW t \in tables, t.file # f PROVE f \notin t.after
  <2>1. PICK e \in mem[p].migrated : t = [file |-> e.file, after |-> e.after \ Backfills]
    BY <1>3, EntriesTell DEF Exact, SchemaInv, Mig!TypeOK
  <2>2. CASE e.file \in todo[p]
    BY <1>2, <2>1, <2>2
  <2>3. CASE e.file \notin todo[p]
    BY <1>1, <1>4, <1>5, <2>1, <2>3 DEF MemOk
  <2> QED BY <2>2, <2>3
<1>7. ASSUME NEW t \in tables, t.file # f PROVE [file |-> t.file, after |-> t.after \ {f}] = t
  <2>1. t.after \ {f} = t.after
    BY <1>6, <1>7
  <2>2. t = [file |-> t.file, after |-> t.after]
    BY DEF SchemaInv, Mig!TypeOK
  <2> QED BY <2>1, <2>2
<1>8. tables' = {[file |-> t.file, after |-> t.after \ {f}] : t \in {t \in tables
        : t.file \notin {f}}}
  BY <1>2 DEF Dropped
<1> QED BY <1>7, <1>8

\* A step of a rollback drops the table that was created last of those that are left, whatever
\* batches they came in and however many batches it goes back (MigrationRunner::rollback).
THEOREM TheLatestIsUndone == DatabaseSpec => RollsBackTheLatest
PROOF
<1> DEFINE all == <<vars, schemaVars>>
<1>1. SchemaInv =>
        \A p \in Conns : Mig!Orderly /\ Mig!Down(p) => \A t \in tables' : t \in tables
  BY DownUndoesTheLatest
<1>2. SchemaInv /\ [DatabaseNext]_all =>
        [\A p \in Conns : Mig!Orderly /\ Mig!Down(p) => \A t \in tables' : t \in tables]_Mig!vars
  BY <1>1
<1>3. DatabaseSpec => DatabaseInit /\ [][DatabaseNext]_all
  BY DEF DatabaseSpec
<1> HIDE DEF all
<1> QED BY <1>2, <1>3, SchemaAlways, PTL DEF RollsBackTheLatest, Mig!RollsBackTheLatest
================================================================================
