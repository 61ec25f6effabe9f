---------------------------- MODULE RequestsProofs ----------------------------
(***************************************************************************)
(* What web requests share stays sound, for any number of them, any limits *)
(* and delays, and any bounds.  A key of the file cache keeps what was     *)
(* written to it and shows readers what was there.  The throttle refuses   *)
(* nobody who has not hit the limit, and lets few requests through.  The   *)
(* login policy lets few failures past a lock that outlasts the seconds    *)
(* they are counted in, and forgets them when a login succeeds.            *)
(***************************************************************************)
EXTENDS MCRequests, FiniteSetTheorems, WellFoundedInduction, TLAPS

-----------------------------------------------------------------------------
(* A KEY OF THE CACHE                                                        *)
-----------------------------------------------------------------------------
(* The inductive invariant.                                                  *)

\* Where a call can be, and what it holds there.
ShapeOf(p) ==
  /\ pc[p] = "idle" => op[p] \in Reads \cup {None}
  /\ pc[p] \in {"lookup", "read", "expired"} => op[p] \in {"get", "pull", "remember"}
  /\ pc[p] \in {"recheck", "reexpired", "callback"} => op[p] = "remember"
  /\ pc[p] = "drop" => op[p] \in {"pull", "forget"}
  /\ pc[p] \in {"open", "lock", "write"} => op[p] \in {"put", "increment", "remember"}
  /\ pc[p] \in {"look", "probe", "unlink", "create", "fill"} => op[p] = "add"
  /\ pc[p] \in {"lock", "write", "fill"} <=> handle[p] # None
  /\ pc[p] \in {"write", "fill"} \/ (pc[p] \in {"open", "lock"} /\ op[p] # "increment") => buf[p] # None
  /\ op[p] # "increment" /\ buf[p] # None => buf[p].val \in Values
Shape == \A p \in Procs : ShapeOf(p)

\* Increments that have yet to read the number, and to write it.
Pending == {p \in Procs : op[p] = "increment" /\ pc[p] \in {"open", "lock"}}
Unwritten == {p \in Procs : op[p] = "increment" /\ pc[p] \in {"open", "lock", "write"}}

\* Every number stored is a value and the increments that were counted.
Bounded ==
  /\ IsFiniteSet(Unwritten) /\ Cardinality(Unwritten) <= calls
  /\ \A i \in Inodes : file[i] # Empty => file[i].val + Cardinality(Pending) <= MaxValue + calls
  /\ \A p \in Procs : buf[p] # None => buf[p].val + Cardinality(Pending) <= MaxValue + calls
  /\ tally + Cardinality(Unwritten) <= MaxValue + calls

\* A lock is held by the process that writes under it, and by nobody else.
LockOf(p) ==
  /\ pc[p] = "write" => flock[handle[p]] = p
  /\ \A i \in Inodes : flock[i] = p => pc[p] = "write" /\ handle[p] = i
Locks == \A p \in Procs : LockOf(p)

\* While nobody removes the file, the add() that created it is the only one to win.
OneWinner ==
  ~removed /\ ~reclaimed =>
    /\ path = None => winners = {}
    /\ winners = {} \/ \E p \in Procs : winners = {p}
    /\ \A p \in Procs : pc[p] = "fill" => p \in winners

\* Under Untouched: every handle is of the file the path names;
Attached ==
  /\ path = None => tally = 0 /\ ~lasting
  /\ \A p \in Procs : handle[p] # None => handle[p] = path

Filling == \E p \in Procs : pc[p] = "fill"

\* a writer has truncated it, and writes the number the writes add up to, unless an add()
\* is going to clobber it;
WriterOf(p) ==
  pc[p] = "write" =>
    /\ file[path] = Empty
    /\ op[p] = "increment" /\ ~Filling => buf[p].val = tally + 1
\* what an add() is about to write is the last write, as long as nobody came between;
FillerOf(p) ==
  pc[p] = "fill" /\ file[path] = Empty /\ flock[path] = None =>
    tally = buf[p].val /\ (lasting <=> buf[p].ttl = Forever)
\* and between writes the file shows the last one.
Resting ==
  path # None /\ ~Filling /\ flock[path] = None =>
    \/ file[path] = Empty /\ tally = 0 /\ ~lasting
    \/ file[path] # Empty /\ file[path].val = tally /\ (lasting <=> file[path].ttl = Forever)

Undisturbed ==
  Untouched => Attached /\ Resting /\ \A p \in Procs : WriterOf(p) /\ FillerOf(p)

\* What a read has seen so far covers what it may answer.
ReadOf(p) ==
  op[p] \in Reads =>
    /\ pc[p] # "idle" => Shown \in seen[p]
    /\ pc[p] = "expired" => None \in seen[p]
    /\ pc[p] \in {"idle", "drop"} => ret[p] \in seen[p]
ReadsSee == \A p \in Procs : ReadOf(p)

IInv == TypeOK /\ Shape /\ Bounded /\ Locks /\ OneWinner /\ Undisturbed /\ ReadsSee
-----------------------------------------------------------------------------
(* Constants, entries and counts.                                            *)

LEMMA Bounds ==
  /\ MaxCalls \in Nat /\ MaxCrashes \in Nat
  /\ MaxValue \in Nat /\ MaxTtl \in Nat
  /\ \A v \in Values : v \in 0..MaxValue
  /\ Ttls \subseteq Lives /\ Values \subseteq Numbers
  /\ None \notin Nat /\ None \notin Inodes /\ None \notin Procs /\ None \notin Entries
  /\ None \notin Numbers /\ None \notin OpNames
  /\ Empty \notin Entries /\ Empty # None /\ Forever \notin Nat
<1>1. MaxValue \in Values /\ \A u \in Values : u <= MaxValue
  BY CacheAssumption DEF MaxValue
<1>2. MaxTtl \in {0} \cup (Ttls \ {Forever}) /\ \A u \in Ttls \ {Forever} : u <= MaxTtl
  BY CacheAssumption DEF MaxTtl
<1>3. MaxTtl \in Nat /\ MaxValue \in Nat
  BY <1>1, <1>2, CacheAssumption
<1>4. Ttls \subseteq Lives
  BY <1>2, <1>3, CacheAssumption DEF Lives
<1>5. \A v \in Values : v \in 0..MaxValue
  <2> SUFFICES ASSUME NEW v \in Values PROVE v \in 0..MaxValue
    OBVIOUS
  <2>1. v \in Nat /\ v <= MaxValue
    BY <1>1, CacheAssumption
  <2> QED
    BY <1>3, <2>1
<1>6. Values \subseteq Numbers /\ None \notin Numbers
  BY <1>3, <1>5, CacheAssumption DEF Numbers
<1> QED
  BY <1>3, <1>4, <1>5, <1>6, CacheAssumption

\* A second changes what is left of an entry, not what it says nor whether it lasts.
LEMMA SpentFacts ==
  /\ Spent(Empty) = Empty /\ Spent(None) = None
  /\ \A e \in Entries : /\ Spent(e) \in Entries /\ Spent(e).val = e.val
                        /\ Spent(e).ttl = Forever <=> e.ttl = Forever
<1>1. \A t \in Lives : Sooner(t) \in Lives /\ (Sooner(t) = Forever <=> t = Forever)
  BY Bounds DEF Sooner, Lives
<1>2. ASSUME NEW e \in Entries
      PROVE  /\ Spent(e) \in Entries /\ Spent(e).val = e.val
             /\ Spent(e).ttl = Forever <=> e.ttl = Forever
  <2>1. e.ttl \in Lives /\ Spent(e) = [e EXCEPT !.ttl = Sooner(e.ttl)]
    BY Bounds DEF Spent, Entries
  <2>2. Sooner(e.ttl) \in Lives /\ (Sooner(e.ttl) = Forever <=> e.ttl = Forever)
    BY <1>1, <2>1
  <2> QED
    BY <2>1, <2>2 DEF Entries
<1> QED
  BY <1>2 DEF Spent

\* Two sets that differ at most in p.
LEMMA OneApart ==
  ASSUME NEW S, NEW T, NEW p, IsFiniteSet(S), S \ {p} = T \ {p}
  PROVE  /\ IsFiniteSet(T) /\ Cardinality(S) \in Nat /\ Cardinality(T) \in Nat
         /\ (p \in S <=> p \in T) => Cardinality(T) = Cardinality(S)
         /\ p \in S /\ p \notin T => Cardinality(T) = Cardinality(S) - 1
         /\ p \notin S /\ p \in T => Cardinality(T) = Cardinality(S) + 1
<1>1. CASE p \in S <=> p \in T
  <2>1. S = T
    BY <1>1
  <2> QED
    BY <2>1, <1>1, FS_CardinalityType
<1>2. CASE p \in S /\ p \notin T
  <2>1. T = S \ {p}
    BY <1>2
  <2> QED
    BY <2>1, <1>2, FS_RemoveElement, FS_CardinalityType
<1>3. CASE p \notin S /\ p \in T
  <2>1. T = S \cup {p}
    BY <1>3
  <2> QED
    BY <2>1, <1>3, FS_AddElement, FS_CardinalityType
<1> QED
  BY <1>1, <1>2, <1>3

LEMMA Counts ==
  ASSUME Bounded
  PROVE  /\ IsFiniteSet(Pending) /\ Pending \subseteq Unwritten
         /\ Cardinality(Pending) \in Nat /\ Cardinality(Unwritten) \in Nat
         /\ Cardinality(Pending) <= Cardinality(Unwritten)
<1>1. Pending \subseteq Unwritten /\ IsFiniteSet(Unwritten)
  BY DEF Pending, Unwritten, Bounded
<1>2. IsFiniteSet(Pending) /\ Cardinality(Pending) <= Cardinality(Unwritten)
  BY <1>1, FS_Subset
<1> QED
  BY <1>1, <1>2, FS_CardinalityType

\* A number on its own: one process counts at least itself.
LEMMA SomePending ==
  ASSUME Bounded, NEW p \in Pending
  PROVE  Cardinality(Pending) >= 1
<1>1. Cardinality(Pending \ {p}) = Cardinality(Pending) - 1 /\ IsFiniteSet(Pending \ {p})
  BY Counts, FS_RemoveElement
<1> QED
  BY <1>1, Counts, FS_CardinalityType

LEMMA SomeUnwritten ==
  ASSUME Bounded, NEW p \in Unwritten
  PROVE  Cardinality(Unwritten) >= 1
<1>1. Cardinality(Unwritten \ {p}) = Cardinality(Unwritten) - 1 /\ IsFiniteSet(Unwritten \ {p})
  BY FS_RemoveElement DEF Bounded
<1> QED
  BY <1>1, Counts, FS_CardinalityType

LEMMA InitIsSound == Init => IInv
<1> SUFFICES ASSUME Init PROVE IInv
  OBVIOUS
<1> USE Bounds DEF Init
<1>1. TypeOK
  <2>1. 0 \in Numbers /\ 0 \in 0..MaxCalls /\ 0 \in 0..MaxCrashes
    BY DEF Numbers
  <2> QED
    BY <2>1 DEF TypeOK, PCs, Reads
<1>2. Shape /\ Locks /\ OneWinner
  BY DEF Shape, ShapeOf, Locks, LockOf, OneWinner
<1>3. Bounded
  <2>1. Pending = {} /\ Unwritten = {} /\ Cardinality({}) = 0 /\ IsFiniteSet({})
    BY FS_EmptySet DEF Pending, Unwritten
  <2> QED
    BY <2>1 DEF Bounded
<1>4. Undisturbed
  BY DEF Undisturbed, Attached, Resting, WriterOf, FillerOf
<1>5. ReadsSee
  <2>1. \A p \in Procs : op[p] \notin Reads
    BY DEF Reads, OpNames
  <2> QED
    BY <2>1 DEF ReadsSee, ReadOf
<1> QED
  BY <1>1, <1>2, <1>3, <1>4, <1>5 DEF IInv
-----------------------------------------------------------------------------
(* What a step of one process leaves alone.                                  *)

\* Nobody else moves.
Moves(p) ==
  \A q \in Procs \ {p} :
    /\ op'[q] = op[q] /\ pc'[q] = pc[q] /\ handle'[q] = handle[q] /\ buf'[q] = buf[q] /\ ret'[q] = ret[q]

\* The types of everything but seen.
Typed ==
  /\ path \in Inodes \cup {None}
  /\ file \in [Inodes -> Entries \cup {Empty}]
  /\ flock \in [Inodes -> Procs \cup {None}]
  /\ op \in [Procs -> OpNames \cup {None}] /\ pc \in [Procs -> PCs]
  /\ handle \in [Procs -> Inodes \cup {None}]
  /\ buf \in [Procs -> Entries \cup {None}]
  /\ ret \in [Procs -> Numbers \cup {None}]
  /\ \A p \in Procs : op[p] \notin Reads => ret[p] = None
  /\ tally \in Numbers /\ removed \in BOOLEAN /\ reclaimed \in BOOLEAN /\ lasting \in BOOLEAN
  /\ winners \subseteq Procs /\ clobbered \in BOOLEAN
  /\ calls \in 0..MaxCalls /\ crashes \in 0..MaxCrashes

LEMMA ShownIsTyped == ASSUME Typed PROVE Shown \in Numbers \cup {None}
BY DEF Typed, Shown, Live, Entries

LEMMA WatchKeepsTypes == ASSUME TypeOK, Typed', Watch PROVE TypeOK'
<1>1. Shown \in Numbers \cup {None} /\ Shown' \in Numbers \cup {None}
  <2>1. Typed
    BY DEF TypeOK, Typed
  <2>2. Shown' \in Numbers \cup {None}
    BY DEF Typed, Shown, Live, Entries
  <2> QED
    BY <2>1, <2>2, ShownIsTyped
<1>2. seen' \in [Procs -> SUBSET (Numbers \cup {None})]
  BY <1>1 DEF Watch, TypeOK
<1>3. \A p \in Procs : op'[p] \notin Reads => seen'[p] = {}
  BY DEF Watch
<1> QED
  BY <1>2, <1>3 DEF Typed, TypeOK

LEMMA ShapeKeeps ==
  ASSUME Shape, NEW p \in Procs, Moves(p), ShapeOf(p)'
  PROVE  Shape'
<1> SUFFICES ASSUME NEW q \in Procs, q # p PROVE ShapeOf(q)'
  BY DEF Shape
<1> QED
  BY DEF Shape, ShapeOf, Moves

\* The step of p as a reader.
OwnRead(p) ==
  op'[p] \in Reads =>
    \/ pc[p] = "idle" /\ pc'[p] = "lookup"
    \/ /\ pc[p] # "idle" /\ op[p] = op'[p]
       /\ pc'[p] = "expired" => Shown = None
       /\ pc'[p] \in {"idle", "drop"} => ret'[p] \in seen[p]

LEMMA ReadsKeep ==
  ASSUME TypeOK, ReadsSee, Watch, NEW p \in Procs, Moves(p), OwnRead(p)
  PROVE  ReadsSee'
<1> SUFFICES ASSUME NEW q \in Procs, op'[q] \in Reads
             PROVE  ReadOf(q)'
  BY DEF ReadsSee, ReadOf
<1>1. seen'[q] = IF pc[q] # "idle" THEN seen[q] \cup {Shown'}
                 ELSE IF pc'[q] # "idle" THEN {Shown, Shown'} ELSE seen[q]
  BY DEF Watch
<1>2. CASE q # p
  <2>1. op'[q] = op[q] /\ pc'[q] = pc[q] /\ ret'[q] = ret[q]
    BY <1>2 DEF Moves
  <2> QED
    BY <1>1, <2>1 DEF ReadsSee, ReadOf
<1>3. CASE q = p
  <2>1. CASE pc[p] = "idle"
    BY <1>1, <1>3, <2>1 DEF OwnRead, ReadOf
  <2>2. CASE pc[p] # "idle"
    BY <1>1, <1>3, <2>2 DEF OwnRead, ReadsSee, ReadOf
  <2> QED
    BY <2>1, <2>2
<1> QED
  BY <1>2, <1>3

\* The step of p as one that counts: what it stores is there, or a value, or one more than it
\* found, and then it is one increment less.
OwnCount(p) ==
  /\ calls' \in {calls, calls + 1}
  /\ p \notin Unwritten /\ p \in Unwritten' => calls' = calls + 1
  /\ p \notin Pending /\ p \in Pending' => calls' = calls + 1
  /\ \A i \in Inodes : file'[i] # Empty => file'[i] = file[i] \/ (buf[p] # None /\ file'[i] = buf[p])
  /\ buf'[p] # None =>
       \/ buf'[p] = buf[p]
       \/ buf'[p].val \in Values
       \/ /\ p \in Pending /\ p \notin Pending'
          /\ buf'[p].val + Cardinality(Pending) <= MaxValue + calls + 1
  /\ \/ tally' = tally \/ tally' \in Values \/ tally' = 0
     \/ tally' = tally + 1 /\ p \in Unwritten /\ p \notin Unwritten'

LEMMA BoundedKeeps ==
  ASSUME TypeOK, Typed', Bounded, NEW p \in Procs, Moves(p), OwnCount(p)
  PROVE  Bounded'
<1> DEFINE P == Cardinality(Pending)
           U == Cardinality(Unwritten)
           P1 == Cardinality(Pending')
           U1 == Cardinality(Unwritten')
<1>1. Pending \ {p} = Pending' \ {p} /\ Unwritten \ {p} = Unwritten' \ {p}
  BY DEF Moves, Pending, Unwritten
<1>2. /\ IsFiniteSet(Unwritten') /\ P \in Nat /\ P1 \in Nat /\ U \in Nat /\ U1 \in Nat /\ P <= U
      /\ calls + P1 <= calls' + P /\ calls + U1 <= calls' + U
      /\ p \in Pending /\ p \notin Pending' => P1 = P - 1
      /\ p \in Unwritten /\ p \notin Unwritten' => U1 = U - 1
      /\ calls \in Nat /\ calls' \in Nat /\ MaxValue \in Nat
  <2>1. IsFiniteSet(Pending) /\ IsFiniteSet(Unwritten) /\ P <= U
    BY Counts DEF Bounded
  <2>2. /\ P \in Nat /\ P1 \in Nat
        /\ (p \in Pending <=> p \in Pending') => P1 = P
        /\ p \in Pending /\ p \notin Pending' => P1 = P - 1
        /\ p \notin Pending /\ p \in Pending' => P1 = P + 1
    BY <1>1, <2>1, OneApart
  <2>3. /\ IsFiniteSet(Unwritten') /\ U \in Nat /\ U1 \in Nat
        /\ (p \in Unwritten <=> p \in Unwritten') => U1 = U
        /\ p \in Unwritten /\ p \notin Unwritten' => U1 = U - 1
        /\ p \notin Unwritten /\ p \in Unwritten' => U1 = U + 1
    BY <1>1, <2>1, OneApart
  <2>4. calls \in Nat /\ calls' \in Nat /\ MaxValue \in Nat
    BY Bounds DEF TypeOK, Typed
  <2> QED
    BY <2>1, <2>2, <2>3, <2>4 DEF OwnCount
<1>3. U1 <= calls' /\ P1 <= calls' /\ U <= calls
  <2>1. P1 <= U1
    <3>1. Pending' \subseteq Unwritten'
      BY DEF Pending, Unwritten
    <3> QED
      BY <3>1, <1>2, FS_Subset
  <2>2. U <= calls
    BY DEF Bounded
  <2> QED
    BY <2>1, <2>2, <1>2
<1>4. \A v \in Values : v \in Nat /\ v <= MaxValue
  BY Bounds
<1>5. ASSUME NEW x \in Nat, x + P <= MaxValue + calls PROVE x + P1 <= MaxValue + calls'
  <2> QED
    BY <1>2, <1>5
<1>6. ASSUME NEW i \in Inodes, file'[i] # Empty PROVE file'[i].val + P1 <= MaxValue + calls'
  <2>1. file'[i].val \in Nat
    BY <1>6 DEF Typed, Entries, Numbers
  <2>2. file'[i].val + P <= MaxValue + calls
    BY <1>6 DEF OwnCount, Bounded
  <2> QED
    BY <2>1, <2>2, <1>5
<1>7. ASSUME NEW q \in Procs, buf'[q] # None PROVE buf'[q].val + P1 <= MaxValue + calls'
  <2>1. buf'[q].val \in Nat
    BY <1>7 DEF Typed, Entries, Numbers
  <2>2. CASE buf'[q] = buf[q]
    <3>1. buf'[q].val + P <= MaxValue + calls
      BY <1>7, <2>2 DEF Bounded
    <3> QED
      BY <2>1, <3>1, <1>5
  <2>3. CASE buf'[q] # buf[q]
    <3>1. q = p
      BY <2>3 DEF Moves
    <3>2. CASE buf'[q].val \in Values
      <4> QED
        BY <3>2, <1>2, <1>3, <1>4
    <3>3. CASE buf'[q].val \notin Values
      <4>1. p \in Pending /\ p \notin Pending' /\ buf'[q].val + P <= MaxValue + calls + 1
        BY <1>7, <2>3, <3>1, <3>3 DEF OwnCount
      <4> QED
        BY <4>1, <2>1, <1>2 DEF OwnCount
    <3> QED
      BY <3>2, <3>3
  <2> QED
    BY <2>2, <2>3
<1>8. tally' + U1 <= MaxValue + calls'
  <2>1. tally + U <= MaxValue + calls /\ tally \in Nat /\ tally' \in Nat
    BY DEF Bounded, TypeOK, Typed, Numbers
  <2>2. CASE tally' = tally + 1 /\ p \in Unwritten /\ p \notin Unwritten'
    <3> QED
      BY <2>1, <2>2, <1>2 DEF OwnCount
  <2>3. CASE tally' = tally
    <3> QED
      BY <2>1, <2>3, <1>2
  <2>4. CASE tally' \in Values \/ tally' = 0
    <3> QED
      BY <2>1, <2>4, <1>2, <1>3, <1>4
  <2> QED
    BY <2>2, <2>3, <2>4 DEF OwnCount
<1> QED
  BY <1>2, <1>3, <1>6, <1>7, <1>8 DEF Bounded
-----------------------------------------------------------------------------
(* Steps without a file in hand: they look at the key, or take it away.      *)

Aside(p) ==
  /\ Moves(p) /\ handle' = handle
  /\ pc[p] \notin {"lock", "write", "fill"} /\ pc'[p] \notin {"lock", "write", "fill"}
  /\ UNCHANGED <<file, flock, tally, lasting, winners, clobbered>>
  /\ ~removed' /\ ~reclaimed' => path' = path /\ ~removed /\ ~reclaimed

LEMMA AsideKeeps ==
  ASSUME TypeOK, Locks, OneWinner, Undisturbed, NEW p \in Procs, Aside(p)
  PROVE  Locks' /\ OneWinner' /\ Undisturbed'
<1> USE DEF Aside
<1>1. \A q \in Procs : /\ pc'[q] = "fill" <=> pc[q] = "fill"
                       /\ pc'[q] = "write" <=> pc[q] = "write"
                       /\ pc'[q] = "write" \/ pc'[q] = "fill" => buf'[q] = buf[q] /\ op'[q] = op[q]
  BY DEF Moves
<1>2. Locks'
  BY <1>1 DEF Locks, LockOf
<1>3. OneWinner'
  BY <1>1 DEF OneWinner
<1>4. Undisturbed'
  <2> SUFFICES ASSUME Untouched' PROVE Attached' /\ Resting' /\ \A q \in Procs : WriterOf(q)' /\ FillerOf(q)'
    BY DEF Undisturbed
  <2>1. Untouched /\ path' = path
    BY DEF Untouched
  <2>2. Filling' <=> Filling
    BY <1>1 DEF Filling
  <2>3. Attached' /\ Resting'
    BY <2>1, <2>2 DEF Undisturbed, Attached, Resting
  <2>4. \A q \in Procs : WriterOf(q)' /\ FillerOf(q)'
    BY <2>1, <2>2, <1>1 DEF Undisturbed, WriterOf, FillerOf
  <2> QED
    BY <2>3, <2>4
<1> QED
  BY <1>2, <1>3, <1>4

\* What one step of p comes to, for p itself.
Own(p) == Typed' /\ Moves(p) /\ ShapeOf(p)' /\ OwnRead(p) /\ OwnCount(p)

\* A returned call holds nothing.
LEMMA ReturnFacts ==
  ASSUME TypeOK, NEW p \in Procs, NEW x \in Numbers \cup {None}, Return(p, x)
  PROVE  /\ Moves(p) /\ pc'[p] = "idle" /\ handle'[p] = None /\ buf'[p] = None
         /\ op'[p] = IF op[p] \in Reads THEN op[p] ELSE None
         /\ ret'[p] = IF op[p] \in Reads THEN x ELSE None
         /\ op' \in [Procs -> OpNames \cup {None}] /\ pc' \in [Procs -> PCs]
         /\ handle' \in [Procs -> Inodes \cup {None}] /\ buf' \in [Procs -> Entries \cup {None}]
         /\ ret' \in [Procs -> Numbers \cup {None}]
         /\ \A q \in Procs : op'[q] \notin Reads => ret'[q] = None
<1> USE DEF Return, Leave, GoTo, TypeOK
<1>1. /\ op' = [op EXCEPT ![p] = IF op[p] \in Reads THEN op[p] ELSE None]
      /\ ret' = [ret EXCEPT ![p] = IF op[p] \in Reads THEN x ELSE None]
      /\ pc' = [pc EXCEPT ![p] = "idle"]
      /\ handle' = [handle EXCEPT ![p] = None] /\ buf' = [buf EXCEPT ![p] = None]
  OBVIOUS
<1>2. "idle" \in PCs
  BY DEF PCs
<1> QED
  BY <1>1, <1>2 DEF Moves

\* The result of a FileStore::get, passed on.
LEMMA GotFacts ==
  ASSUME TypeOK, Shape, NEW p \in Procs, NEW x \in Numbers \cup {None},
         pc[p] \in {"lookup", "read", "recheck", "expired", "reexpired"}, Got(p, x)
  PROVE  /\ Moves(p) /\ handle' = handle /\ pc'[p] \in {"idle", "drop", "callback", "recheck"}
         /\ op' \in [Procs -> OpNames \cup {None}] /\ pc' \in [Procs -> PCs]
         /\ buf' \in [Procs -> Entries \cup {None}] /\ ret' \in [Procs -> Numbers \cup {None}]
         /\ \A q \in Procs : op'[q] \notin Reads => ret'[q] = None
         /\ buf'[p] # None => buf'[p] = buf[p]
         /\ ShapeOf(p)' /\ op'[p] # "increment"
         /\ op'[p] \in Reads => op[p] = op'[p] /\ pc'[p] \in {"idle", "drop"} /\ ret'[p] = x
<1> USE DEF TypeOK
<1>1. /\ handle[p] = None /\ op[p] \in {"get", "pull", "remember"}
      /\ buf[p] # None => buf[p].val \in Values
      /\ pc[p] \in {"recheck", "reexpired"} => op[p] = "remember"
      /\ "idle" \in PCs /\ "drop" \in PCs /\ "callback" \in PCs /\ "recheck" \in PCs
  BY DEF Shape, ShapeOf, PCs
<1>2. CASE Return(p, x)
  <2>1. handle' = handle
    BY <1>1, <1>2 DEF Return, Leave
  <2>2. ShapeOf(p)'
    BY <1>1, <1>2, ReturnFacts, Bounds DEF ShapeOf, Reads, OpNames
  <2> QED
    BY <1>1, <1>2, <2>1, <2>2, ReturnFacts, Bounds DEF Reads, OpNames
<1>3. CASE /\ op[p] = "remember" /\ pc[p] \notin {"recheck", "reexpired"}
           /\ pc' = [pc EXCEPT ![p] = IF x = None THEN "callback" ELSE "recheck"]
           /\ UNCHANGED <<op, handle, buf, ret>>
  <2>1. ShapeOf(p)'
    BY <1>1, <1>3 DEF ShapeOf
  <2> QED
    BY <1>1, <1>3, <2>1 DEF Moves, Reads
<1>4. CASE /\ op[p] = "pull" /\ pc' = [pc EXCEPT ![p] = "drop"] /\ ret' = [ret EXCEPT ![p] = x]
           /\ UNCHANGED <<op, handle, buf>>
  <2>1. ShapeOf(p)'
    BY <1>1, <1>4 DEF ShapeOf
  <2> QED
    BY <1>1, <1>4, <2>1 DEF Moves, Reads
<1> QED
  BY <1>1, <1>2, <1>3, <1>4 DEF Got, GoTo

LEMMA ReadSteps ==
  ASSUME IInv, NEW p \in Procs, Lookup(p) \/ Read(p) \/ ForgetExpired(p)
  PROVE  Own(p) /\ Aside(p)
<1> USE DEF IInv
<1>1. /\ pc[p] \in {"lookup", "read", "recheck", "expired", "reexpired"}
      /\ UNCHANGED <<file, flock, tally, lasting, winners, clobbered, removed, calls, crashes>>
      /\ \/ UNCHANGED <<path, reclaimed>>
         \/ path' = None /\ reclaimed' = TRUE
  BY DEF Lookup, Read, ForgetExpired, store, history
<1>2. op[p] \in {"get", "pull", "remember"} /\ (pc[p] \in {"recheck", "reexpired"} => op[p] = "remember")
  BY <1>1 DEF Shape, ShapeOf
<1>3. Shown \in Numbers \cup {None}
  <2>1. Typed
    BY DEF TypeOK, Typed
  <2> QED
    BY <2>1, ShownIsTyped
<1>4. CASE \E x \in Numbers \cup {None} :
             Got(p, x) /\ (op[p] \in Reads => x \in seen[p])
  <2>1. PICK x \in Numbers \cup {None} : Got(p, x) /\ (op[p] \in Reads => x \in seen[p])
    BY <1>4
  <2>2. /\ Moves(p) /\ handle' = handle /\ pc'[p] \in {"idle", "drop", "callback", "recheck"}
        /\ op' \in [Procs -> OpNames \cup {None}] /\ pc' \in [Procs -> PCs]
        /\ buf' \in [Procs -> Entries \cup {None}] /\ ret' \in [Procs -> Numbers \cup {None}]
        /\ \A q \in Procs : op'[q] \notin Reads => ret'[q] = None
        /\ buf'[p] # None => buf'[p] = buf[p]
        /\ ShapeOf(p)' /\ op'[p] # "increment"
        /\ op'[p] \in Reads => op[p] = op'[p] /\ pc'[p] \in {"idle", "drop"} /\ ret'[p] = x
    BY <1>1, <2>1, GotFacts
  <2>3. Typed'
    BY <1>1, <2>2 DEF Typed, TypeOK
  <2>4. OwnRead(p)
    BY <1>1, <2>1, <2>2 DEF OwnRead
  <2>5. OwnCount(p)
    BY <1>1, <2>2 DEF OwnCount, Pending, Unwritten
  <2>6. Aside(p)
    BY <1>1, <2>2 DEF Aside
  <2> QED
    BY <2>2, <2>3, <2>4, <2>5, <2>6 DEF Own
<1>5. CASE /\ UNCHANGED <<path, reclaimed, op, handle, buf, ret>>
           /\ \/ pc' = [pc EXCEPT ![p] = "read"] /\ pc[p] = "lookup"
              \/ pc' = [pc EXCEPT ![p] = "expired"] /\ pc[p] = "read" /\ Shown = None
              \/ pc' = [pc EXCEPT ![p] = "reexpired"] /\ pc[p] = "recheck" /\ Shown = None
  <2>1. "read" \in PCs /\ "expired" \in PCs /\ "reexpired" \in PCs
    BY DEF PCs
  <2>2. Moves(p) /\ pc' \in [Procs -> PCs] /\ pc'[p] \in {"read", "expired", "reexpired"}
    BY <1>5, <2>1 DEF Moves, TypeOK
  <2>3. Typed'
    BY <1>1, <1>5, <2>2 DEF Typed, TypeOK
  <2>4. OwnRead(p)
    BY <1>1, <1>5, <2>2 DEF OwnRead, TypeOK
  <2>5. OwnCount(p)
    BY <1>1, <1>5, <2>2 DEF OwnCount, Pending, Unwritten
  <2>6. ShapeOf(p)'
    BY <1>1, <1>2, <1>5, <2>2 DEF ShapeOf, Shape, TypeOK
  <2>7. Aside(p)
    BY <1>1, <1>5, <2>2 DEF Aside
  <2> QED
    BY <2>2, <2>3, <2>4, <2>5, <2>6, <2>7 DEF Own
<1>6. CASE Lookup(p)
  <2>1. CASE path = None
    <3>1. Got(p, None) /\ Shown = None
      BY <1>6, <2>1 DEF Lookup, Shown
    <3> QED
      BY <1>1, <3>1, <1>4 DEF ReadsSee, ReadOf
  <2>2. CASE path # None
    BY <1>6, <2>2, <1>5 DEF Lookup, GoTo, store, history
  <2> QED
    BY <2>1, <2>2
<1>7. CASE Read(p)
  <2>1. CASE path # None /\ file[path] # Empty /\ file[path].ttl = 0
    <3>1. Shown = None
      BY <2>1 DEF Shown, Live
    <3> QED
      BY <1>7, <2>1, <3>1, <1>5 DEF Read, GoTo, store, history
  <2>2. CASE ~(path # None /\ file[path] # Empty /\ file[path].ttl = 0)
    <3>1. Got(p, Shown)
      BY <1>7, <2>2 DEF Read
    <3> QED
      BY <1>1, <1>3, <3>1, <1>4 DEF ReadsSee, ReadOf
  <2> QED
    BY <2>1, <2>2
<1>8. CASE ForgetExpired(p)
  <2>1. Got(p, None) /\ pc[p] \in {"expired", "reexpired"}
    BY <1>8 DEF ForgetExpired
  <2>2. op[p] \in Reads => None \in seen[p]
    BY <1>2, <2>1 DEF ReadsSee, ReadOf, Reads
  <2> QED
    BY <2>1, <2>2, <1>4
<1> QED
  BY <1>6, <1>7, <1>8
LEMMA Payload ==
  ASSUME TypeOK, NEW p \in Procs, NEW v \in Values, NEW t \in Ttls,
         buf' = [buf EXCEPT ![p] = [val |-> v, ttl |-> t]]
  PROVE  /\ buf' \in [Procs -> Entries \cup {None}]
         /\ buf'[p] = [val |-> v, ttl |-> t] /\ buf'[p] # None /\ buf'[p].val = v /\ buf'[p].ttl = t
<1>1. [val |-> v, ttl |-> t] \in Entries
  BY Bounds DEF Entries
<1> QED
  BY <1>1, Bounds DEF TypeOK

LEMMA CallStep ==
  ASSUME IInv, NEW p \in Procs, NEW o \in OpNames, Call(p, o)
  PROVE  Own(p) /\ Aside(p)
<1> USE DEF IInv
<1>1. /\ pc[p] = "idle" /\ calls' = calls + 1 /\ calls < MaxCalls
      /\ op' = [op EXCEPT ![p] = o] /\ ret' = [ret EXCEPT ![p] = None] /\ pc' = [pc EXCEPT ![p] = First(o)]
      /\ UNCHANGED <<path, file, flock, handle, tally, lasting, winners, clobbered, removed, reclaimed, crashes>>
  BY DEF Call, GoTo, store, history
<1>2. handle[p] = None /\ op[p] # "increment" /\ (buf[p] # None => buf[p].val \in Values)
  BY <1>1, Bounds DEF Shape, ShapeOf, Reads, OpNames
<1>3. /\ buf' \in [Procs -> Entries \cup {None}] /\ \A q \in Procs \ {p} : buf'[q] = buf[q]
      /\ o = "put" => buf'[p] # None
      /\ buf'[p] # None => buf'[p].val \in Values
  <2>1. CASE o = "put"
    <3>1. PICK v \in Values, t \in Ttls : buf' = [buf EXCEPT ![p] = [val |-> v, ttl |-> t]]
      BY <2>1 DEF Call
    <3> QED
      BY <3>1, Payload
  <2>2. CASE o # "put"
    BY <1>2, <2>2 DEF Call, TypeOK
  <2> QED
    BY <2>1, <2>2
<1>4. /\ First(o) \in {"lookup", "open", "look", "drop"} /\ First(o) \in PCs
      /\ First(o) = "lookup" => o \in {"get", "pull", "remember"}
      /\ First(o) = "open" => o \in {"put", "increment"}
      /\ First(o) = "look" => o = "add"
      /\ First(o) = "drop" => o = "forget"
      /\ o \in Reads => First(o) = "lookup"
  BY DEF First, OpNames, PCs, Reads
<1>5. /\ op' \in [Procs -> OpNames \cup {None}] /\ pc' \in [Procs -> PCs] /\ ret' \in [Procs -> Numbers \cup {None}]
      /\ op'[p] = o /\ pc'[p] = First(o) /\ handle'[p] = None /\ ret'[p] = None /\ calls' \in 0..MaxCalls
  BY <1>1, <1>2, <1>4, Bounds DEF TypeOK
<1>6. Moves(p)
  BY <1>1, <1>3 DEF Moves, TypeOK
<1>7. Typed'
  BY <1>1, <1>3, <1>5 DEF Typed, TypeOK
<1>8. ShapeOf(p)'
  BY <1>3, <1>4, <1>5 DEF ShapeOf
<1>9. OwnRead(p)
  BY <1>1, <1>4, <1>5 DEF OwnRead
<1>10. OwnCount(p)
  BY <1>1, <1>3 DEF OwnCount
<1>11. Aside(p)
  BY <1>1, <1>4, <1>5, <1>6 DEF Aside
<1> QED
  BY <1>6, <1>7, <1>8, <1>9, <1>10, <1>11 DEF Own

\* The steps of an add() that does not create, of a forget(), and of a callback.
LEMMA SideSteps ==
  ASSUME IInv, NEW p \in Procs,
         Drop(p) \/ Callback(p) \/ Look(p) \/ Probe(p) \/ Unlink(p) \/ CreateRefused(p)
  PROVE  Own(p) /\ Aside(p)
<1> USE DEF IInv
<1>1. /\ pc[p] \in {"drop", "callback", "look", "probe", "unlink", "create"}
      /\ UNCHANGED <<file, flock, tally, lasting, winners, clobbered, calls, crashes>>
      /\ \/ UNCHANGED <<path, removed, reclaimed>>
         \/ path' = None /\ removed' = TRUE /\ UNCHANGED reclaimed
         \/ path' = None /\ reclaimed' = TRUE /\ UNCHANGED removed
  BY DEF Drop, Callback, Look, Probe, Unlink, CreateRefused, store, history, TypeOK
<1>2. /\ handle[p] = None /\ op[p] # "increment" /\ (buf[p] # None => buf[p].val \in Values)
      /\ pc[p] = "drop" => op[p] \in {"pull", "forget"}
      /\ pc[p] = "callback" => op[p] = "remember"
      /\ pc[p] \in {"look", "probe", "unlink", "create"} => op[p] = "add"
  BY <1>1, Bounds DEF Shape, ShapeOf
<1>3. CASE \E x \in Numbers \cup {None} : Return(p, x) /\ (op[p] \in Reads => x \in seen[p])
  <2>1. PICK x \in Numbers \cup {None} : Return(p, x) /\ (op[p] \in Reads => x \in seen[p])
    BY <1>3
  <2>2. /\ Moves(p) /\ pc'[p] = "idle" /\ handle'[p] = None /\ buf'[p] = None
        /\ op'[p] = IF op[p] \in Reads THEN op[p] ELSE None
        /\ ret'[p] = IF op[p] \in Reads THEN x ELSE None
        /\ op' \in [Procs -> OpNames \cup {None}] /\ pc' \in [Procs -> PCs]
        /\ handle' \in [Procs -> Inodes \cup {None}] /\ buf' \in [Procs -> Entries \cup {None}]
        /\ ret' \in [Procs -> Numbers \cup {None}]
        /\ \A q \in Procs : op'[q] \notin Reads => ret'[q] = None
    BY <2>1, ReturnFacts
  <2>3. handle' = handle
    BY <1>2, <2>1 DEF Return, Leave, TypeOK
  <2>4. Typed'
    BY <1>1, <2>2 DEF Typed, TypeOK
  <2>5. op'[p] \in Reads \cup {None} /\ (op'[p] \in Reads => op'[p] = op[p]) /\ op'[p] # "increment"
    BY <2>2, <1>2, Bounds DEF Reads, OpNames
  <2>6. ShapeOf(p)'
    BY <2>2, <2>5 DEF ShapeOf
  <2>7. OwnRead(p)
    BY <1>1, <2>1, <2>2, <2>5 DEF OwnRead
  <2>8. OwnCount(p)
    BY <1>1, <2>2 DEF OwnCount, Pending, Unwritten
  <2>9. Aside(p)
    BY <1>1, <2>2, <2>3 DEF Aside
  <2> QED
    BY <2>2, <2>4, <2>6, <2>7, <2>8, <2>9 DEF Own
<1>4. CASE /\ UNCHANGED <<op, handle, ret>>
           /\ \/ pc' = [pc EXCEPT ![p] = "create"] /\ pc[p] \in {"look", "unlink"} /\ UNCHANGED buf
              \/ pc' = [pc EXCEPT ![p] = "probe"] /\ pc[p] = "look" /\ UNCHANGED buf
              \/ pc' = [pc EXCEPT ![p] = "unlink"] /\ pc[p] = "probe" /\ UNCHANGED buf
              \/ /\ pc' = [pc EXCEPT ![p] = "open"] /\ pc[p] = "callback"
                 /\ \E v \in Values, t \in Ttls : buf' = [buf EXCEPT ![p] = [val |-> v, ttl |-> t]]
  <2>1. /\ buf' \in [Procs -> Entries \cup {None}] /\ \A q \in Procs \ {p} : buf'[q] = buf[q]
        /\ buf'[p] # None => buf'[p].val \in Values
        /\ pc'[p] = "open" => buf'[p] # None
    <3>1. CASE UNCHANGED buf /\ pc'[p] # "open"
      BY <1>2, <3>1 DEF TypeOK
    <3>2. CASE \E v \in Values, t \in Ttls : buf' = [buf EXCEPT ![p] = [val |-> v, ttl |-> t]]
      <4>1. PICK v \in Values, t \in Ttls : buf' = [buf EXCEPT ![p] = [val |-> v, ttl |-> t]]
        BY <3>2
      <4>2. buf' \in [Procs -> Entries \cup {None}] /\ buf'[p].val = v /\ buf'[p] # None
        BY <4>1, Payload
      <4>3. \A q \in Procs \ {p} : buf'[q] = buf[q]
        BY <4>1 DEF TypeOK
      <4> QED
        BY <4>2, <4>3
    <3>3. UNCHANGED buf => pc'[p] # "open" \/ \E v \in Values, t \in Ttls : buf' = [buf EXCEPT ![p] = [val |-> v, ttl |-> t]]
      BY <1>4 DEF TypeOK
    <3> QED
      BY <3>1, <3>2, <3>3, <1>4
  <2>2. /\ pc' \in [Procs -> PCs] /\ pc'[p] \in {"create", "probe", "unlink", "open"}
        /\ pc'[p] \in {"create", "probe", "unlink"} => op[p] = "add"
        /\ pc'[p] = "open" => op[p] = "remember"
        /\ \A q \in Procs \ {p} : pc'[q] = pc[q]
    BY <1>2, <1>4 DEF TypeOK, PCs
  <2>3. Moves(p)
    BY <1>4, <2>1, <2>2 DEF Moves
  <2>4. Typed'
    BY <1>1, <1>4, <2>1, <2>2 DEF Typed, TypeOK
  <2>5. ShapeOf(p)'
    BY <1>2, <1>4, <2>1, <2>2 DEF ShapeOf
  <2>6. OwnRead(p)
    BY <1>1, <1>2, <1>4, <2>2 DEF OwnRead, Reads
  <2>7. OwnCount(p)
    BY <1>1, <1>2, <1>4, <2>1 DEF OwnCount, Pending, Unwritten
  <2>8. Aside(p)
    BY <1>1, <1>4, <2>2, <2>3 DEF Aside
  <2> QED
    BY <2>3, <2>4, <2>5, <2>6, <2>7, <2>8 DEF Own
<1>5. CASE Drop(p)
  <2>1. pc[p] = "drop" /\ Return(p, IF op[p] = "pull" THEN ret[p] ELSE None)
    BY <1>5 DEF Drop
  <2>2. CASE op[p] = "pull"
    BY <2>1, <2>2, <1>3 DEF TypeOK, ReadsSee, ReadOf
  <2>3. CASE op[p] = "forget"
    BY <2>1, <2>3, <1>3 DEF Reads
  <2> QED
    BY <2>1, <2>2, <2>3, <1>2
<1>6. CASE Callback(p)
  BY <1>6, <1>4 DEF Callback, GoTo
<1>7. CASE Probe(p)
  <2>1. pc[p] = "probe" /\ op[p] \notin Reads
    BY <1>2, <1>7 DEF Probe, Reads
  <2>2. CASE Return(p, None)
    BY <2>1, <2>2, <1>3
  <2>3. CASE ~Return(p, None)
    BY <2>1, <2>3, <1>4, <1>7 DEF Probe, GoTo
  <2> QED
    BY <2>2, <2>3
<1>8. CASE Unlink(p)
  BY <1>8, <1>4 DEF Unlink, GoTo
<1>10. CASE Look(p)
  BY <1>10, <1>4 DEF Look, GoTo
<1>9. CASE CreateRefused(p)
  BY <1>1, <1>2, <1>9, <1>3 DEF CreateRefused, Reads
<1> QED
  BY <1>5, <1>6, <1>7, <1>8, <1>9, <1>10
-----------------------------------------------------------------------------
(* put() and increment().                                                    *)

LEMMA FreshFacts ==
  ASSUME NEW i \in Fresh
  PROVE  i \in Inodes /\ i # path /\ \A q \in Procs : handle[q] # i
BY DEF Fresh, Free

\* Under Untouched a key without a file has nobody at work on one.
LEMMA NobodyThere ==
  ASSUME IInv, Untouched, path = None, NEW q \in Procs
  PROVE  handle[q] = None /\ pc[q] \notin {"lock", "write", "fill"}
<1>1. handle[q] = None
  BY DEF IInv, Undisturbed, Attached
<1> QED
  BY <1>1 DEF IInv, Shape, ShapeOf

LEMMA OpenStep ==
  ASSUME IInv, NEW p \in Procs, Open(p)
  PROVE  Own(p) /\ Locks' /\ OneWinner' /\ Undisturbed'
<1> USE DEF IInv
<1>1. /\ pc[p] = "open" /\ pc' = [pc EXCEPT ![p] = "lock"]
      /\ UNCHANGED <<flock, op, buf, ret, tally, removed, reclaimed, lasting, winners, clobbered, calls, crashes>>
  BY DEF Open, GoTo, history
<1>2. PICK i \in Inodes :
        /\ path' = i /\ handle' = [handle EXCEPT ![p] = i]
        /\ \/ path = i /\ file' = file
           \/ path = None /\ file' = [file EXCEPT ![i] = Empty]
  BY FreshFacts DEF Open
<1>3. /\ op[p] \in {"put", "increment", "remember"} /\ (op[p] # "increment" => buf[p] # None)
      /\ op[p] # "increment" /\ buf[p] # None => buf[p].val \in Values
      /\ i # None /\ handle[p] = None
  BY <1>1, Bounds DEF Shape, ShapeOf
<1>4. /\ pc' \in [Procs -> PCs] /\ pc'[p] = "lock" /\ handle' \in [Procs -> Inodes \cup {None}] /\ handle'[p] = i
      /\ file' \in [Inodes -> Entries \cup {Empty}]
      /\ \A j \in Inodes : file'[j] # Empty => file'[j] = file[j]
      /\ Moves(p)
  BY <1>1, <1>2 DEF TypeOK, PCs, Moves
<1>5. \A q \in Procs : /\ pc'[q] = "write" <=> pc[q] = "write"
                       /\ pc'[q] = "fill" <=> pc[q] = "fill"
                       /\ pc[q] \in {"write", "fill"} => handle'[q] = handle[q]
  BY <1>1, <1>4 DEF Moves
<1>6. Own(p)
  <2>1. Typed'
    BY <1>1, <1>2, <1>4 DEF Typed, TypeOK
  <2>2. ShapeOf(p)'
    BY <1>1, <1>3, <1>4 DEF ShapeOf
  <2>3. OwnRead(p)
    BY <1>1, <1>3 DEF OwnRead, Reads
  <2>4. OwnCount(p)
    BY <1>1, <1>4 DEF OwnCount, Pending, Unwritten
  <2> QED
    BY <1>4, <2>1, <2>2, <2>3, <2>4 DEF Own
<1>7. Locks'
  BY <1>1, <1>5 DEF Locks, LockOf
<1>8. OneWinner'
  BY <1>1, <1>2, <1>3, <1>5 DEF OneWinner
<1>9. Undisturbed'
  <2> SUFFICES ASSUME Untouched PROVE Attached' /\ Resting' /\ \A q \in Procs : WriterOf(q)' /\ FillerOf(q)'
    BY <1>1 DEF Undisturbed, Untouched
  <2>1. Filling' <=> Filling
    BY <1>5 DEF Filling
  <2>2. Attached'
    BY <1>2, <1>3, <1>4 DEF Undisturbed, Attached, Moves
  <2>3. CASE path = i
    <3>1. path' = path /\ file' = file
      BY <1>2, <1>3, <2>3
    <3>2. Resting'
      BY <1>1, <2>1, <3>1 DEF Undisturbed, Resting
    <3>3. \A q \in Procs : WriterOf(q)' /\ FillerOf(q)'
      BY <1>1, <1>5, <2>1, <3>1 DEF Undisturbed, WriterOf, FillerOf
    <3> QED
      BY <2>2, <3>2, <3>3
  <2>4. CASE path = None
    <3>1. file'[path'] = Empty /\ tally' = 0 /\ ~lasting'
      BY <1>1, <1>2, <1>3, <2>4 DEF TypeOK, Undisturbed, Attached
    <3>2. \A q \in Procs : pc'[q] \notin {"write", "fill"}
      BY <1>5, <2>4, NobodyThere
    <3> QED
      BY <2>2, <3>1, <3>2 DEF Resting, WriterOf, FillerOf
  <2> QED
    BY <1>2, <2>3, <2>4
<1> QED
  BY <1>6, <1>7, <1>8, <1>9

\* The lock is taken and the file truncated.
Locking(p) ==
  /\ pc[p] = "lock" /\ flock[handle[p]] = None
  /\ flock' = [flock EXCEPT ![handle[p]] = p] /\ file' = [file EXCEPT ![handle[p]] = Empty]
  /\ pc' = [pc EXCEPT ![p] = "write"]
  /\ UNCHANGED <<path, op, handle, ret, removed, reclaimed, lasting, winners, clobbered, calls, crashes>>
  /\ Moves(p)
  /\ op[p] = "increment" /\ path # None /\ path = handle[p] /\ Resting /\ ~Filling => buf'[p].val = tally' + 1

LEMMA LockingKeeps ==
  ASSUME IInv, NEW p \in Procs, Locking(p)
  PROVE  Locks' /\ OneWinner' /\ Undisturbed'
<1> USE DEF IInv, Locking
<1>1. handle[p] \in Inodes
  BY Bounds DEF Shape, ShapeOf, TypeOK
<1>2. \A q \in Procs : /\ pc'[q] = "fill" <=> pc[q] = "fill"
                       /\ pc'[q] = "write" <=> pc[q] = "write" \/ q = p
  BY DEF TypeOK
<1>3. \A q \in Procs : pc[q] = "write" => handle[q] # handle[p]
  BY Bounds DEF Locks, LockOf
<1>4. Locks'
  <2>1. LockOf(p)'
    BY <1>1, <1>2 DEF Locks, LockOf, TypeOK
  <2>2. ASSUME NEW q \in Procs, q # p PROVE LockOf(q)'
    <3>1. pc[q] = "write" => flock'[handle[q]] = q
      <4> SUFFICES ASSUME pc[q] = "write" PROVE flock'[handle[q]] = q
        OBVIOUS
      <4>1. flock[handle[q]] = q /\ handle[q] \in Inodes /\ handle[q] # handle[p]
        BY <1>3, Bounds DEF Locks, LockOf, Shape, ShapeOf, TypeOK
      <4> QED
        BY <4>1 DEF TypeOK
    <3>2. ASSUME NEW j \in Inodes, flock'[j] = q PROVE pc[q] = "write" /\ handle[q] = j
      BY <2>2, <3>2, <1>1 DEF Locks, LockOf, TypeOK
    <3> QED
      BY <2>2, <3>1, <3>2, <1>2 DEF LockOf
  <2> QED
    BY <2>1, <2>2 DEF Locks
<1>5. OneWinner'
  BY <1>2 DEF OneWinner
<1>6. Undisturbed'
  <2> SUFFICES ASSUME Untouched PROVE Attached' /\ Resting' /\ \A q \in Procs : WriterOf(q)' /\ FillerOf(q)'
    BY DEF Undisturbed, Untouched
  <2>1. path = handle[p] /\ path # None /\ Resting /\ (Filling' <=> Filling)
    BY <1>1, <1>2, Bounds DEF Undisturbed, Attached, Filling
  <2>2. Attached'
    BY <2>1 DEF Undisturbed, Attached
  <2>3. flock'[path] # None /\ file'[path] = Empty
    BY <1>1, <2>1, Bounds DEF TypeOK
  <2>4. \A q \in Procs : WriterOf(q)'
    <3> SUFFICES ASSUME NEW q \in Procs, pc'[q] = "write" PROVE WriterOf(q)'
      BY DEF WriterOf
    <3>1. q = p
      <4>1. pc[q] = "write" => handle[q] = path
        BY Bounds DEF Undisturbed, Attached, Shape, ShapeOf
      <4> QED
        BY <1>2, <1>3, <2>1, <4>1
    <3> QED
      BY <3>1, <2>1, <2>3 DEF WriterOf
  <2> QED
    BY <2>1, <2>2, <2>3, <2>4 DEF Resting, FillerOf
<1> QED
  BY <1>4, <1>5, <1>6

LEMMA LockPutStep ==
  ASSUME IInv, NEW p \in Procs, LockPut(p)
  PROVE  Own(p) /\ Locking(p)
<1> USE DEF IInv
<1>1. /\ pc[p] = "lock" /\ op[p] # "increment" /\ flock[handle[p]] = None
      /\ flock' = [flock EXCEPT ![handle[p]] = p] /\ file' = [file EXCEPT ![handle[p]] = Empty]
      /\ pc' = [pc EXCEPT ![p] = "write"]
      /\ UNCHANGED <<path, op, handle, buf, ret, tally, removed, reclaimed, lasting, winners, clobbered, calls, crashes>>
  BY DEF LockPut, Lockable, GoTo, history
<1>2. /\ handle[p] # None /\ op[p] \in {"put", "remember"} /\ buf[p] # None /\ buf[p].val \in Values
  BY <1>1 DEF Shape, ShapeOf
<1>3. /\ pc' \in [Procs -> PCs] /\ pc'[p] = "write" /\ flock' \in [Inodes -> Procs \cup {None}]
      /\ file' \in [Inodes -> Entries \cup {Empty}]
      /\ \A j \in Inodes : file'[j] # Empty => file'[j] = file[j]
      /\ Moves(p)
  BY <1>1 DEF TypeOK, PCs, Moves
<1>4. Typed'
  BY <1>1, <1>3 DEF Typed, TypeOK
<1>5. ShapeOf(p)'
  BY <1>1, <1>2, <1>3 DEF ShapeOf
<1>6. OwnRead(p)
  BY <1>1, <1>2 DEF OwnRead, Reads
<1>7. OwnCount(p)
  BY <1>1, <1>3 DEF OwnCount, Pending, Unwritten
<1> QED
  BY <1>1, <1>3, <1>4, <1>5, <1>6, <1>7 DEF Own, Locking
LEMMA LockIncrementStep ==
  ASSUME IInv, NEW p \in Procs, LockIncrement(p)
  PROVE  Own(p) /\ Locking(p)
<1> USE DEF IInv
<1> DEFINE e == file[handle[p]]
<1>1. /\ pc[p] = "lock" /\ op[p] = "increment" /\ flock[handle[p]] = None
      /\ flock' = [flock EXCEPT ![handle[p]] = p] /\ file' = [file EXCEPT ![handle[p]] = Empty]
      /\ buf' = [buf EXCEPT ![p] = Counted(e)]
      /\ tally' = IF e # Empty /\ ~Live(e) THEN 0 ELSE tally
      /\ pc' = [pc EXCEPT ![p] = "write"]
      /\ UNCHANGED <<path, op, handle, ret, removed, reclaimed, lasting, winners, clobbered, calls, crashes>>
  BY DEF LockIncrement, Lockable, GoTo
<1>2. handle[p] \in Inodes /\ e \in Entries \cup {Empty}
  BY <1>1, Bounds DEF Shape, ShapeOf, TypeOK
<1>3. p \in Pending /\ p \in Unwritten
  BY <1>1 DEF Pending, Unwritten
<1>4. /\ Counted(e).ttl \in Lives /\ Counted(e).val \in Nat
      /\ Counted(e) = [val |-> Counted(e).val, ttl |-> Counted(e).ttl]
      /\ e = Empty => Counted(e).val = 1
      /\ e # Empty => e.val \in Nat /\ Counted(e).val = (IF Live(e) THEN e.val ELSE 0) + 1
  BY <1>2 DEF Counted, Entries, Lives, Numbers
<1>5. Counted(e).val + Cardinality(Pending) <= MaxValue + calls + 1
  <2>1. /\ Cardinality(Pending) \in Nat /\ Cardinality(Unwritten) \in Nat
        /\ Cardinality(Pending) <= Cardinality(Unwritten) /\ Cardinality(Unwritten) <= calls
        /\ calls \in Nat /\ MaxValue \in Nat
    BY Counts, Bounds DEF Bounded, TypeOK
  <2>2. e # Empty => e.val + Cardinality(Pending) <= MaxValue + calls
    BY <1>2 DEF Bounded
  <2> QED
    BY <1>4, <2>1, <2>2
<1>6. Counted(e) \in Entries
  <2>1. Cardinality(Pending) \in Nat /\ Cardinality(Pending) >= 1
    BY <1>3, Counts, SomePending
  <2>2. calls \in 0..MaxCalls /\ MaxCalls \in Nat /\ MaxValue \in Nat
    BY Bounds DEF TypeOK
  <2>3. Counted(e).val \in Numbers
    BY <1>4, <1>5, <2>1, <2>2 DEF Numbers
  <2> QED
    BY <1>4, <2>3 DEF Entries
<1>7. buf' \in [Procs -> Entries \cup {None}] /\ buf'[p] = Counted(e) /\ buf'[p] # None
  BY <1>1, <1>6, Bounds DEF TypeOK
<1>8. /\ pc' \in [Procs -> PCs] /\ pc'[p] = "write" /\ flock' \in [Inodes -> Procs \cup {None}]
      /\ file' \in [Inodes -> Entries \cup {Empty}]
      /\ \A j \in Inodes : file'[j] # Empty => file'[j] = file[j]
      /\ tally' \in Numbers
  <2>1. 0 \in Numbers
    BY Bounds DEF Numbers
  <2> QED
    BY <1>1, <2>1 DEF TypeOK, PCs
<1>9. Moves(p)
  BY <1>1 DEF Moves, TypeOK
<1>10. Typed'
  BY <1>1, <1>7, <1>8 DEF Typed, TypeOK
<1>11. ShapeOf(p)'
  BY <1>1, <1>2, <1>7, <1>8, Bounds DEF ShapeOf
<1>12. OwnRead(p)
  BY <1>1 DEF OwnRead, Reads
<1>13. OwnCount(p)
  BY <1>1, <1>3, <1>5, <1>7, <1>8 DEF OwnCount, Pending, Unwritten
<1>14. path # None /\ path = handle[p] /\ Resting /\ ~Filling => buf'[p].val = tally' + 1
  <2> SUFFICES ASSUME path # None, path = handle[p], Resting, ~Filling PROVE Counted(e).val = tally' + 1
    BY <1>7
  <2>1. CASE e = Empty
    BY <1>1, <1>4, <2>1 DEF Resting
  <2>2. CASE e # Empty
    <3>1. e.val = tally
      BY <1>1, <2>2 DEF Resting
    <3> QED
      BY <1>1, <1>4, <2>2, <3>1
  <2> QED
    BY <2>1, <2>2
<1> QED
  BY <1>1, <1>9, <1>10, <1>11, <1>12, <1>13, <1>14 DEF Own, Locking

LEMMA WriteStep ==
  ASSUME IInv, NEW p \in Procs, Write(p)
  PROVE  Own(p) /\ Locks' /\ OneWinner' /\ Undisturbed'
<1> USE DEF IInv
<1> DEFINE i == handle[p]
<1>1. /\ pc[p] = "write" /\ Return(p, None)
      /\ file' = [file EXCEPT ![i] = buf[p]] /\ flock' = [flock EXCEPT ![i] = None]
      /\ tally' = IF op[p] = "increment" THEN tally + 1 ELSE buf[p].val
      /\ lasting' = (buf[p].ttl = Forever)
      /\ UNCHANGED <<path, removed, reclaimed, winners, clobbered, calls, crashes>>
  BY DEF Write
<1>2. /\ i \in Inodes /\ i # None /\ op[p] \in {"put", "increment", "remember"} /\ buf[p] \in Entries
      /\ op[p] # "increment" => buf[p].val \in Values
  BY <1>1, Bounds DEF Shape, ShapeOf, TypeOK
<1>3. flock[i] = p
  BY <1>1 DEF Locks, LockOf
<1>4. /\ Moves(p) /\ pc'[p] = "idle" /\ handle'[p] = None /\ buf'[p] = None
      /\ op'[p] = None /\ ret'[p] = None
      /\ op' \in [Procs -> OpNames \cup {None}] /\ pc' \in [Procs -> PCs]
      /\ handle' \in [Procs -> Inodes \cup {None}] /\ buf' \in [Procs -> Entries \cup {None}]
      /\ ret' \in [Procs -> Numbers \cup {None}]
      /\ \A q \in Procs : op'[q] \notin Reads => ret'[q] = None
  BY <1>1, <1>2, ReturnFacts DEF Reads
<1>5. tally' \in Numbers /\ lasting' \in BOOLEAN
  <2>1. CASE op[p] = "increment"
    <3>1. p \in Unwritten
      BY <1>1, <2>1 DEF Unwritten
    <3>2. Cardinality(Unwritten) \in Nat /\ Cardinality(Unwritten) >= 1
      BY <3>1, Counts, SomeUnwritten
    <3>3. /\ tally \in Nat /\ calls \in 0..MaxCalls /\ MaxCalls \in Nat /\ MaxValue \in Nat
          /\ tally + Cardinality(Unwritten) <= MaxValue + calls
      BY Bounds DEF TypeOK, Numbers, Bounded
    <3> QED
      BY <1>1, <2>1, <3>2, <3>3 DEF Numbers
  <2>2. CASE op[p] # "increment"
    BY <1>1, <1>2, <2>2, Bounds
  <2> QED
    BY <1>1, <2>1, <2>2
<1>6. /\ file' \in [Inodes -> Entries \cup {Empty}] /\ flock' \in [Inodes -> Procs \cup {None}]
      /\ \A j \in Inodes : file'[j] = IF j = i THEN buf[p] ELSE file[j]
      /\ \A j \in Inodes : flock'[j] = IF j = i THEN None ELSE flock[j]
  BY <1>1, <1>2 DEF TypeOK
<1>7. Own(p)
  <2>1. Typed'
    BY <1>1, <1>4, <1>5, <1>6 DEF Typed, TypeOK
  <2>2. ShapeOf(p)'
    BY <1>4 DEF ShapeOf
  <2>3. OwnRead(p)
    BY <1>4, Bounds DEF OwnRead, Reads, OpNames
  <2>4. OwnCount(p)
    <3>1. p \notin Pending /\ p \notin Pending' /\ p \notin Unwritten'
      BY <1>1, <1>4 DEF Pending, Unwritten
    <3>2. op[p] = "increment" => p \in Unwritten
      BY <1>1 DEF Unwritten
    <3>3. \A j \in Inodes : file'[j] # Empty => file'[j] = file[j] \/ (buf[p] # None /\ file'[j] = buf[p])
      BY <1>2, <1>6, Bounds
    <3> QED
      BY <1>1, <1>2, <1>4, <3>1, <3>2, <3>3 DEF OwnCount
  <2> QED
    BY <1>4, <2>1, <2>2, <2>3, <2>4 DEF Own
<1>8. \A q \in Procs : q # p => ~(pc[q] = "write" /\ handle[q] = i)
  BY <1>3 DEF Locks, LockOf
<1>9. Locks'
  <2>1. LockOf(p)'
    BY <1>3, <1>4, <1>6, Bounds DEF Locks, LockOf
  <2>2. ASSUME NEW q \in Procs, q # p PROVE LockOf(q)'
    <3>1. pc'[q] = pc[q] /\ handle'[q] = handle[q]
      BY <1>4, <2>2 DEF Moves
    <3>2. pc[q] = "write" => flock'[handle[q]] = q
      <4> SUFFICES ASSUME pc[q] = "write" PROVE flock'[handle[q]] = q
        OBVIOUS
      <4>1. flock[handle[q]] = q /\ handle[q] \in Inodes /\ handle[q] # i
        BY <1>8, <2>2, Bounds DEF Locks, LockOf, Shape, ShapeOf, TypeOK
      <4> QED
        BY <4>1, <1>6
    <3>3. ASSUME NEW j \in Inodes, flock'[j] = q PROVE pc[q] = "write" /\ handle[q] = j
      BY <3>3, <1>6, Bounds DEF Locks, LockOf
    <3> QED
      BY <3>1, <3>2, <3>3 DEF LockOf
  <2> QED
    BY <2>1, <2>2 DEF Locks
<1>10. \A q \in Procs : /\ pc'[q] = "fill" <=> pc[q] = "fill"
                        /\ pc'[q] = "write" => q # p /\ pc[q] = "write"
  BY <1>1, <1>4 DEF Moves
<1>11. OneWinner'
  BY <1>1, <1>10 DEF OneWinner
<1>12. Undisturbed'
  <2> SUFFICES ASSUME Untouched PROVE Attached' /\ Resting' /\ \A q \in Procs : WriterOf(q)' /\ FillerOf(q)'
    BY <1>1 DEF Undisturbed, Untouched
  <2>1. path = i /\ path' = i /\ (Filling' <=> Filling)
    BY <1>1, <1>2, <1>10 DEF Undisturbed, Attached, Filling
  <2>2. Attached'
    BY <1>2, <1>4, <2>1 DEF Undisturbed, Attached, Moves
  <2>3. file'[i] = buf[p] /\ buf[p] # Empty
    BY <1>2, <1>6, Bounds
  <2>4. Resting'
    <3>1. ~Filling => buf[p].val = tally'
      BY <1>1, <1>2 DEF Undisturbed, WriterOf
    <3>2. lasting' <=> buf[p].ttl = Forever
      BY <1>1
    <3> QED
      BY <2>1, <2>3, <3>1, <3>2 DEF Resting
  <2>5. ASSUME NEW q \in Procs PROVE WriterOf(q)' /\ FillerOf(q)'
    <3>1. pc'[q] # "write"
      <4>1. pc[q] = "write" => handle[q] = i
        BY <2>1, Bounds DEF Undisturbed, Attached, Shape, ShapeOf
      <4> QED
        BY <4>1, <1>8, <1>10
    <3> QED
      BY <3>1, <2>1, <2>3 DEF WriterOf, FillerOf
  <2> QED
    BY <2>2, <2>4, <2>5
<1> QED
  BY <1>7, <1>9, <1>11, <1>12
-----------------------------------------------------------------------------
(* add(), a kill and the clock.                                              *)

LEMMA CreateStep ==
  ASSUME IInv, NEW p \in Procs, Create(p)
  PROVE  Own(p) /\ Locks' /\ OneWinner' /\ Undisturbed'
<1> USE DEF IInv
<1>1. PICK i \in Fresh, v \in Values, t \in Ttls :
        /\ path' = i /\ file' = [file EXCEPT ![i] = Empty] /\ handle' = [handle EXCEPT ![p] = i]
        /\ buf' = [buf EXCEPT ![p] = [val |-> v, ttl |-> t]]
        /\ tally' = v /\ lasting' = (t = Forever)
  BY DEF Create
<1>2. /\ pc[p] = "create" /\ path = None /\ winners' = winners \cup {p} /\ pc' = [pc EXCEPT ![p] = "fill"]
      /\ UNCHANGED <<flock, op, ret, removed, reclaimed, clobbered, calls, crashes>>
  BY DEF Create, GoTo
<1>3. i \in Inodes /\ i # None /\ op[p] = "add"
  BY <1>2, FreshFacts, Bounds DEF Shape, ShapeOf
<1>4. /\ buf' \in [Procs -> Entries \cup {None}] /\ buf'[p] # None /\ buf'[p].val = v /\ buf'[p].ttl = t
      /\ \A q \in Procs \ {p} : buf'[q] = buf[q]
  BY <1>1, Payload DEF TypeOK
<1>5. /\ pc' \in [Procs -> PCs] /\ pc'[p] = "fill" /\ handle' \in [Procs -> Inodes \cup {None}] /\ handle'[p] = i
      /\ file' \in [Inodes -> Entries \cup {Empty}] /\ file'[i] = Empty
      /\ \A j \in Inodes : file'[j] # Empty => file'[j] = file[j]
      /\ tally' \in Numbers /\ winners' \subseteq Procs
  BY <1>1, <1>2, <1>3, Bounds DEF TypeOK, PCs
<1>6. Moves(p)
  BY <1>1, <1>2, <1>4 DEF Moves, TypeOK
<1>7. lasting' \in BOOLEAN /\ (lasting' <=> t = Forever)
  BY <1>1
<1>8. Own(p)
  <2>1. Typed'
    BY <1>1, <1>2, <1>3, <1>4, <1>5, <1>7 DEF Typed, TypeOK
  <2>2. ShapeOf(p)'
    BY <1>2, <1>3, <1>4, <1>5 DEF ShapeOf
  <2>3. OwnRead(p)
    BY <1>2, <1>3 DEF OwnRead, Reads
  <2>4. OwnCount(p)
    BY <1>1, <1>2, <1>3, <1>4, <1>5 DEF OwnCount, Pending, Unwritten
  <2> QED
    BY <1>6, <2>1, <2>2, <2>3, <2>4 DEF Own
<1>9. \A q \in Procs : /\ pc'[q] = "write" => q # p /\ pc[q] = "write" /\ handle'[q] = handle[q]
                       /\ pc'[q] = "fill" => q = p \/ pc[q] = "fill"
                       /\ pc[q] = "write" => pc'[q] = "write" /\ handle'[q] = handle[q]
  BY <1>2, <1>5, <1>6 DEF Moves
<1>10. Locks'
  BY <1>2, <1>9 DEF Locks, LockOf
<1>11. OneWinner'
  <2> SUFFICES ASSUME ~removed, ~reclaimed PROVE winners' = {p} /\ \A q \in Procs : pc'[q] = "fill" => q = p
    BY <1>1, <1>2, <1>3 DEF OneWinner
  <2> QED
    BY <1>2, <1>9 DEF OneWinner
<1>12. Undisturbed'
  <2> SUFFICES ASSUME Untouched PROVE Attached' /\ Resting' /\ \A q \in Procs : WriterOf(q)' /\ FillerOf(q)'
    BY <1>2 DEF Undisturbed, Untouched
  <2>1. \A q \in Procs : handle[q] = None /\ pc[q] \notin {"write", "fill"}
    BY <1>2, NobodyThere
  <2>2. Attached'
    BY <1>1, <1>3, <1>5, <1>6, <2>1 DEF Attached, Moves
  <2>3. Filling'
    BY <1>5 DEF Filling
  <2>4. ASSUME NEW q \in Procs PROVE WriterOf(q)' /\ FillerOf(q)'
    <3>1. pc'[q] # "write" /\ (pc'[q] = "fill" => q = p)
      BY <1>9, <2>1
    <3> QED
      BY <3>1, <1>1, <1>4, <1>7 DEF WriterOf, FillerOf
  <2> QED
    BY <2>2, <2>3, <2>4 DEF Resting
<1> QED
  BY <1>8, <1>10, <1>11, <1>12

LEMMA FillStep ==
  ASSUME IInv, NEW p \in Procs, Fill(p)
  PROVE  Own(p) /\ Locks' /\ OneWinner' /\ Undisturbed'
<1> USE DEF IInv
<1> DEFINE i == handle[p]
<1>1. /\ pc[p] = "fill" /\ Return(p, None)
      /\ file' = [file EXCEPT ![i] = buf[p]]
      /\ clobbered' = (clobbered \/ file[i] # Empty \/ flock[i] # None)
      /\ UNCHANGED <<path, flock, tally, removed, reclaimed, lasting, winners, calls, crashes>>
  BY DEF Fill
<1>2. i \in Inodes /\ i # None /\ op[p] = "add" /\ buf[p] \in Entries
  BY <1>1, Bounds DEF Shape, ShapeOf, TypeOK
<1>3. clobbered' \in BOOLEAN /\ (~clobbered' => ~clobbered /\ file[i] = Empty /\ flock[i] = None)
  BY <1>1
<1>4. /\ Moves(p) /\ pc'[p] = "idle" /\ handle'[p] = None /\ buf'[p] = None
      /\ op'[p] = None /\ ret'[p] = None
      /\ op' \in [Procs -> OpNames \cup {None}] /\ pc' \in [Procs -> PCs]
      /\ handle' \in [Procs -> Inodes \cup {None}] /\ buf' \in [Procs -> Entries \cup {None}]
      /\ ret' \in [Procs -> Numbers \cup {None}]
      /\ \A q \in Procs : op'[q] \notin Reads => ret'[q] = None
  BY <1>1, <1>2, ReturnFacts DEF Reads
<1>5. /\ file' \in [Inodes -> Entries \cup {Empty}]
      /\ \A j \in Inodes : file'[j] = IF j = i THEN buf[p] ELSE file[j]
  BY <1>1, <1>2 DEF TypeOK
<1>6. Own(p)
  <2>1. Typed'
    BY <1>1, <1>3, <1>4, <1>5 DEF Typed, TypeOK
  <2>2. ShapeOf(p)'
    BY <1>4 DEF ShapeOf
  <2>3. OwnRead(p)
    BY <1>4, Bounds DEF OwnRead, Reads, OpNames
  <2>4. OwnCount(p)
    <3>1. \A j \in Inodes : file'[j] # Empty => file'[j] = file[j] \/ (buf[p] # None /\ file'[j] = buf[p])
      BY <1>2, <1>5, Bounds
    <3> QED
      BY <1>1, <1>4, <3>1 DEF OwnCount, Pending, Unwritten
  <2> QED
    BY <1>4, <2>1, <2>2, <2>3, <2>4 DEF Own
<1>7. \A q \in Procs : /\ pc'[q] = "write" => q # p /\ pc[q] = "write" /\ handle'[q] = handle[q]
                       /\ pc'[q] = "fill" => q # p /\ pc[q] = "fill"
                       /\ pc[q] = "write" => pc'[q] = "write" /\ handle'[q] = handle[q]
  BY <1>1, <1>4 DEF Moves
<1>8. Locks'
  BY <1>1, <1>7 DEF Locks, LockOf
<1>9. OneWinner'
  BY <1>1, <1>7 DEF OneWinner
<1>10. Undisturbed'
  <2> SUFFICES ASSUME Untouched, ~clobbered' PROVE Attached' /\ Resting' /\ \A q \in Procs : WriterOf(q)' /\ FillerOf(q)'
    BY <1>1, <1>3 DEF Undisturbed, Untouched
  <2>1. path = i /\ path' = i /\ file[i] = Empty /\ flock[i] = None /\ flock' = flock
    BY <1>1, <1>2, <1>3 DEF Undisturbed, Attached
  <2>2. Attached'
    BY <1>2, <1>4, <2>1 DEF Undisturbed, Attached, Moves
  <2>3. \A q \in Procs : pc'[q] # "fill"
    BY <1>1, <1>7 DEF OneWinner, Untouched
  <2>4. \A q \in Procs : pc'[q] # "write"
    <3> SUFFICES ASSUME NEW q \in Procs, pc[q] = "write" PROVE FALSE
      BY <1>7
    <3>1. handle[q] = i /\ flock[handle[q]] = q
      BY <2>1, Bounds DEF Undisturbed, Attached, Shape, ShapeOf, Locks, LockOf
    <3> QED
      BY <2>1, <3>1, Bounds
  <2>5. Resting'
    <3>1. file'[i] = buf[p] /\ buf[p] # Empty
      BY <1>2, <1>5, Bounds
    <3>2. tally = buf[p].val /\ (lasting <=> buf[p].ttl = Forever)
      BY <1>1, <2>1 DEF Undisturbed, FillerOf
    <3> QED
      BY <1>1, <2>1, <3>1, <3>2 DEF Resting
  <2> QED
    BY <2>2, <2>3, <2>4, <2>5 DEF WriterOf, FillerOf
<1> QED
  BY <1>6, <1>8, <1>9, <1>10

LEMMA CrashStep ==
  ASSUME IInv, NEW p \in Procs, Crash(p)
  PROVE  Own(p) /\ Locks' /\ OneWinner' /\ Undisturbed'
<1> USE DEF IInv
<1>1. /\ pc[p] # "idle" /\ crashes < MaxCrashes /\ crashes' = crashes + 1 /\ removed' = TRUE
      /\ flock' = [i \in Inodes |-> IF flock[i] = p THEN None ELSE flock[i]]
      /\ pc' = [pc EXCEPT ![p] = "idle"] /\ handle' = [handle EXCEPT ![p] = None] /\ buf' = [buf EXCEPT ![p] = None]
      /\ op' = [op EXCEPT ![p] = None] /\ ret' = [ret EXCEPT ![p] = None]
      /\ UNCHANGED <<path, file, tally, reclaimed, lasting, winners, clobbered, calls>>
  BY DEF Crash, Leave, GoTo
<1>2. /\ pc'[p] = "idle" /\ handle'[p] = None /\ buf'[p] = None /\ op'[p] = None /\ ret'[p] = None
      /\ pc' \in [Procs -> PCs] /\ handle' \in [Procs -> Inodes \cup {None}] /\ buf' \in [Procs -> Entries \cup {None}]
      /\ op' \in [Procs -> OpNames \cup {None}] /\ ret' \in [Procs -> Numbers \cup {None}]
      /\ flock' \in [Inodes -> Procs \cup {None}]
  BY <1>1 DEF TypeOK, PCs
<1>3. Moves(p)
  BY <1>1 DEF Moves, TypeOK
<1>4. crashes' \in 0..MaxCrashes
  BY <1>1, Bounds DEF TypeOK
<1>5. Own(p)
  <2>1. Typed'
    BY <1>1, <1>2, <1>3, <1>4 DEF Typed, TypeOK, Moves
  <2>2. ShapeOf(p)'
    BY <1>2 DEF ShapeOf
  <2>3. OwnRead(p)
    BY <1>2, Bounds DEF OwnRead, Reads, OpNames
  <2>4. OwnCount(p)
    BY <1>1, <1>2 DEF OwnCount, Pending, Unwritten
  <2> QED
    BY <1>3, <2>1, <2>2, <2>3, <2>4 DEF Own
<1>6. Locks'
  <2>1. LockOf(p)'
    BY <1>1, <1>2, Bounds DEF LockOf
  <2>2. ASSUME NEW q \in Procs, q # p PROVE LockOf(q)'
    <3>1. pc'[q] = pc[q] /\ handle'[q] = handle[q]
      BY <1>3, <2>2 DEF Moves
    <3>2. pc[q] = "write" => handle[q] \in Inodes /\ flock[handle[q]] = q
      BY Bounds DEF Locks, LockOf, Shape, ShapeOf, TypeOK
    <3> QED
      BY <1>1, <2>2, <3>1, <3>2, Bounds DEF Locks, LockOf
  <2> QED
    BY <2>1, <2>2 DEF Locks
<1> QED
  BY <1>1, <1>5, <1>6 DEF OneWinner, Undisturbed, Untouched
LEMMA TickKeeps ==
  ASSUME IInv, Tick, Watch
  PROVE  IInv'
<1> USE DEF IInv
<1>1. /\ file' = [i \in Inodes |-> IF i \in Free THEN Empty ELSE Spent(file[i])]
      /\ buf' = [p \in Procs |-> Spent(buf[p])]
      /\ UNCHANGED <<path, flock, op, pc, handle, ret, tally, removed, reclaimed, lasting, winners, clobbered, calls, crashes>>
  BY DEF Tick
<1>2. /\ \A e \in Entries : Spent(e) \in Entries /\ Spent(e).val = e.val /\ (Spent(e).ttl = Forever <=> e.ttl = Forever)
      /\ Spent(Empty) = Empty /\ Spent(None) = None
  BY SpentFacts
<1>3. \A q \in Procs : /\ buf'[q] = Spent(buf[q]) /\ buf[q] \in Entries \cup {None}
                       /\ buf'[q] # None <=> buf[q] # None
                       /\ buf[q] # None => /\ buf'[q].val = buf[q].val
                                           /\ buf'[q].ttl = Forever <=> buf[q].ttl = Forever
  BY <1>1, <1>2, Bounds DEF TypeOK
<1>4. \A i \in Inodes : /\ file'[i] \in Entries \cup {Empty} /\ file[i] \in Entries \cup {Empty}
                        /\ file'[i] # Empty => file[i] # Empty /\ file'[i].val = file[i].val
                        /\ i \notin Free => file'[i] = Spent(file[i])
  BY <1>1, <1>2, Bounds DEF TypeOK
<1>5. TypeOK'
  <2>1. file' \in [Inodes -> Entries \cup {Empty}] /\ buf' \in [Procs -> Entries \cup {None}]
    BY <1>1, <1>2, <1>4, Bounds DEF TypeOK
  <2>2. Typed'
    BY <1>1, <2>1 DEF Typed, TypeOK
  <2> QED
    BY <2>2, WatchKeepsTypes
<1>6. Shape'
  <2> SUFFICES ASSUME NEW q \in Procs PROVE ShapeOf(q)'
    BY DEF Shape
  <2> QED
    BY <1>1, <1>3 DEF Shape, ShapeOf
<1>7. Bounded'
  <2>1. Pending' = Pending /\ Unwritten' = Unwritten
    BY <1>1 DEF Pending, Unwritten
  <2> QED
    BY <1>1, <1>3, <1>4, <2>1 DEF Bounded
<1>8. Locks' /\ OneWinner'
  BY <1>1 DEF Locks, LockOf, OneWinner
<1>9. Undisturbed'
  <2> SUFFICES ASSUME Untouched PROVE Attached' /\ Resting' /\ \A q \in Procs : WriterOf(q)' /\ FillerOf(q)'
    BY <1>1 DEF Undisturbed, Untouched
  <2>1. path # None => /\ path \in Inodes /\ file'[path] = Spent(file[path])
                       /\ file'[path] = Empty <=> file[path] = Empty
                       /\ file[path] # Empty =>
                            /\ file'[path].val = file[path].val
                            /\ file'[path].ttl = Forever <=> file[path].ttl = Forever
    BY <1>2, <1>4, Bounds DEF Free, TypeOK
  <2>2. Attached' /\ (Filling' <=> Filling)
    BY <1>1 DEF Undisturbed, Attached, Filling
  <2>3. Resting'
    BY <1>1, <2>1, <2>2 DEF Undisturbed, Resting
  <2>4. ASSUME NEW q \in Procs, pc[q] \in {"write", "fill"} PROVE WriterOf(q)' /\ FillerOf(q)'
    <3>1. path # None /\ buf[q] # None
      BY <2>4 DEF Undisturbed, Attached, Shape, ShapeOf
    <3> QED
      BY <1>1, <1>3, <2>1, <2>2, <2>4, <3>1 DEF Undisturbed, WriterOf, FillerOf
  <2> QED
    BY <1>1, <2>2, <2>3, <2>4 DEF WriterOf, FillerOf
<1>10. ReadsSee'
  <2> SUFFICES ASSUME NEW q \in Procs, op[q] \in Reads PROVE ReadOf(q)'
    BY <1>1 DEF ReadsSee, ReadOf
  <2>1. seen'[q] = IF pc[q] # "idle" THEN seen[q] \cup {Shown'} ELSE seen[q]
    BY <1>1 DEF Watch
  <2> QED
    BY <1>1, <2>1 DEF ReadsSee, ReadOf
<1> QED
  BY <1>5, <1>6, <1>7, <1>8, <1>9, <1>10

-----------------------------------------------------------------------------
(* The theorems.                                                             *)

LEMMA OwnKeeps ==
  ASSUME IInv, NEW p \in Procs, Own(p), Watch
  PROVE  TypeOK' /\ Shape' /\ Bounded' /\ ReadsSee'
BY WatchKeepsTypes, ShapeKeeps, BoundedKeeps, ReadsKeep DEF IInv, Own

LEMMA StepKeeps ==
  ASSUME IInv, Watch, NEW p \in Procs, Step(p) \/ Crash(p) \/ (\E o \in OpNames : Call(p, o))
  PROVE  IInv'
<1> SUFFICES Own(p) /\ Locks' /\ OneWinner' /\ Undisturbed'
  BY OwnKeeps DEF IInv
<1>1. CASE Lookup(p) \/ Read(p) \/ ForgetExpired(p)
  BY <1>1, ReadSteps, AsideKeeps DEF IInv
<1>2. CASE Drop(p) \/ Callback(p) \/ Look(p) \/ Probe(p) \/ Unlink(p) \/ CreateRefused(p)
  BY <1>2, SideSteps, AsideKeeps DEF IInv
<1>3. CASE \E o \in OpNames : Call(p, o)
  BY <1>3, CallStep, AsideKeeps DEF IInv
<1>4. CASE LockPut(p)
  BY <1>4, LockPutStep, LockingKeeps
<1>5. CASE LockIncrement(p)
  BY <1>5, LockIncrementStep, LockingKeeps
<1>6. CASE Open(p) \/ Write(p) \/ Create(p) \/ Fill(p) \/ Crash(p)
  BY <1>6, OpenStep, WriteStep, CreateStep, FillStep, CrashStep
<1> QED
  BY <1>1, <1>2, <1>3, <1>4, <1>5, <1>6 DEF Step

LEMMA StutterKeeps == ASSUME IInv, UNCHANGED vars PROVE IInv'
<1>1. /\ UNCHANGED <<path, file, flock, op, pc, handle, buf, ret, seen, calls, crashes>>
      /\ UNCHANGED <<tally, removed, reclaimed, lasting, winners, clobbered>>
  BY DEF vars, store, procs, history
<1>2. TypeOK' /\ Locks' /\ OneWinner'
  BY <1>1 DEF IInv, TypeOK, Locks, LockOf, OneWinner
<1>3. Shape'
  BY <1>1 DEF IInv, Shape, ShapeOf
<1>4. Bounded'
  <2>1. Pending' = Pending /\ Unwritten' = Unwritten
    BY <1>1 DEF Pending, Unwritten
  <2> QED
    BY <1>1, <2>1 DEF IInv, Bounded
<1>5. Undisturbed'
  <2>1. (Untouched' <=> Untouched) /\ (Filling' <=> Filling)
    BY <1>1 DEF Untouched, Filling
  <2> QED
    BY <1>1, <2>1 DEF IInv, Undisturbed, Attached, Resting, WriterOf, FillerOf
<1>6. ReadsSee'
  <2>1. Shown' = Shown
    BY <1>1 DEF Shown
  <2> QED
    BY <1>1, <2>1 DEF IInv, ReadsSee, ReadOf
<1> QED
  BY <1>2, <1>3, <1>4, <1>5, <1>6 DEF IInv

\* At every moment the file, the locks and the calls under way agree as IInv says
\* (FileStore).
THEOREM Invariant == Spec => []IInv
<1>1. Init => IInv
  BY InitIsSound
<1>2. IInv /\ [Next]_vars => IInv'
  BY TickKeeps, StepKeeps, StutterKeeps DEF Next
<1> QED
  BY <1>1, <1>2, PTL DEF Spec

\* A get() or pull() answers what the key showed at some moment of the call, however other
\* calls and kills interleave (FileStore::get).
THEOREM ReadsAreOfTheirTime == Spec => []ReadsWhatWasThere
<1>1. IInv => ReadsWhatWasThere
  BY DEF IInv, ReadsSee, ReadOf, Reads, ReadsWhatWasThere
<1> QED
  BY <1>1, Invariant, PTL

\* Writes add up, what is stored for ever stays and one add() wins, as long as nobody takes
\* the file away or writes to it without the lock (FileStore::put, increment, add).
THEOREM WritesAreKept == Spec => []EntriesAreSound
<1>1. IInv => EntriesAreSound
  <2> SUFFICES ASSUME IInv PROVE UpdatesAreNotLost /\ ForeverStays /\ AddIsExclusive
    BY DEF IInv, EntriesAreSound
  <2> USE DEF IInv
  <2>1. ASSUME Untouched, path # None, Settled
        PROVE  \/ file[path] = Empty /\ tally = 0 /\ ~lasting
               \/ file[path] # Empty /\ file[path].val = tally /\ (lasting <=> file[path].ttl = Forever)
    <3>1. ~Filling
      BY <2>1 DEF Settled, Filling
    <3>2. flock[path] = None
      BY <2>1 DEF Settled, Locks, LockOf, TypeOK
    <3> QED
      BY <2>1, <3>1, <3>2 DEF Undisturbed, Resting
  <2>2. UpdatesAreNotLost
    BY <2>1 DEF UpdatesAreNotLost
  <2>3. ForeverStays
    <3> SUFFICES ASSUME Untouched, lasting, Settled PROVE Shown # None
      BY DEF ForeverStays
    <3>1. path # None
      BY DEF Undisturbed, Attached
    <3>2. file[path] # Empty /\ file[path].ttl = Forever
      BY <2>1, <3>1
    <3>3. file[path].val \in Numbers /\ Forever # 0
      BY <3>1, <3>2, Bounds DEF TypeOK, Entries
    <3> QED
      BY <3>1, <3>2, <3>3, Bounds DEF Shown, Live
  <2>4. AddIsExclusive
    <3> SUFFICES ASSUME ~removed, ~reclaimed PROVE Cardinality(winners) <= 1
      BY DEF AddIsExclusive
    <3>1. winners = {} \/ \E p \in Procs : winners = {p}
      BY DEF OneWinner
    <3>2. CASE winners = {}
      BY <3>2, FS_EmptySet
    <3>3. CASE \E p \in Procs : winners = {p}
      BY <3>3, FS_Singleton
    <3> QED
      BY <3>1, <3>2, <3>3
  <2> QED
    BY <2>2, <2>3, <2>4
<1> QED
  BY <1>1, Invariant, PTL

-----------------------------------------------------------------------------
(* THE THROTTLE                                                              *)

Most == 2 * MaxHits + 1
Tallies == [attempts : 1..(MaxHits + 1), reset_at : 0..HitDecay]
Histories == [1..Most -> 0..HitDecay]
Sorted(f) == \A i, j \in 1..Most : i <= j => f[i] <= f[j]

\* Histories begin with what happened last, and a request under way has the state it
\* will write, one of them under the lock.
LimitShape ==
  /\ counter \in Tallies \cup {None} /\ holder \in Procs \cup {None}
  /\ stage \in [Procs -> {"idle", "put", "write"}] /\ state \in [Procs -> Tallies \cup {None}]
  /\ verdict \in [Procs -> {"passed", "refused", None}]
  /\ hits \in Histories /\ passes \in Histories
  /\ before \in [Procs -> 0..Most] /\ overlap \in BOOLEAN /\ misses \in 0..MaxMisses
  /\ Sorted(hits) /\ Sorted(passes)
  /\ \A c \in Procs : /\ stage[c] = "idle" <=> state[c] = None
                      /\ stage[c] = "write" <=> holder = c

\* What counts hits has counted as many since its window began.
CountHasHits(s) == s # None => hits[s.attempts] <= HitDecay - s.reset_at
CountsHaveHits == CountHasHits(counter) /\ \A c \in Procs : CountHasHits(state[c])

\* A request that found the limit reached read after more hits than that, and so did one
\* that was refused.
RefusedSawHits ==
  \A c \in Procs :
    /\ state[c] # None /\ state[c].attempts > MaxHits => before[c] > MaxHits
    /\ verdict[c] = "refused" => before[c] > MaxHits

\* n requests have passed in the window that has r seconds left: those before them did when
\* it began, or earlier, and those before the limit of them are long gone.
Passed(n, r) == passes[n + 1] >= HitDecay - r /\ passes[n + MaxHits + 1] = HitDecay

\* As long as one request follows the other, the file, or the state of the one under way,
\* knows what has passed in its window.
PassesAreCounted ==
  ~overlap /\ misses = 0 =>
    /\ \A c, d \in Procs : stage[c] # "idle" /\ stage[d] # "idle" => c = d
    /\ \A c \in Procs : state[c] # None => Passed(state[c].attempts - 1, state[c].reset_at)
    /\ (\A c \in Procs : state[c] = None) =>
         IF counter = None THEN passes[1] = HitDecay
         ELSE Passed(Limit!Least(counter.attempts, MaxHits), counter.reset_at)

LimitInv == LimitShape /\ CountsHaveHits /\ RefusedSawHits /\ PassesAreCounted

-----------------------------------------------------------------------------
(* THE LOGIN POLICY                                                          *)

Rows(S) == {f \in S : f.age <= Decay}
Guesses == {"verify", "record"}

\* Requests whose failure may come although the failures have been counted.
OnTheWay(who) ==
  {r \in Procs : /\ place[r] \in Guesses \/ (place[r] = "ip" /\ ~locked[r])
                 /\ login[r].who = who}
OnTheWayFrom(ip) == {r \in Procs : place[r] \in Guesses /\ login[r].ip = ip}

\* Failures of a lock's time and those on the way are fewer than the limit and the requests.
FewAreOnTheWay ==
  errors = 0 /\ Decay < Lockout =>
    \A l \in Logins :
      /\ Cardinality(Rows(Lock!OfWho(l))) + Cardinality(OnTheWay(l.who)) < MaxAttempts + Cardinality(Procs)
      /\ Cardinality(Rows(Lock!OfAddress(l))) + Cardinality(OnTheWayFrom(l.ip)) < MaxAttempts + Cardinality(Procs)

\* Who has begun to delete has left no failure of the user from before.
BeganToForget ==
  \A r \in Procs : place[r] \in {"who", "address"} =>
    \A f \in failures : UserOf[f.who] = UserOf[login[r].who] => f.age <= since[r]

-----------------------------------------------------------------------------
(* Histories of the throttle.                                                *)

LEMMA LimitBounds ==
  /\ MaxHits \in Nat /\ MaxHits >= 1 /\ HitDecay \in Nat /\ HitDecay >= 1 /\ MaxMisses \in Nat
  /\ Most \in Nat /\ Most = 2 * MaxHits + 1 /\ None \notin Tallies /\ None \notin Procs
  /\ None \notin {"passed", "refused"}
PROOF
<1>1. MaxHits \in Nat \ {0} /\ HitDecay \in Nat \ {0} /\ MaxMisses \in Nat
  BY RequestsAssumption
<1>2. Most \in Nat /\ Most = 2 * MaxHits + 1
  BY <1>1 DEF Most
<1>3. Tallies \subseteq [attempts : Nat, reset_at : Nat]
  BY <1>1 DEF Tallies
<1> QED BY <1>1, <1>2, <1>3, RequestsAssumption

LEMMA LimitCardinality == \A S : Limit!Cardinality(S) = Cardinality(S)
  BY DEF Cardinality, Limit!Cardinality

\* What happens now becomes the first of a history and moves the others on by one.
LEMMA NotedIsAHistory ==
  ASSUME NEW f \in Histories, Sorted(f)
  PROVE  /\ Limit!Noted(f) \in Histories /\ Sorted(Limit!Noted(f))
         /\ Limit!Noted(f)[1] = 0
         /\ \A i \in 1..(Most - 1) : Limit!Noted(f)[i + 1] = f[i]
         /\ \A i \in 1..Most : Limit!Noted(f)[i] <= f[i]
PROOF
<1>1. Limit!Noted(f) = [n \in 1..Most |-> IF n = 1 THEN 0 ELSE f[n - 1]]
  BY DEF Limit!Noted, Limit!Most, Most
<1> DEFINE g == [n \in 1..Most |-> IF n = 1 THEN 0 ELSE f[n - 1]]
<1>2. \A n \in 1..Most : f[n] \in 0..HitDecay
  BY DEF Histories
<1>3. g \in Histories
  BY <1>2, LimitBounds DEF Histories
<1>4. g[1] = 0 /\ \A i \in 1..(Most - 1) : g[i + 1] = f[i]
  BY LimitBounds
<1>5. \A i \in 1..Most : g[i] <= f[i]
  <2> SUFFICES ASSUME NEW i \in 1..Most PROVE g[i] <= f[i]
    OBVIOUS
  <2>1. CASE i = 1
    BY <1>2, <1>4, <2>1, LimitBounds
  <2>2. CASE i # 1
    <3>1. i - 1 \in 1..Most /\ g[i] = f[i - 1]
      BY <2>2, LimitBounds
    <3> QED BY <3>1, LimitBounds DEF Sorted
  <2> QED BY <2>1, <2>2
<1>6. Sorted(g)
  <2> SUFFICES ASSUME NEW i \in 1..Most, NEW j \in 1..Most, i <= j PROVE g[i] <= g[j]
    BY DEF Sorted
  <2>1. CASE i = 1
    <3>1. g[i] = 0 /\ g[j] \in 0..HitDecay
      BY <1>3, <1>4, <2>1 DEF Histories
    <3> QED BY <3>1, LimitBounds
  <2>2. CASE i # 1
    <3>1. /\ i - 1 \in 1..Most /\ j - 1 \in 1..Most /\ i - 1 <= j - 1
          /\ g[i] = f[i - 1] /\ g[j] = f[j - 1]
      BY <2>2, LimitBounds
    <3> QED BY <3>1 DEF Sorted
  <2> QED BY <2>1, <2>2
<1> HIDE DEF g
<1> QED BY <1>1, <1>3, <1>4, <1>5, <1>6 DEF g

\* A second makes everything older, up to what is long ago.
LEMMA OlderIsAHistory ==
  ASSUME NEW f \in Histories, Sorted(f)
  PROVE  /\ Limit!Older(f) \in Histories /\ Sorted(Limit!Older(f))
         /\ \A i \in 1..Most : Limit!Older(f)[i] = IF f[i] < HitDecay THEN f[i] + 1 ELSE HitDecay
PROOF
<1>1. \A i \in 1..Most : f[i] \in 0..HitDecay
  BY DEF Histories
<1> DEFINE g == [i \in 1..Most |-> IF f[i] < HitDecay THEN f[i] + 1 ELSE HitDecay]
<1>2. Limit!Older(f) = g
  <2>1. \A i \in 1..Most : Limit!Least(f[i] + 1, HitDecay) = IF f[i] < HitDecay THEN f[i] + 1 ELSE HitDecay
    BY <1>1, LimitBounds DEF Limit!Least
  <2> QED BY <2>1 DEF Limit!Older, Limit!Most, Most
<1>3. g \in Histories
  BY <1>1, LimitBounds DEF Histories
<1>4. Sorted(g)
  <2> SUFFICES ASSUME NEW i \in 1..Most, NEW j \in 1..Most, i <= j PROVE g[i] <= g[j]
    BY DEF Sorted
  <2>1. f[i] <= f[j] /\ f[i] \in 0..HitDecay /\ f[j] \in 0..HitDecay
    BY <1>1 DEF Sorted
  <2> QED BY <2>1, LimitBounds
<1>5. \A i \in 1..Most : g[i] = IF f[i] < HitDecay THEN f[i] + 1 ELSE HitDecay
  OBVIOUS
<1> HIDE DEF g
<1> QED BY <1>2, <1>3, <1>4, <1>5

\* How much of a history is recent shows at its n-th entry.
LEMMA RecentIsCounted ==
  ASSUME NEW f \in Histories, Sorted(f), NEW n \in 1..Most
  PROVE  /\ Limit!Recent(f) \in 0..Most
         /\ f[n] < HitDecay => Limit!Recent(f) >= n
         /\ f[n] = HitDecay => Limit!Recent(f) < n
PROOF
<1> DEFINE R == {i \in 1..Most : f[i] < HitDecay}
<1>1. Limit!Recent(f) = Cardinality(R)
  BY LimitCardinality DEF Limit!Recent, Limit!Most, Most
<1>2. IsFiniteSet(1..Most) /\ Cardinality(1..Most) = Most
  BY LimitBounds, FS_Interval
<1>3. IsFiniteSet(R) /\ Cardinality(R) <= Most /\ Cardinality(R) \in Nat
  BY <1>2, FS_Subset, FS_CardinalityType
<1>4. ASSUME f[n] < HitDecay PROVE Cardinality(R) >= n
  <2>1. 1..n \subseteq R
    <3> SUFFICES ASSUME NEW i \in 1..n PROVE i \in R
      OBVIOUS
    <3>1. i \in 1..Most /\ i <= n /\ f[i] \in 0..HitDecay /\ f[n] \in 0..HitDecay
      BY LimitBounds DEF Histories
    <3>2. f[i] <= f[n]
      BY <3>1 DEF Sorted
    <3> QED BY <1>4, <3>1, <3>2, LimitBounds
  <2>2. Cardinality(1..n) = n
    BY FS_Interval, LimitBounds
  <2> QED BY <1>3, <2>1, <2>2, FS_Subset
<1>5. ASSUME f[n] = HitDecay PROVE Cardinality(R) < n
  <2>1. R \subseteq 1..(n - 1)
    <3> SUFFICES ASSUME NEW i \in R PROVE i \in 1..(n - 1)
      OBVIOUS
    <3>1. i \in 1..Most /\ f[i] < HitDecay /\ f[i] \in 0..HitDecay
      BY DEF Histories
    <3>2. ~(n <= i)
      BY <1>5, <3>1, LimitBounds DEF Sorted
    <3> QED BY <3>1, <3>2, LimitBounds
  <2>2. IsFiniteSet(1..(n - 1)) /\ Cardinality(1..(n - 1)) = n - 1
    BY FS_Interval, LimitBounds
  <2>3. Cardinality(R) <= n - 1
    BY <2>1, <2>2, FS_Subset
  <2> QED BY <1>3, <2>3, LimitBounds
<1> HIDE DEF R
<1> QED BY <1>1, <1>3, <1>4, <1>5, LimitBounds

LEMMA CountIsTyped ==
  ASSUME NEW s \in Tallies
  PROVE  /\ s # None /\ s.attempts \in 1..(MaxHits + 1) /\ s.attempts \in 1..Most
         /\ s.reset_at \in 0..HitDecay
PROOF
<1>1. s.attempts \in 1..(MaxHits + 1) /\ s.reset_at \in 0..HitDecay
  BY DEF Tallies
<1> QED BY <1>1, LimitBounds

\* The parts of the shape that have to do with hits and passes.
LEMMA HistoriesAreSorted ==
  ASSUME LimitInv
  PROVE  hits \in Histories /\ Sorted(hits) /\ passes \in Histories /\ Sorted(passes)
  BY DEF LimitInv, LimitShape, Sorted

LEMMA EntriesAreAges ==
  ASSUME LimitInv, NEW i \in 1..Most PROVE hits[i] \in 0..HitDecay /\ passes[i] \in 0..HitDecay
  BY DEF LimitInv, LimitShape, Histories

-----------------------------------------------------------------------------
(* The throttle keeps its invariant.                                         *)

LEMMA LimitStarts == ASSUME Limit!Init PROVE LimitInv
PROOF
<1>1. /\ counter = None /\ holder = None /\ stage = [c \in Procs |-> "idle"]
      /\ state = [c \in Procs |-> None] /\ verdict = [c \in Procs |-> None]
      /\ hits = [n \in 1..Most |-> HitDecay] /\ passes = [n \in 1..Most |-> HitDecay]
      /\ before = [c \in Procs |-> 0] /\ overlap = FALSE /\ misses = 0
  BY DEF Limit!Init, Limit!Never, Limit!Most, Most
<1>2. hits \in Histories /\ Sorted(hits) /\ passes \in Histories /\ Sorted(passes)
  BY <1>1, LimitBounds DEF Histories, Sorted
<1>3. misses \in 0..MaxMisses /\ 0 \in 0..Most /\ \A c \in Procs : holder # c
  BY <1>1, LimitBounds
<1>4. LimitShape
  BY <1>1, <1>2, <1>3 DEF LimitShape
<1>5. CountsHaveHits /\ RefusedSawHits
  BY <1>1, LimitBounds DEF CountsHaveHits, CountHasHits, RefusedSawHits
<1>6. PassesAreCounted
  <2>1. passes[1] = HitDecay
    BY <1>1, LimitBounds
  <2> QED BY <1>1, <2>1 DEF PassesAreCounted
<1> QED BY <1>4, <1>5, <1>6 DEF LimitInv

\* The state of a hit: one more in the window of the file, or the first of a new one.
LEMMA CountedIsACount ==
  ASSUME LimitInv, hits' = Limit!Noted(hits)
  PROVE  /\ Limit!Counted(counter) \in Tallies
         /\ hits'[Limit!Counted(counter).attempts] <= HitDecay - Limit!Counted(counter).reset_at
         /\ Limit!Counted(counter).attempts > MaxHits => Limit!Recent(hits') > MaxHits
         /\ (IF counter = None THEN passes[1] = HitDecay
             ELSE Passed(Limit!Least(counter.attempts, MaxHits), counter.reset_at)) =>
               Passed(Limit!Counted(counter).attempts - 1, Limit!Counted(counter).reset_at)
PROOF
<1>1. /\ hits' \in Histories /\ Sorted(hits') /\ hits'[1] = 0
      /\ \A i \in 1..(Most - 1) : hits'[i + 1] = hits[i]
      /\ \A i \in 1..Most : hits'[i] <= hits[i]
  BY HistoriesAreSorted, NotedIsAHistory
<1>2. counter \in Tallies \cup {None} /\ CountHasHits(counter)
  BY DEF LimitInv, LimitShape, CountsHaveHits
<1>3. Sorted(passes) /\ \A i \in 1..Most : passes[i] \in 0..HitDecay
  BY HistoriesAreSorted, EntriesAreAges
<1>4. CASE Limit!WindowOver(counter)
  <2>1. Limit!Counted(counter) = [attempts |-> 1, reset_at |-> HitDecay]
    BY <1>4 DEF Limit!Counted
  <2>2. Limit!Counted(counter) \in Tallies
    BY <2>1, LimitBounds DEF Tallies
  <2>3. passes[1] >= 0 /\ MaxHits + 1 \in 1..Most /\ 1 \in 1..Most
    BY <1>3, LimitBounds
  <2>4. ASSUME counter = None, passes[1] = HitDecay PROVE passes[MaxHits + 1] = HitDecay
    BY <1>3, <2>3, <2>4, LimitBounds DEF Sorted
  <2>5. ASSUME counter # None, Passed(Limit!Least(counter.attempts, MaxHits), counter.reset_at)
        PROVE  passes[MaxHits + 1] = HitDecay
    <3>1. counter.reset_at = 0 /\ counter.attempts \in 1..(MaxHits + 1)
      BY <1>2, <1>4, <2>5, CountIsTyped DEF Limit!WindowOver
    <3>2. PICK n \in 1..MaxHits : n = Limit!Least(counter.attempts, MaxHits)
      BY <3>1, LimitBounds DEF Limit!Least
    <3>3. passes[n + 1] >= HitDecay
      BY <2>5, <3>1, <3>2, LimitBounds DEF Passed
    <3>4. n + 1 \in 1..Most /\ n + 1 <= MaxHits + 1
      BY <3>2, LimitBounds
    <3>5. passes[n + 1] <= passes[MaxHits + 1]
      BY <1>3, <2>3, <3>4 DEF Sorted
    <3> QED BY <1>3, <2>3, <3>3, <3>4, <3>5, LimitBounds
  <2>6. passes[MaxHits + 1] = HitDecay => Passed(0, HitDecay)
    BY <2>3, LimitBounds DEF Passed
  <2>7. /\ Limit!Counted(counter).attempts = 1 /\ Limit!Counted(counter).reset_at = HitDecay
    BY <2>1
  <2> QED BY <1>1, <2>2, <2>4, <2>5, <2>6, <2>7, LimitBounds
<1>5. CASE ~Limit!WindowOver(counter)
  <2>1. /\ counter \in Tallies /\ counter # None /\ counter.attempts \in 1..(MaxHits + 1)
        /\ counter.attempts \in 1..Most /\ counter.reset_at \in 1..HitDecay
    BY <1>2, <1>5, CountIsTyped, LimitBounds DEF Limit!WindowOver
  <2>2. PICK a \in 1..(MaxHits + 1) :
          /\ a = Limit!Least(counter.attempts + 1, MaxHits + 1)
          /\ counter.attempts = MaxHits + 1 => a = MaxHits + 1
          /\ counter.attempts # MaxHits + 1 => a = counter.attempts + 1
    BY <2>1, LimitBounds DEF Limit!Least
  <2>3. Limit!Counted(counter) = [attempts |-> a, reset_at |-> counter.reset_at]
    BY <1>5, <2>1, <2>2 DEF Limit!Counted, Limit!Over, Tallies
  <2>4. Limit!Counted(counter) \in Tallies
    BY <2>1, <2>2, <2>3, LimitBounds DEF Tallies
  <2>5. hits[counter.attempts] <= HitDecay - counter.reset_at
    BY <1>2, <2>1 DEF CountHasHits
  <2>6. hits'[a] <= hits[counter.attempts]
    <3>1. CASE counter.attempts = MaxHits + 1
      <4>1. a = counter.attempts
        BY <2>2, <3>1
      <4>2. a \in 1..Most
        BY <2>1, <4>1
      <4>3. hits'[a] <= hits[a]
        BY <1>1, <4>2
      <4> QED BY <4>1, <4>3
    <3>2. CASE counter.attempts # MaxHits + 1
      <4>1. a = counter.attempts + 1 /\ counter.attempts \in 1..(Most - 1)
        BY <2>1, <2>2, <3>2, LimitBounds
      <4>2. hits'[a] = hits[counter.attempts] /\ hits[counter.attempts] \in 0..HitDecay
        BY <1>1, <2>1, <4>1, EntriesAreAges
      <4> QED BY <4>2, LimitBounds
    <3> QED BY <3>1, <3>2
  <2>7. a \in 1..Most /\ hits'[a] \in 0..HitDecay /\ hits[counter.attempts] \in 0..HitDecay
    BY <1>1, <2>1, <2>2, EntriesAreAges, LimitBounds DEF Histories
  <2>8. hits'[a] <= HitDecay - counter.reset_at /\ hits'[a] < HitDecay
    BY <2>1, <2>5, <2>6, <2>7, LimitBounds
  <2>9. Limit!Recent(hits') >= a /\ Limit!Recent(hits') \in Nat
    BY <1>1, <2>7, <2>8, RecentIsCounted, LimitBounds
  <2>10. Limit!Least(counter.attempts, MaxHits) = a - 1
    BY <2>1, <2>2, LimitBounds DEF Limit!Least
  <2>11. Limit!Counted(counter).attempts = a /\ Limit!Counted(counter).reset_at = counter.reset_at
    BY <2>3
  <2>12. a > MaxHits => Limit!Recent(hits') > MaxHits
    BY <2>2, <2>9, LimitBounds
  <2> QED BY <2>1, <2>4, <2>8, <2>10, <2>11, <2>12
<1> QED BY <1>4, <1>5

LEMMA HitKeepsLimit == ASSUME LimitInv, NEW c \in Procs, Limit!Hit(c) PROVE LimitInv'
PROOF
<1>1. /\ stage[c] = "idle" /\ state' = [state EXCEPT ![c] = Limit!Counted(counter)]
      /\ verdict' = [verdict EXCEPT ![c] = None] /\ hits' = Limit!Noted(hits)
      /\ before' = [before EXCEPT ![c] = Limit!Recent(hits')]
      /\ overlap' = (overlap \/ \E d \in Procs : stage[d] # "idle")
      /\ stage' = [stage EXCEPT ![c] = "put"]
      /\ UNCHANGED <<counter, holder, passes, misses>>
  BY DEF Limit!Hit, Limit!GoTo
<1> DEFINE s == Limit!Counted(counter)
<1>2. /\ s \in Tallies /\ s # None /\ hits'[s.attempts] <= HitDecay - s.reset_at
      /\ s.attempts > MaxHits => Limit!Recent(hits') > MaxHits
      /\ (IF counter = None THEN passes[1] = HitDecay
          ELSE Passed(Limit!Least(counter.attempts, MaxHits), counter.reset_at)) =>
            Passed(s.attempts - 1, s.reset_at)
  BY <1>1, CountedIsACount, CountIsTyped
<1> HIDE DEF s
<1>3. /\ hits' \in Histories /\ Sorted(hits') /\ \A i \in 1..Most : hits'[i] <= hits[i]
      /\ Limit!Recent(hits') \in 0..Most
  <2>1. /\ hits' \in Histories /\ Sorted(hits') /\ \A i \in 1..Most : hits'[i] <= hits[i]
    BY <1>1, HistoriesAreSorted, NotedIsAHistory
  <2>2. 1 \in 1..Most
    BY LimitBounds
  <2> QED BY <2>1, <2>2, RecentIsCounted
<1>4. LimitShape
  BY DEF LimitInv
<1>5. state' = [state EXCEPT ![c] = s]
  BY <1>1 DEF s
<1>6. LimitShape'
  <2>1. /\ state' \in [Procs -> Tallies \cup {None}] /\ stage' \in [Procs -> {"idle", "put", "write"}]
        /\ verdict' \in [Procs -> {"passed", "refused", None}] /\ before' \in [Procs -> 0..Most]
    BY <1>1, <1>2, <1>3, <1>4, <1>5 DEF LimitShape
  <2>2. overlap' \in BOOLEAN
    BY <1>1, <1>4 DEF LimitShape
  <2>3. \A d \in Procs : /\ stage'[d] = "idle" <=> state'[d] = None
                         /\ stage'[d] = "write" <=> holder' = d
    BY <1>1, <1>2, <1>4, <1>5 DEF LimitShape
  <2>4. counter' \in Tallies \cup {None} /\ holder' \in Procs \cup {None} /\ misses' \in 0..MaxMisses
        /\ passes' \in Histories /\ Sorted(passes')
    BY <1>1, <1>4 DEF LimitShape
  <2> QED BY <1>3, <2>1, <2>2, <2>3, <2>4 DEF LimitShape
<1>7. CountsHaveHits'
  <2>1. ASSUME NEW t \in Tallies, hits[t.attempts] <= HitDecay - t.reset_at
        PROVE  hits'[t.attempts] <= HitDecay - t.reset_at
    <3>1. t.attempts \in 1..Most /\ t.reset_at \in 0..HitDecay
      BY CountIsTyped
    <3>2. /\ hits'[t.attempts] <= hits[t.attempts] /\ hits[t.attempts] \in 0..HitDecay
          /\ hits'[t.attempts] \in 0..HitDecay
      BY <1>3, <3>1, EntriesAreAges DEF Histories
    <3> QED BY <2>1, <3>1, <3>2, LimitBounds
  <2>2. CountHasHits(counter)'
    BY <1>1, <1>4, <2>1 DEF LimitInv, LimitShape, CountsHaveHits, CountHasHits
  <2>3. ASSUME NEW d \in Procs PROVE CountHasHits(state[d])'
    <3>1. CASE d = c
      BY <1>2, <1>4, <1>5, <3>1 DEF LimitShape, CountHasHits
    <3>2. CASE d # c
      <4>1. state'[d] = state[d] /\ state[d] \in Tallies \cup {None} /\ CountHasHits(state[d])
        BY <1>4, <1>5, <3>2 DEF LimitInv, LimitShape, CountsHaveHits
      <4> QED BY <2>1, <4>1 DEF CountHasHits
    <3> QED BY <3>1, <3>2
  <2> QED BY <2>2, <2>3 DEF CountsHaveHits
<1>8. RefusedSawHits'
  <2> SUFFICES ASSUME NEW d \in Procs
               PROVE  /\ state'[d] # None /\ state'[d].attempts > MaxHits => before'[d] > MaxHits
                      /\ verdict'[d] = "refused" => before'[d] > MaxHits
    BY DEF RefusedSawHits
  <2>1. CASE d = c
    <3>1. state'[c] = s /\ before'[c] = Limit!Recent(hits') /\ verdict'[c] = None
      BY <1>1, <1>4, <1>5 DEF LimitShape
    <3> QED BY <1>2, <2>1, <3>1, LimitBounds
  <2>2. CASE d # c
    <3>1. state'[d] = state[d] /\ before'[d] = before[d] /\ verdict'[d] = verdict[d]
      BY <1>1, <1>4, <1>5, <2>2 DEF LimitShape
    <3> QED BY <3>1 DEF LimitInv, RefusedSawHits
  <2> QED BY <2>1, <2>2
<1>9. PassesAreCounted'
  <2> SUFFICES ASSUME ~overlap', misses' = 0
               PROVE  PassesAreCounted'
    BY DEF PassesAreCounted
  <2>1. ~overlap /\ misses = 0 /\ \A d \in Procs : stage[d] = "idle"
    BY <1>1
  <2>2. \A d \in Procs : state[d] = None
    BY <1>4, <2>1 DEF LimitShape
  <2>3. Passed(s.attempts - 1, s.reset_at)
    BY <1>2, <2>1, <2>2 DEF LimitInv, PassesAreCounted
  <2>4. Passed(s.attempts - 1, s.reset_at)'
    <3>1. s' = s
      BY <1>1 DEF s, Limit!Counted, Limit!WindowOver
    <3> QED BY <1>1, <2>3, <3>1 DEF Passed
  <2>5. \A d \in Procs : d # c => stage'[d] = "idle" /\ state'[d] = None
    BY <1>1, <1>4, <1>5, <2>1, <2>2 DEF LimitShape
  <2>6. state'[c] = s /\ state'[c] # None
    BY <1>2, <1>4, <1>5 DEF LimitShape
  <2>7. Passed(state[c].attempts - 1, state[c].reset_at)'
    <3>1. s' = s
      BY <1>1 DEF s, Limit!Counted, Limit!WindowOver
    <3> QED BY <2>4, <2>6, <3>1 DEF Passed
  <2> QED BY <2>5, <2>6, <2>7 DEF PassesAreCounted
<1> QED BY <1>6, <1>7, <1>8, <1>9 DEF LimitInv

LEMMA TruncateKeepsLimit == ASSUME LimitInv, NEW c \in Procs, Limit!Truncate(c) PROVE LimitInv'
PROOF
<1>1. /\ stage[c] = "put" /\ holder = None /\ holder' = c /\ counter' = None
      /\ stage' = [stage EXCEPT ![c] = "write"]
      /\ UNCHANGED <<state, verdict, hits, before, passes, overlap, misses>>
  BY DEF Limit!Truncate, Limit!GoTo, Limit!history
<1>2. LimitShape
  BY DEF LimitInv
<1>3. LimitShape'
  <2>1. \A d \in Procs : /\ stage'[d] = "idle" <=> state'[d] = None
                         /\ stage'[d] = "write" <=> holder' = d
    BY <1>1, <1>2, LimitBounds DEF LimitShape
  <2>2. stage' \in [Procs -> {"idle", "put", "write"}] /\ Sorted(hits') /\ Sorted(passes')
    BY <1>1, <1>2 DEF LimitShape, Sorted
  <2> QED BY <1>1, <1>2, <2>1, <2>2 DEF LimitShape
<1>4. CountsHaveHits' /\ RefusedSawHits'
  BY <1>1 DEF LimitInv, CountsHaveHits, CountHasHits, RefusedSawHits
<1>5. PassesAreCounted'
  <2>1. state[c] # None
    BY <1>1, <1>2 DEF LimitShape
  <2>2. \A d \in Procs : stage'[d] # "idle" <=> stage[d] # "idle"
    BY <1>1, <1>2 DEF LimitShape
  <2>3. \A n, r : Passed(n, r)' <=> Passed(n, r)
    BY <1>1 DEF Passed
  <2> QED BY <1>1, <2>1, <2>2, <2>3 DEF LimitInv, PassesAreCounted, Passed
<1> QED BY <1>3, <1>4, <1>5 DEF LimitInv

\* A hit is answered: it is refused if its state is over the limit, and else it has passed.
LEMMA AnswerKeepsShape ==
  ASSUME LimitInv, NEW c \in Procs, stage[c] # "idle", Limit!Answer(c),
         holder' = (IF holder = c THEN None ELSE holder), counter' \in {counter, state[c]},
         misses' \in 0..MaxMisses, UNCHANGED <<hits, before, overlap>>
  PROVE  /\ LimitShape' /\ CountsHaveHits' /\ RefusedSawHits'
         /\ state' = [state EXCEPT ![c] = None] /\ stage' = [stage EXCEPT ![c] = "idle"]
         /\ state[c] \in Tallies
         /\ passes' = IF state[c].attempts <= MaxHits THEN Limit!Noted(passes) ELSE passes
PROOF
<1>1. /\ state' = [state EXCEPT ![c] = None] /\ stage' = [stage EXCEPT ![c] = "idle"]
      /\ passes' = IF state[c].attempts <= MaxHits THEN Limit!Noted(passes) ELSE passes
      /\ verdict' = [verdict EXCEPT ![c] = IF state[c].attempts <= MaxHits THEN "passed" ELSE "refused"]
  BY DEF Limit!Answer, Limit!Passes, Limit!GoTo
<1>2. LimitShape
  BY DEF LimitInv
<1>3. state[c] \in Tallies
  BY <1>2 DEF LimitShape
<1>4. passes' \in Histories /\ Sorted(passes')
  BY <1>1, HistoriesAreSorted, NotedIsAHistory
<1>5. LimitShape'
  <2>1. \A d \in Procs : /\ stage'[d] = "idle" <=> state'[d] = None
                         /\ stage'[d] = "write" <=> holder' = d
    BY <1>1, <1>2, LimitBounds DEF LimitShape
  <2>2. /\ stage' \in [Procs -> {"idle", "put", "write"}] /\ state' \in [Procs -> Tallies \cup {None}]
        /\ verdict' \in [Procs -> {"passed", "refused", None}]
    BY <1>1, <1>2 DEF LimitShape
  <2>3. counter' \in Tallies \cup {None} /\ holder' \in Procs \cup {None}
    BY <1>2, <1>3 DEF LimitShape
  <2>4. /\ hits' \in Histories /\ Sorted(hits') /\ before' \in [Procs -> 0..Most] /\ overlap' \in BOOLEAN
    BY <1>2 DEF LimitShape, Sorted
  <2> QED BY <1>4, <2>1, <2>2, <2>3, <2>4 DEF LimitShape, Sorted
<1>6. CountsHaveHits'
  BY <1>1, <1>2 DEF LimitInv, LimitShape, CountsHaveHits, CountHasHits
<1>7. RefusedSawHits'
  <2> SUFFICES ASSUME NEW d \in Procs
               PROVE  /\ state'[d] # None /\ state'[d].attempts > MaxHits => before'[d] > MaxHits
                      /\ verdict'[d] = "refused" => before'[d] > MaxHits
    BY DEF RefusedSawHits
  <2>1. CASE d = c
    <3>1. state'[c] = None
      BY <1>1, <1>2 DEF LimitShape
    <3>2. ASSUME verdict'[c] = "refused" PROVE before'[c] > MaxHits
      <4>1. ~(state[c].attempts <= MaxHits)
        BY <1>1, <1>2, <3>2 DEF LimitShape
      <4>2. state[c] # None /\ state[c].attempts > MaxHits
        BY <1>3, <4>1, CountIsTyped, LimitBounds
      <4> QED BY <4>2 DEF LimitInv, RefusedSawHits
    <3> QED BY <2>1, <3>1, <3>2
  <2>2. CASE d # c
    <3>1. state'[d] = state[d] /\ verdict'[d] = verdict[d]
      BY <1>1, <1>2, <2>2 DEF LimitShape
    <3> QED BY <3>1 DEF LimitInv, RefusedSawHits
  <2> QED BY <2>1, <2>2
<1> QED BY <1>1, <1>3, <1>5, <1>6, <1>7

LEMMA WriteKeepsLimit == ASSUME LimitInv, NEW c \in Procs, Limit!Write(c) PROVE LimitInv'
PROOF
<1>1. /\ stage[c] = "write" /\ counter' = state[c] /\ holder' = None /\ Limit!Answer(c)
      /\ UNCHANGED <<hits, before, overlap, misses>>
  BY DEF Limit!Write
<1>2. holder = c /\ misses \in 0..MaxMisses /\ state \in [Procs -> Tallies \cup {None}]
      /\ stage \in [Procs -> {"idle", "put", "write"}]
      /\ \A d \in Procs : stage[d] = "idle" <=> state[d] = None
  BY <1>1 DEF LimitInv, LimitShape
<1>3. /\ LimitShape' /\ CountsHaveHits' /\ RefusedSawHits'
      /\ state' = [state EXCEPT ![c] = None] /\ stage' = [stage EXCEPT ![c] = "idle"]
      /\ state[c] \in Tallies
      /\ passes' = IF state[c].attempts <= MaxHits THEN Limit!Noted(passes) ELSE passes
  BY <1>1, <1>2, AnswerKeepsShape
<1>4. PassesAreCounted'
  <2> SUFFICES ASSUME ~overlap', misses' = 0
               PROVE  PassesAreCounted'
    BY DEF PassesAreCounted
  <2>1. ~overlap /\ misses = 0
    BY <1>1
  <2>2. /\ \A d \in Procs : stage[d] # "idle" => d = c
        /\ Passed(state[c].attempts - 1, state[c].reset_at)
    BY <1>1, <1>2, <2>1 DEF LimitInv, PassesAreCounted
  <2>3. \A d \in Procs : stage'[d] = "idle" /\ state'[d] = None
    BY <1>2, <1>3, <2>2
  <2>4. PICK a \in 1..(MaxHits + 1), r \in 0..HitDecay :
          a = state[c].attempts /\ r = state[c].reset_at
    BY <1>3, CountIsTyped
  <2>5. counter' # None /\ counter'.attempts = a /\ counter'.reset_at = r
    BY <1>1, <1>3, <2>4, CountIsTyped
  <2>6. Passed(Limit!Least(a, MaxHits), r)'
    <3>1. passes[a] >= HitDecay - r /\ passes[a + MaxHits] = HitDecay
      BY <2>2, <2>4, LimitBounds DEF Passed
    <3>2. CASE a <= MaxHits
      <4>1. /\ passes'[a + 1] = passes[a] /\ passes'[a + MaxHits + 1] = passes[a + MaxHits]
        <5>1. passes' = Limit!Noted(passes)
          BY <1>3, <2>4, <3>2
        <5>2. a \in 1..(Most - 1) /\ a + MaxHits \in 1..(Most - 1)
          BY <3>2, LimitBounds
        <5> QED BY <5>1, <5>2, HistoriesAreSorted, NotedIsAHistory
      <4>2. Limit!Least(a, MaxHits) = a
        BY <3>2, LimitBounds DEF Limit!Least
      <4> QED BY <3>1, <4>1, <4>2 DEF Passed
    <3>3. CASE ~(a <= MaxHits)
      <4>1. Limit!Least(a, MaxHits) = MaxHits /\ a = MaxHits + 1 /\ passes' = passes
        BY <1>3, <2>4, <3>3, LimitBounds DEF Limit!Least
      <4>2. a + MaxHits = MaxHits + MaxHits + 1
        BY <4>1, LimitBounds
      <4> QED BY <3>1, <4>1, <4>2 DEF Passed
    <3> QED BY <3>2, <3>3
  <2>7. Passed(Limit!Least(counter.attempts, MaxHits), counter.reset_at)'
    BY <2>5, <2>6 DEF Passed, Limit!Least
  <2> QED BY <2>3, <2>5, <2>7 DEF PassesAreCounted
<1> QED BY <1>3, <1>4 DEF LimitInv

LEMMA MissesKeepLimit ==
  ASSUME LimitInv, NEW c \in Procs, Limit!WriteFails(c) \/ Limit!Kill(c) PROVE LimitInv'
PROOF
<1>1. /\ stage[c] # "idle" /\ misses < MaxMisses /\ misses' = misses + 1
      /\ holder' = (IF holder = c THEN None ELSE holder)
      /\ UNCHANGED <<counter, hits, before, overlap>>
  BY DEF Limit!WriteFails, Limit!Kill, Limit!history
<1>2. misses' \in 0..MaxMisses /\ misses' # 0
  BY <1>1, LimitBounds DEF LimitInv, LimitShape
<1>3. PassesAreCounted'
  BY <1>2 DEF PassesAreCounted
<1>4. CASE Limit!WriteFails(c)
  <2>1. Limit!Answer(c)
    BY <1>4 DEF Limit!WriteFails
  <2> QED BY <1>1, <1>2, <1>3, <2>1, AnswerKeepsShape DEF LimitInv
<1>5. CASE Limit!Kill(c)
  <2>1. /\ state' = [state EXCEPT ![c] = None] /\ stage' = [stage EXCEPT ![c] = "idle"]
        /\ UNCHANGED <<verdict, passes>>
    BY <1>5 DEF Limit!Kill, Limit!GoTo, Limit!history
  <2>2. LimitShape
    BY DEF LimitInv
  <2>3. LimitShape'
    <3>1. \A d \in Procs : /\ stage'[d] = "idle" <=> state'[d] = None
                           /\ stage'[d] = "write" <=> holder' = d
      BY <1>1, <2>1, <2>2, LimitBounds DEF LimitShape
    <3>2. /\ stage' \in [Procs -> {"idle", "put", "write"}] /\ state' \in [Procs -> Tallies \cup {None}]
          /\ holder' \in Procs \cup {None}
      BY <1>1, <2>1, <2>2 DEF LimitShape
    <3>3. Sorted(hits') /\ Sorted(passes')
      BY <1>1, <2>1, <2>2 DEF LimitShape, Sorted
    <3> QED BY <1>1, <1>2, <2>1, <2>2, <3>1, <3>2, <3>3 DEF LimitShape
  <2>4. CountsHaveHits'
    BY <1>1, <2>1, <2>2 DEF LimitInv, LimitShape, CountsHaveHits, CountHasHits
  <2>5. RefusedSawHits'
    BY <1>1, <2>1, <2>2 DEF LimitInv, LimitShape, RefusedSawHits
  <2> QED BY <1>3, <2>3, <2>4, <2>5 DEF LimitInv
<1> QED BY <1>4, <1>5

\* A second that passes leaves a state its hits, and a window what passed before it.
LEMMA LaterCountsTheSame ==
  ASSUME LimitInv, NEW s \in Tallies \cup {None},
         hits' = Limit!Older(hits), passes' = Limit!Older(passes)
  PROVE  /\ Limit!Later(s) \in Tallies \cup {None} /\ (Limit!Later(s) = None <=> s = None)
         /\ s # None => /\ Limit!Later(s).attempts = s.attempts
                        /\ Limit!Later(s).reset_at = IF s.reset_at = 0 THEN 0 ELSE s.reset_at - 1
         /\ CountHasHits(s) /\ s # None => hits'[s.attempts] <= HitDecay - Limit!Later(s).reset_at
         /\ \A n \in 0..MaxHits : s # None /\ Passed(n, s.reset_at) =>
              /\ passes'[n + 1] >= HitDecay - Limit!Later(s).reset_at
              /\ passes'[n + MaxHits + 1] = HitDecay
PROOF
<1>1. CASE s = None
  BY <1>1 DEF Limit!Later
<1>2. CASE s # None
  <2>1. /\ s \in Tallies /\ s.attempts \in 1..(MaxHits + 1) /\ s.attempts \in 1..Most
        /\ s.reset_at \in 0..HitDecay
    BY <1>2, CountIsTyped
  <2>2. PICK r \in 0..HitDecay : r = IF s.reset_at = 0 THEN 0 ELSE s.reset_at - 1
    BY <2>1, LimitBounds
  <2>3. Limit!Later(s) = [attempts |-> s.attempts, reset_at |-> r]
    BY <1>2, <2>1, <2>2 DEF Limit!Later, Tallies
  <2>4. Limit!Later(s) \in Tallies
    BY <2>1, <2>2, <2>3 DEF Tallies
  <2>5. ASSUME CountHasHits(s) PROVE hits'[s.attempts] <= HitDecay - r
    <3>1. hits[s.attempts] <= HitDecay - s.reset_at /\ hits[s.attempts] \in 0..HitDecay
      BY <1>2, <2>1, <2>5, EntriesAreAges DEF CountHasHits
    <3>2. hits'[s.attempts] = IF hits[s.attempts] < HitDecay THEN hits[s.attempts] + 1 ELSE HitDecay
      BY <2>1, HistoriesAreSorted, OlderIsAHistory
    <3> QED BY <2>1, <2>2, <3>1, <3>2, LimitBounds
  <2>6. ASSUME NEW n \in 0..MaxHits, Passed(n, s.reset_at)
        PROVE  passes'[n + 1] >= HitDecay - r /\ passes'[n + MaxHits + 1] = HitDecay
    <3>1. n + 1 \in 1..Most /\ n + MaxHits + 1 \in 1..Most
      BY LimitBounds
    <3>2. /\ passes[n + 1] >= HitDecay - s.reset_at /\ passes[n + 1] \in 0..HitDecay
          /\ passes[n + MaxHits + 1] = HitDecay
      BY <2>6, <3>1, EntriesAreAges DEF Passed
    <3>3. /\ passes'[n + 1] = IF passes[n + 1] < HitDecay THEN passes[n + 1] + 1 ELSE HitDecay
          /\ passes'[n + MaxHits + 1] =
               IF passes[n + MaxHits + 1] < HitDecay THEN passes[n + MaxHits + 1] + 1 ELSE HitDecay
      BY <3>1, HistoriesAreSorted, OlderIsAHistory
    <3>4. passes'[n + MaxHits + 1] = HitDecay
      BY <3>2, <3>3, LimitBounds
    <3>5. passes'[n + 1] >= HitDecay - r
      BY <2>1, <2>2, <3>2, <3>3, LimitBounds
    <3> QED BY <3>4, <3>5
  <2>7. Limit!Later(s).attempts = s.attempts /\ Limit!Later(s).reset_at = r
    BY <2>3
  <2>8. Limit!Later(s) # None
    BY <2>4, CountIsTyped
  <2> QED BY <1>2, <2>2, <2>4, <2>5, <2>6, <2>7, <2>8
<1> QED BY <1>1, <1>2

LEMMA TickKeepsLimit == ASSUME LimitInv, Limit!Tick PROVE LimitInv'
PROOF
<1>1. /\ counter' = Limit!Later(counter) /\ state' = [c \in Procs |-> Limit!Later(state[c])]
      /\ hits' = Limit!Older(hits) /\ passes' = Limit!Older(passes)
      /\ UNCHANGED <<holder, stage, verdict, before, overlap, misses>>
  BY DEF Limit!Tick
<1>2. LimitShape /\ counter \in Tallies \cup {None} /\ \A c \in Procs : state[c] \in Tallies \cup {None}
  BY DEF LimitInv, LimitShape
<1>3. hits' \in Histories /\ Sorted(hits') /\ passes' \in Histories /\ Sorted(passes')
  BY <1>1, HistoriesAreSorted, OlderIsAHistory
<1>4. LimitShape'
  <2>1. counter' \in Tallies \cup {None} /\ state' \in [Procs -> Tallies \cup {None}]
    BY <1>1, <1>2, LaterCountsTheSame
  <2>2. \A c \in Procs : state'[c] = None <=> state[c] = None
    BY <1>1, <1>2, LaterCountsTheSame
  <2> QED BY <1>1, <1>2, <1>3, <2>1, <2>2 DEF LimitShape, Sorted
<1>5. CountsHaveHits'
  <2>1. CountHasHits(counter)'
    BY <1>1, <1>2, LaterCountsTheSame DEF LimitInv, CountsHaveHits, CountHasHits
  <2>2. ASSUME NEW c \in Procs PROVE CountHasHits(state[c])'
    <3>1. CountHasHits(state[c]) /\ state[c] \in Tallies \cup {None} /\ state'[c] = Limit!Later(state[c])
      BY <1>1, <1>2 DEF LimitInv, CountsHaveHits
    <3> QED BY <1>1, <3>1, LaterCountsTheSame DEF CountHasHits
  <2> QED BY <2>1, <2>2 DEF CountsHaveHits
<1>6. RefusedSawHits'
  <2>1. \A c \in Procs : state'[c] # None => state[c] # None /\ state'[c].attempts = state[c].attempts
    BY <1>1, <1>2, LaterCountsTheSame
  <2> QED BY <1>1, <2>1 DEF LimitInv, RefusedSawHits
<1>7. PassesAreCounted'
  <2> SUFFICES ASSUME ~overlap', misses' = 0
               PROVE  PassesAreCounted'
    BY DEF PassesAreCounted
  <2>1. /\ \A c, d \in Procs : stage[c] # "idle" /\ stage[d] # "idle" => c = d
        /\ \A c \in Procs : state[c] # None => Passed(state[c].attempts - 1, state[c].reset_at)
        /\ (\A c \in Procs : state[c] = None) =>
             IF counter = None THEN passes[1] = HitDecay
             ELSE Passed(Limit!Least(counter.attempts, MaxHits), counter.reset_at)
    BY <1>1 DEF LimitInv, PassesAreCounted
  <2>2. ASSUME NEW c \in Procs, state'[c] # None
        PROVE  Passed(state[c].attempts - 1, state[c].reset_at)'
    <3>1. state'[c] = Limit!Later(state[c]) /\ state[c] \in Tallies \cup {None}
      BY <1>1, <1>2
    <3>2. state[c] # None /\ state'[c].attempts = state[c].attempts
      BY <1>1, <2>2, <3>1, LaterCountsTheSame
    <3>3. PICK n \in 0..MaxHits : n = state[c].attempts - 1
      BY <3>1, <3>2, CountIsTyped, LimitBounds
    <3>4. Passed(n, state[c].reset_at)
      BY <2>1, <3>2, <3>3
    <3>5. passes'[n + 1] >= HitDecay - state'[c].reset_at /\ passes'[n + MaxHits + 1] = HitDecay
      BY <1>1, <3>1, <3>2, <3>4, LaterCountsTheSame
    <3>6. state'[c].attempts - 1 = n
      BY <3>2, <3>3
    <3> QED BY <3>5, <3>6 DEF Passed
  <2>3. ASSUME \A c \in Procs : state'[c] = None
        PROVE  IF counter' = None THEN passes'[1] = HitDecay
               ELSE Passed(Limit!Least(counter.attempts, MaxHits), counter.reset_at)'
    <3>1. \A c \in Procs : state[c] = None
      BY <1>1, <1>2, <2>3, LaterCountsTheSame
    <3>2. counter' = None <=> counter = None
      BY <1>1, <1>2, LaterCountsTheSame
    <3>3. CASE counter = None
      <4>1. passes[1] = HitDecay /\ 1 \in 1..Most
        BY <2>1, <3>1, <3>3, LimitBounds
      <4>2. passes'[1] = HitDecay
        BY <1>1, <4>1, HistoriesAreSorted, OlderIsAHistory, LimitBounds
      <4> QED BY <3>2, <3>3, <4>2
    <3>4. CASE counter # None
      <4>1. PICK n \in 0..MaxHits : n = Limit!Least(counter.attempts, MaxHits)
        BY <1>2, <3>4, CountIsTyped, LimitBounds DEF Limit!Least
      <4>2. Passed(n, counter.reset_at) /\ counter'.attempts = counter.attempts
        BY <1>1, <1>2, <2>1, <3>1, <3>4, <4>1, LaterCountsTheSame
      <4>3. passes'[n + 1] >= HitDecay - counter'.reset_at /\ passes'[n + MaxHits + 1] = HitDecay
        BY <1>1, <1>2, <3>4, <4>2, LaterCountsTheSame
      <4> QED BY <3>2, <3>4, <4>1, <4>2, <4>3 DEF Passed, Limit!Least
    <3> QED BY <3>3, <3>4
  <2> QED BY <1>1, <2>1, <2>2, <2>3 DEF PassesAreCounted
<1> QED BY <1>4, <1>5, <1>6, <1>7 DEF LimitInv

LEMMA LimitStutters == ASSUME LimitInv, UNCHANGED limitVars PROVE LimitInv'
PROOF
<1>1. UNCHANGED <<counter, holder, stage, state, verdict, hits, before, passes, overlap, misses>>
  BY DEF limitVars
<1>2. LimitShape' /\ CountsHaveHits' /\ RefusedSawHits'
  BY <1>1 DEF LimitInv, LimitShape, Sorted, CountsHaveHits, CountHasHits, RefusedSawHits
<1>3. PassesAreCounted'
  BY <1>1 DEF LimitInv, PassesAreCounted, Passed, Limit!Least
<1> QED BY <1>2, <1>3 DEF LimitInv

LEMMA LimitInvIsEnough ==
  ASSUME LimitInv PROVE Limit!TypeOK /\ Limit!RefusedForCause /\ Limit!FewPass
PROOF
<1>1. Limit!TypeOK
  <2>1. Limit!Count = Tallies /\ Limit!Ages = Histories /\ Limit!Most = Most
    BY DEF Limit!Count, Limit!Ages, Limit!Over, Limit!Most, Tallies, Histories, Most
  <2>2. holder # None => stage[holder] = "write"
    BY DEF LimitInv, LimitShape
  <2> QED BY <2>1, <2>2 DEF LimitInv, LimitShape, Limit!TypeOK
<1>2. Limit!RefusedForCause
  BY DEF LimitInv, RefusedSawHits, Limit!RefusedForCause
<1>3. Limit!FewPass
  <2> SUFFICES ASSUME ~overlap, misses = 0 PROVE Limit!Recent(passes) <= 2 * MaxHits
    BY DEF Limit!FewPass
  <2>1. LimitShape /\ Sorted(passes) /\ passes \in Histories
    BY HistoriesAreSorted DEF LimitInv
  <2>2. passes[Most] = HitDecay
    <3>1. ASSUME NEW n \in 0..MaxHits, passes[n + MaxHits + 1] = HitDecay
          PROVE  passes[Most] = HitDecay
      <4>1. n + MaxHits + 1 \in 1..Most /\ n + MaxHits + 1 <= Most /\ Most \in 1..Most
        BY LimitBounds
      <4>2. passes[n + MaxHits + 1] <= passes[Most] /\ passes[Most] \in 0..HitDecay
        BY <2>1, <4>1 DEF Sorted, Histories
      <4> QED BY <3>1, <4>2, LimitBounds
    <3>2. CASE \E c \in Procs : state[c] # None
      <4>1. PICK c \in Procs : state[c] # None
        BY <3>2
      <4>2. PICK n \in 0..MaxHits : n = state[c].attempts - 1
        BY <2>1, <4>1, CountIsTyped, LimitBounds DEF LimitShape
      <4>3. passes[n + MaxHits + 1] = HitDecay
        BY <4>1, <4>2 DEF LimitInv, PassesAreCounted, Passed
      <4> QED BY <3>1, <4>3
    <3>3. CASE (\A c \in Procs : state[c] = None) /\ counter # None
      <4>1. PICK n \in 0..MaxHits : n = Limit!Least(counter.attempts, MaxHits)
        BY <2>1, <3>3, CountIsTyped, LimitBounds DEF Limit!Least, LimitShape
      <4>2. passes[n + MaxHits + 1] = HitDecay
        BY <3>3, <4>1 DEF LimitInv, PassesAreCounted, Passed
      <4> QED BY <3>1, <4>2
    <3>4. CASE (\A c \in Procs : state[c] = None) /\ counter = None
      <4>1. passes[1] = HitDecay /\ 1 \in 1..Most /\ Most \in 1..Most /\ 1 <= Most
        BY <3>4, LimitBounds DEF LimitInv, PassesAreCounted
      <4>2. passes[1] <= passes[Most] /\ passes[Most] \in 0..HitDecay
        BY <2>1, <4>1 DEF Sorted, Histories
      <4> QED BY <4>1, <4>2, LimitBounds
    <3> QED BY <3>2, <3>3, <3>4
  <2>3. Most \in 1..Most
    BY LimitBounds
  <2>4. Limit!Recent(passes) < Most /\ Limit!Recent(passes) \in 0..Most
    BY <2>1, <2>2, <2>3, RecentIsCounted
  <2> QED BY <2>4, LimitBounds
<1> QED BY <1>1, <1>2, <1>3

LEMMA LimitStepsKeep ==
  ASSUME LimitInv, Limit!Next \/ UNCHANGED limitVars PROVE LimitInv'
  BY HitKeepsLimit, TruncateKeepsLimit, WriteKeepsLimit, MissesKeepLimit, TickKeepsLimit,
     LimitStutters DEF Limit!Next, Limit!Step

-----------------------------------------------------------------------------
(* Counting failures.                                                        *)

Places == {"idle", "ip", "verify", "record", "user", "who", "address"}

LEMMA LockBounds ==
  /\ MaxAttempts \in Nat /\ MaxAttempts >= 1 /\ Decay \in Nat /\ Lockout \in Nat /\ Lockout >= 1
  /\ MaxFailures \in Nat /\ MaxFaults \in Nat /\ Lock!Window = Decay + Lockout
  /\ IsFiniteSet(Procs) /\ Cardinality(Procs) \in Nat /\ None \notin Logins
  /\ \A l \in Logins : l = [who |-> l.who, ip |-> l.ip]
  BY RequestsAssumption, FS_CardinalityType DEF Lock!Window

LEMMA LockCardinality == \A S : Lock!Cardinality(S) = Cardinality(S)
  BY DEF Cardinality, Lock!Cardinality

LEMMA PartsAreFewer ==
  ASSUME NEW S, IsFiniteSet(S), NEW T, T \subseteq S
  PROVE  IsFiniteSet(T) /\ Cardinality(T) \in Nat /\ Cardinality(S) \in Nat
         /\ Cardinality(T) <= Cardinality(S)
  BY FS_Subset, FS_CardinalityType

LEMMA OneMoreCounts ==
  ASSUME NEW S, IsFiniteSet(S), NEW x, NEW T, T \subseteq S \cup {x}
  PROVE  IsFiniteSet(T) /\ Cardinality(T) \in Nat /\ Cardinality(T) <= Cardinality(S) + 1
PROOF
<1>1. /\ IsFiniteSet(S \cup {x}) /\ Cardinality(S) \in Nat
      /\ Cardinality(S \cup {x}) = IF x \in S THEN Cardinality(S) ELSE Cardinality(S) + 1
  BY FS_AddElement, FS_CardinalityType
<1>2. IsFiniteSet(T) /\ Cardinality(T) \in Nat /\ Cardinality(T) <= Cardinality(S \cup {x})
  BY <1>1, PartsAreFewer
<1> QED BY <1>1, <1>2

LEMMA OneLessCounts ==
  ASSUME NEW S, IsFiniteSet(S), NEW x \in S, NEW T, T \subseteq S \ {x}
  PROVE  IsFiniteSet(T) /\ Cardinality(T) \in Nat /\ Cardinality(S) \in Nat
         /\ Cardinality(T) <= Cardinality(S) - 1
PROOF
<1>1. /\ IsFiniteSet(S \ {x}) /\ Cardinality(S) \in Nat
      /\ Cardinality(S \ {x}) = Cardinality(S) - 1
  BY FS_RemoveElement, FS_CardinalityType
<1>2. IsFiniteSet(T) /\ Cardinality(T) \in Nat /\ Cardinality(T) <= Cardinality(S \ {x})
  BY <1>1, PartsAreFewer
<1> QED BY <1>1, <1>2

\* Of failures there is one that is no older than any other.
LEMMA OneIsNewest ==
  ASSUME NEW S, S # {}, \A f \in S : f.age \in Nat
  PROVE  \E f \in S : \A g \in S : f.age <= g.age
PROOF
<1> DEFINE A == {f.age : f \in S}
<1>1. A \subseteq Nat /\ A # {}
  OBVIOUS
<1>2. PICK a \in A : \A b \in A : ~(<<b, a>> \in OpToRel(<, Nat))
  BY <1>1, WFMin, NatLessThanWellFounded
<1>3. \A b \in A : ~(b < a)
  BY <1>2, Zenon DEF OpToRel
<1>4. PICK f \in S : f.age = a
  OBVIOUS
<1>5. ASSUME NEW g \in S PROVE f.age <= g.age
  <2>1. g.age \in A /\ g.age \in Nat /\ f.age \in Nat
    OBVIOUS
  <2>2. ~(g.age < f.age)
    BY <1>3, <1>4, <2>1
  <2> QED BY <2>1, <2>2
<1> QED BY <1>5

\* Rows that do not lock are few, provided a lock outlasts the seconds they are counted in.
LEMMA UnlockedIsFew ==
  ASSUME NEW b, IsFiniteSet(b), \A f \in b : f.age \in Nat, ~Lock!Locks(b), Decay < Lockout
  PROVE  Cardinality(Rows(b)) < MaxAttempts
PROOF
<1>1. IsFiniteSet(Rows(b)) /\ Cardinality(Rows(b)) \in Nat
  BY PartsAreFewer DEF Rows
<1>2. CASE Rows(b) = {}
  BY <1>2, LockBounds, FS_EmptySet
<1>3. CASE Rows(b) # {}
  <2>1. PICK f \in Rows(b) : \A g \in Rows(b) : f.age <= g.age
    BY <1>3, OneIsNewest DEF Rows
  <2> DEFINE W == {g \in b : g.age \in f.age..(f.age + Decay)}
  <2>2. f \in b /\ f.age \in Nat /\ f.age < Lockout
    BY LockBounds DEF Rows
  <2>3. Rows(b) \subseteq W
    BY <2>1, <2>2, LockBounds DEF Rows
  <2>4. IsFiniteSet(W) /\ Cardinality(W) \in Nat /\ Cardinality(Rows(b)) <= Cardinality(W)
    BY <2>3, PartsAreFewer
  <2>5. ~(Cardinality(W) >= MaxAttempts)
    BY <2>2, LockCardinality DEF Lock!Locks
  <2> QED BY <1>1, <2>4, <2>5, LockBounds
<1> QED BY <1>2, <1>3

\* Rows that grow older do not become more.
LEMMA AgedAreFewer ==
  ASSUME NEW S, IsFiniteSet(S), NEW T, \A f \in T : \E g \in S : f = Lock!Aged(g)
  PROVE  IsFiniteSet(T) /\ Cardinality(T) \in Nat /\ Cardinality(S) \in Nat
         /\ Cardinality(T) <= Cardinality(S)
PROOF
<1> DEFINE U == {g \in S : Lock!Aged(g) \in T}
           h == [g \in U |-> Lock!Aged(g)]
<1>1. IsFiniteSet(U) /\ Cardinality(U) <= Cardinality(S) /\ Cardinality(U) \in Nat /\ Cardinality(S) \in Nat
  BY PartsAreFewer
<1>2. h \in Surjection(U, T)
  BY DEF Surjection
<1>3. IsFiniteSet(T) /\ Cardinality(T) <= Cardinality(U)
  BY <1>1, <1>2, FS_Surjection
<1>4. Cardinality(T) \in Nat
  BY <1>3, FS_CardinalityType
<1> QED BY <1>1, <1>3, <1>4

-----------------------------------------------------------------------------
(* The shape of the login policy's state.                                    *)

Failures ==
  {f \in [who : {l.who : l \in Logins}, ip : {l.ip : l \in Logins},
          age : 0..(Decay + Lockout - 1), nth : 1..MaxFailures] :
     [who |-> f.who, ip |-> f.ip] \in Logins}

AtWork == {r \in Procs : place[r] # "idle"}

LockShape ==
  /\ failures \subseteq Failures /\ IsFiniteSet(failures)
  /\ Cardinality(failures) + Cardinality(AtWork) <= MaxFailures
  /\ place \in [Procs -> Places] /\ login \in [Procs -> Logins \cup {None}]
  /\ locked \in [Procs -> BOOLEAN]
  /\ \A r \in Procs : login[r] = None <=> place[r] = "idle"
  /\ since \in [Procs -> 0..(Decay + Lockout)] /\ errors \in 0..MaxFaults

LockInv == LockShape /\ FewAreOnTheWay /\ BeganToForget

LEMMA FailuresAreTyped ==
  ASSUME NEW f \in Failures
  PROVE  /\ f.age \in 0..(Decay + Lockout - 1) /\ f.age \in Nat /\ f.nth \in 1..MaxFailures
         /\ f.who \in {l.who : l \in Logins} /\ f.ip \in {l.ip : l \in Logins}
         /\ f = [who |-> f.who, ip |-> f.ip, age |-> f.age, nth |-> f.nth]
         /\ [who |-> f.who, ip |-> f.ip] \in Logins
PROOF
<1>1. f \in [who : {l.who : l \in Logins}, ip : {l.ip : l \in Logins},
             age : 0..(Decay + Lockout - 1), nth : 1..MaxFailures]
      /\ [who |-> f.who, ip |-> f.ip] \in Logins
  BY DEF Failures
<1>2. f.age \in 0..(Decay + Lockout - 1)
  BY <1>1
<1>3. \A n \in 0..(Decay + Lockout - 1) : n \in Nat
  BY LockBounds
<1> QED BY <1>1, <1>2, <1>3

LEMMA RowsAreCounted ==
  ASSUME LockShape
  PROVE  /\ Cardinality(failures) \in Nat /\ IsFiniteSet(AtWork) /\ Cardinality(AtWork) \in Nat
         /\ \A f \in failures : f.age \in Nat
         /\ \A who : IsFiniteSet(OnTheWay(who)) /\ Cardinality(OnTheWay(who)) \in 0..Cardinality(Procs)
         /\ \A ip : IsFiniteSet(OnTheWayFrom(ip)) /\ Cardinality(OnTheWayFrom(ip)) \in 0..Cardinality(Procs)
         /\ \A l : /\ IsFiniteSet(Lock!OfWho(l)) /\ IsFiniteSet(Rows(Lock!OfWho(l)))
                   /\ Cardinality(Rows(Lock!OfWho(l))) \in Nat
                   /\ IsFiniteSet(Lock!OfAddress(l)) /\ IsFiniteSet(Rows(Lock!OfAddress(l)))
                   /\ Cardinality(Rows(Lock!OfAddress(l))) \in Nat
PROOF
<1>1. IsFiniteSet(failures) /\ Cardinality(failures) \in Nat
  BY FS_CardinalityType DEF LockShape
<1>2. IsFiniteSet(AtWork) /\ Cardinality(AtWork) \in Nat
  BY LockBounds, PartsAreFewer DEF AtWork
<1>3. \A f \in failures : f.age \in Nat
  BY FailuresAreTyped DEF LockShape
<1>4. ASSUME NEW who
      PROVE  IsFiniteSet(OnTheWay(who)) /\ Cardinality(OnTheWay(who)) \in 0..Cardinality(Procs)
  <2>1. OnTheWay(who) \subseteq Procs
    BY DEF OnTheWay
  <2> QED BY <2>1, LockBounds, PartsAreFewer
<1>5. ASSUME NEW ip
      PROVE  IsFiniteSet(OnTheWayFrom(ip)) /\ Cardinality(OnTheWayFrom(ip)) \in 0..Cardinality(Procs)
  <2>1. OnTheWayFrom(ip) \subseteq Procs
    BY DEF OnTheWayFrom
  <2> QED BY <2>1, LockBounds, PartsAreFewer
<1>6. ASSUME NEW l
      PROVE  /\ IsFiniteSet(Lock!OfWho(l)) /\ IsFiniteSet(Rows(Lock!OfWho(l)))
             /\ Cardinality(Rows(Lock!OfWho(l))) \in Nat
             /\ IsFiniteSet(Lock!OfAddress(l)) /\ IsFiniteSet(Rows(Lock!OfAddress(l)))
             /\ Cardinality(Rows(Lock!OfAddress(l))) \in Nat
  <2>1. /\ Lock!OfWho(l) \subseteq failures /\ Rows(Lock!OfWho(l)) \subseteq failures
        /\ Lock!OfAddress(l) \subseteq failures /\ Rows(Lock!OfAddress(l)) \subseteq failures
    BY DEF Lock!OfWho, Lock!OfAddress, Rows
  <2> QED BY <1>1, <2>1, PartsAreFewer
<1> QED BY <1>1, <1>2, <1>3, <1>4, <1>5, <1>6

LEMMA LockStarts == ASSUME Lock!Init PROVE LockInv
PROOF
<1>1. /\ failures = {} /\ place = [r \in Procs |-> "idle"] /\ login = [r \in Procs |-> None]
      /\ locked = [r \in Procs |-> FALSE] /\ since = [r \in Procs |-> 0] /\ errors = 0
  BY DEF Lock!Init
<1>2. IsFiniteSet({}) /\ Cardinality({}) = 0
  BY FS_EmptySet
<1>3. AtWork = {} /\ (\A who : OnTheWay(who) = {}) /\ (\A ip : OnTheWayFrom(ip) = {})
  BY <1>1 DEF AtWork, OnTheWay, OnTheWayFrom, Guesses
<1>4. LockShape
  <2>1. Cardinality(failures) + Cardinality(AtWork) <= MaxFailures
    BY <1>1, <1>2, <1>3, LockBounds
  <2>2. since \in [Procs -> 0..(Decay + Lockout)] /\ errors \in 0..MaxFaults
    BY <1>1, LockBounds
  <2> QED BY <1>1, <1>2, <2>1, <2>2 DEF LockShape, Places
<1>5. FewAreOnTheWay
  <2>1. \A l : Rows(Lock!OfWho(l)) = {} /\ Rows(Lock!OfAddress(l)) = {}
    BY <1>1 DEF Rows, Lock!OfWho, Lock!OfAddress
  <2>2. 0 + 0 < MaxAttempts + Cardinality(Procs)
    BY LockBounds
  <2> QED BY <1>2, <1>3, <2>1, <2>2 DEF FewAreOnTheWay
<1>6. BeganToForget
  BY <1>1 DEF BeganToForget
<1> QED BY <1>4, <1>5, <1>6 DEF LockInv

\* A request that goes on, or ends, keeps the shape as long as no failure is added.
LEMMA MoveKeepsShape ==
  ASSUME LockShape, NEW r \in Procs, place[r] # "idle",
         (\E l \in Places \ {"idle"} : Lock!GoTo(r, l)) \/ Lock!End(r),
         failures' \subseteq failures, locked' \in [Procs -> BOOLEAN],
         since' \in [Procs -> 0..(Decay + Lockout)], errors' \in 0..MaxFaults
  PROVE  LockShape'
PROOF
<1>1. /\ place' \in [Procs -> Places] /\ login' \in [Procs -> Logins \cup {None}]
      /\ \A q \in Procs : login'[q] = None <=> place'[q] = "idle"
  <2>1. CASE \E l \in Places \ {"idle"} : Lock!GoTo(r, l)
    BY <2>1 DEF LockShape, Lock!GoTo
  <2>2. CASE Lock!End(r)
    BY <2>2 DEF LockShape, Lock!End, Places
  <2> QED BY <2>1, <2>2
<1>2. AtWork' \subseteq AtWork
  BY DEF LockShape, AtWork, Lock!GoTo, Lock!End
<1>3. /\ IsFiniteSet(failures') /\ Cardinality(failures') \in Nat
      /\ Cardinality(failures') <= Cardinality(failures)
  BY PartsAreFewer DEF LockShape
<1>4. Cardinality(AtWork') \in Nat /\ Cardinality(AtWork') <= Cardinality(AtWork)
  BY <1>2, RowsAreCounted, PartsAreFewer
<1>5. Cardinality(failures') + Cardinality(AtWork') <= MaxFailures
  BY <1>3, <1>4, RowsAreCounted, LockBounds DEF LockShape
<1>6. failures' \subseteq Failures
  BY DEF LockShape
<1> QED BY <1>1, <1>3, <1>5, <1>6 DEF LockShape

\* No failure is added and nobody sets out: the sums do not grow.
LEMMA FewStayFew ==
  ASSUME LockInv, LockShape', errors' = 0 => errors = 0, failures' \subseteq failures,
         \A who : OnTheWay(who)' \subseteq OnTheWay(who),
         \A ip : OnTheWayFrom(ip)' \subseteq OnTheWayFrom(ip)
  PROVE  FewAreOnTheWay'
PROOF
<1> SUFFICES ASSUME errors' = 0, Decay < Lockout, NEW l \in Logins
             PROVE  /\ Cardinality(Rows(Lock!OfWho(l)))' + Cardinality(OnTheWay(l.who))'
                         < MaxAttempts + Cardinality(Procs)
                    /\ Cardinality(Rows(Lock!OfAddress(l)))' + Cardinality(OnTheWayFrom(l.ip))'
                         < MaxAttempts + Cardinality(Procs)
  BY DEF FewAreOnTheWay
<1>1. LockShape
  BY DEF LockInv
<1>2. /\ Rows(Lock!OfWho(l))' \subseteq Rows(Lock!OfWho(l))
      /\ Rows(Lock!OfAddress(l))' \subseteq Rows(Lock!OfAddress(l))
  BY DEF Rows, Lock!OfWho, Lock!OfAddress
<1>3. /\ Cardinality(Rows(Lock!OfWho(l))) + Cardinality(OnTheWay(l.who)) < MaxAttempts + Cardinality(Procs)
      /\ Cardinality(Rows(Lock!OfAddress(l))) + Cardinality(OnTheWayFrom(l.ip)) < MaxAttempts + Cardinality(Procs)
  BY DEF LockInv, FewAreOnTheWay
<1>4. /\ Cardinality(Rows(Lock!OfWho(l))') \in Nat
      /\ Cardinality(Rows(Lock!OfWho(l))') <= Cardinality(Rows(Lock!OfWho(l)))
      /\ Cardinality(Rows(Lock!OfAddress(l))') \in Nat
      /\ Cardinality(Rows(Lock!OfAddress(l))') <= Cardinality(Rows(Lock!OfAddress(l)))
  BY <1>1, <1>2, RowsAreCounted, PartsAreFewer
<1>5. /\ Cardinality(OnTheWay(l.who)') \in Nat
      /\ Cardinality(OnTheWay(l.who)') <= Cardinality(OnTheWay(l.who))
      /\ Cardinality(OnTheWayFrom(l.ip)') \in Nat
      /\ Cardinality(OnTheWayFrom(l.ip)') <= Cardinality(OnTheWayFrom(l.ip))
  BY <1>1, RowsAreCounted, PartsAreFewer
<1>6. /\ Cardinality(Rows(Lock!OfWho(l))) \in Nat /\ Cardinality(Rows(Lock!OfAddress(l))) \in Nat
      /\ Cardinality(OnTheWay(l.who)) \in Nat /\ Cardinality(OnTheWayFrom(l.ip)) \in Nat
      /\ MaxAttempts + Cardinality(Procs) \in Nat
  BY <1>1, RowsAreCounted, LockBounds
<1> QED BY <1>3, <1>4, <1>5, <1>6

\* No failure is added and nobody begins to delete.
LEMMA ForgottenStayForgotten ==
  ASSUME LockInv, failures' \subseteq failures,
         \A r \in Procs : place'[r] \in {"who", "address"} =>
           place[r] \in {"who", "address"} /\ login'[r] = login[r] /\ since'[r] = since[r]
  PROVE  BeganToForget'
  BY DEF LockInv, BeganToForget

-----------------------------------------------------------------------------
(* The login policy keeps its invariant.                                     *)

\* A login sets out: if its identifier does not lock, few failures of it are there.
LEMMA CheckWhoKeepsLock ==
  ASSUME LockInv, NEW r \in Procs, NEW k \in Logins, Lock!CheckWho(r, k) PROVE LockInv'
PROOF
<1>1. /\ place[r] = "idle" /\ place' = [place EXCEPT ![r] = "ip"] /\ login' = [login EXCEPT ![r] = k]
      /\ locked' = [locked EXCEPT ![r] = Lock!Locks(Lock!OfWho(k))]
      /\ Cardinality(failures) + Cardinality(AtWork) < MaxFailures
      /\ UNCHANGED <<failures, since, errors>>
  BY LockCardinality DEF Lock!CheckWho, Lock!Busy, AtWork
<1>2. LockShape
  BY DEF LockInv
<1>3. Lock!Locks(Lock!OfWho(k)) \in BOOLEAN
  BY DEF Lock!Locks
<1>4. LockShape'
  <2>1. AtWork' \subseteq AtWork \cup {r}
    BY <1>1, <1>2 DEF AtWork, LockShape
  <2>2. Cardinality(AtWork') \in Nat /\ Cardinality(AtWork') <= Cardinality(AtWork) + 1
    BY <1>2, <2>1, RowsAreCounted, OneMoreCounts
  <2>3. Cardinality(failures') + Cardinality(AtWork') <= MaxFailures
    BY <1>1, <1>2, <2>2, RowsAreCounted, LockBounds
  <2>4. /\ place' \in [Procs -> Places] /\ login' \in [Procs -> Logins \cup {None}]
        /\ locked' \in [Procs -> BOOLEAN]
    BY <1>1, <1>2, <1>3 DEF LockShape, Places
  <2>5. \A q \in Procs : login'[q] = None <=> place'[q] = "idle"
    BY <1>1, <1>2, LockBounds DEF LockShape
  <2> QED BY <1>1, <1>2, <2>3, <2>4, <2>5 DEF LockShape
<1>5. FewAreOnTheWay'
  <2> SUFFICES ASSUME errors = 0, Decay < Lockout, NEW l \in Logins
               PROVE  /\ Cardinality(Rows(Lock!OfWho(l)))' + Cardinality(OnTheWay(l.who))'
                           < MaxAttempts + Cardinality(Procs)
                      /\ Cardinality(Rows(Lock!OfAddress(l)))' + Cardinality(OnTheWayFrom(l.ip))'
                           < MaxAttempts + Cardinality(Procs)
    BY <1>1 DEF FewAreOnTheWay
  <2>1. /\ Cardinality(Rows(Lock!OfWho(l))) + Cardinality(OnTheWay(l.who)) < MaxAttempts + Cardinality(Procs)
        /\ Cardinality(Rows(Lock!OfAddress(l))) + Cardinality(OnTheWayFrom(l.ip)) < MaxAttempts + Cardinality(Procs)
    BY DEF LockInv, FewAreOnTheWay
  <2>2. /\ Rows(Lock!OfWho(l))' = Rows(Lock!OfWho(l)) /\ Rows(Lock!OfAddress(l))' = Rows(Lock!OfAddress(l))
    BY <1>1 DEF Rows, Lock!OfWho, Lock!OfAddress
  <2>3. /\ Cardinality(Rows(Lock!OfWho(l))) \in Nat /\ Cardinality(Rows(Lock!OfAddress(l))) \in Nat
        /\ Cardinality(OnTheWay(l.who)) \in Nat /\ Cardinality(OnTheWayFrom(l.ip)) \in Nat
        /\ Cardinality(OnTheWay(l.who)') \in 0..Cardinality(Procs)
        /\ Cardinality(Procs) \in Nat /\ MaxAttempts \in Nat
    <3>1. Cardinality(OnTheWay(l.who)') \in 0..Cardinality(Procs)
      <4>1. OnTheWay(l.who)' \subseteq Procs
        BY DEF OnTheWay
      <4> QED BY <4>1, LockBounds, PartsAreFewer
    <3> QED BY <1>2, <3>1, RowsAreCounted, LockBounds
  <2>4. Cardinality(OnTheWayFrom(l.ip)') \in Nat
        /\ Cardinality(OnTheWayFrom(l.ip)') <= Cardinality(OnTheWayFrom(l.ip))
    <3>1. OnTheWayFrom(l.ip)' \subseteq OnTheWayFrom(l.ip)
      BY <1>1, <1>2 DEF OnTheWayFrom, Guesses, LockShape
    <3> QED BY <1>2, <3>1, RowsAreCounted, PartsAreFewer
  <2>5. CASE l.who = k.who /\ ~Lock!Locks(Lock!OfWho(k))
    <3>1. Lock!OfWho(l) = Lock!OfWho(k)
      BY <2>5 DEF Lock!OfWho
    <3>2. \A f \in Lock!OfWho(l) : f.age \in Nat
      BY <1>2, RowsAreCounted DEF Lock!OfWho
    <3>3. Cardinality(Rows(Lock!OfWho(l))) < MaxAttempts
      BY <1>2, <2>5, <3>1, <3>2, RowsAreCounted, UnlockedIsFew
    <3> QED BY <2>1, <2>2, <2>3, <2>4, <3>3
  <2>6. CASE l.who # k.who \/ Lock!Locks(Lock!OfWho(k))
    <3>1. OnTheWay(l.who)' \subseteq OnTheWay(l.who)
      BY <1>1, <1>2, <2>6 DEF OnTheWay, Guesses, LockShape
    <3>2. Cardinality(OnTheWay(l.who)') <= Cardinality(OnTheWay(l.who))
      BY <1>2, <3>1, RowsAreCounted, PartsAreFewer
    <3> QED BY <2>1, <2>2, <2>3, <2>4, <3>2
  <2> QED BY <2>5, <2>6
<1>6. BeganToForget'
  <2>1. \A q \in Procs : place'[q] \in {"who", "address"} =>
           place[q] \in {"who", "address"} /\ login'[q] = login[q] /\ since'[q] = since[q]
    BY <1>1, <1>2 DEF LockShape
  <2> QED BY <1>1, <2>1, ForgottenStayForgotten
<1> QED BY <1>4, <1>5, <1>6 DEF LockInv

\* It goes on to the password if its address does not lock either.
LEMMA CheckAddressKeepsLock ==
  ASSUME LockInv, NEW r \in Procs, Lock!CheckAddress(r) PROVE LockInv'
PROOF
<1>1. /\ place[r] = "ip" /\ locked' = [locked EXCEPT ![r] = FALSE]
      /\ UNCHANGED <<failures, since, errors>>
      /\ IF locked[r] \/ Lock!Locks(Lock!OfAddress(login[r])) THEN Lock!End(r) ELSE Lock!GoTo(r, "verify")
  BY DEF Lock!CheckAddress
<1>2. LockShape /\ login[r] \in Logins
  BY <1>1 DEF LockInv, LockShape
<1>3. LockShape'
  <2>1. locked' \in [Procs -> BOOLEAN] /\ since' \in [Procs -> 0..(Decay + Lockout)]
        /\ errors' \in 0..MaxFaults /\ failures' \subseteq failures
    BY <1>1, <1>2 DEF LockShape
  <2>2. (\E l \in Places \ {"idle"} : Lock!GoTo(r, l)) \/ Lock!End(r)
    BY <1>1 DEF Places
  <2>3. place[r] # "idle"
    BY <1>1
  <2> QED BY <1>2, <2>1, <2>2, <2>3, MoveKeepsShape
<1>4. BeganToForget'
  <2>1. \A q \in Procs : place'[q] \in {"who", "address"} =>
           place[q] \in {"who", "address"} /\ login'[q] = login[q] /\ since'[q] = since[q]
    BY <1>1, <1>2 DEF LockShape, Lock!End, Lock!GoTo
  <2> QED BY <1>1, <2>1, ForgottenStayForgotten
<1>5. \A who : OnTheWay(who)' \subseteq OnTheWay(who)
  BY <1>1, <1>2 DEF OnTheWay, Guesses, LockShape, Lock!End, Lock!GoTo
<1>6. CASE locked[r] \/ Lock!Locks(Lock!OfAddress(login[r]))
  <2>1. \A ip : OnTheWayFrom(ip)' \subseteq OnTheWayFrom(ip)
    BY <1>1, <1>2, <1>6 DEF OnTheWayFrom, Guesses, LockShape, Lock!End
  <2>2. FewAreOnTheWay'
    BY <1>1, <1>3, <1>5, <2>1, FewStayFew
  <2> QED BY <1>3, <1>4, <2>2 DEF LockInv
<1>7. CASE ~locked[r] /\ ~Lock!Locks(Lock!OfAddress(login[r]))
  <2>1. place' = [place EXCEPT ![r] = "verify"] /\ login' = login
    BY <1>1, <1>7 DEF Lock!GoTo
  <2>2. FewAreOnTheWay'
    <3> SUFFICES ASSUME errors = 0, Decay < Lockout, NEW l \in Logins
                 PROVE  /\ Cardinality(Rows(Lock!OfWho(l)))' + Cardinality(OnTheWay(l.who))'
                             < MaxAttempts + Cardinality(Procs)
                        /\ Cardinality(Rows(Lock!OfAddress(l)))' + Cardinality(OnTheWayFrom(l.ip))'
                             < MaxAttempts + Cardinality(Procs)
      BY <1>1 DEF FewAreOnTheWay
    <3>1. /\ Cardinality(Rows(Lock!OfWho(l))) + Cardinality(OnTheWay(l.who)) < MaxAttempts + Cardinality(Procs)
          /\ Cardinality(Rows(Lock!OfAddress(l))) + Cardinality(OnTheWayFrom(l.ip)) < MaxAttempts + Cardinality(Procs)
      BY DEF LockInv, FewAreOnTheWay
    <3>2. /\ Rows(Lock!OfWho(l))' = Rows(Lock!OfWho(l)) /\ Rows(Lock!OfAddress(l))' = Rows(Lock!OfAddress(l))
      BY <1>1 DEF Rows, Lock!OfWho, Lock!OfAddress
    <3>3. /\ Cardinality(Rows(Lock!OfWho(l))) \in Nat /\ Cardinality(Rows(Lock!OfAddress(l))) \in Nat
          /\ Cardinality(OnTheWay(l.who)) \in Nat /\ Cardinality(OnTheWayFrom(l.ip)) \in Nat
          /\ Cardinality(Procs) \in Nat /\ MaxAttempts \in Nat
      BY <1>2, RowsAreCounted, LockBounds
    <3>4. Cardinality(OnTheWay(l.who)') \in Nat
          /\ Cardinality(OnTheWay(l.who)') <= Cardinality(OnTheWay(l.who))
      BY <1>2, <1>5, RowsAreCounted, PartsAreFewer
    <3>5. CASE l.ip = login[r].ip
      <4>1. Lock!OfAddress(l) = Lock!OfAddress(login[r])
        BY <3>5 DEF Lock!OfAddress
      <4>2. \A f \in Lock!OfAddress(l) : f.age \in Nat
        BY <1>2, RowsAreCounted DEF Lock!OfAddress
      <4>3. Cardinality(Rows(Lock!OfAddress(l))) < MaxAttempts
        BY <1>2, <1>7, <4>1, <4>2, RowsAreCounted, UnlockedIsFew
      <4>4. Cardinality(OnTheWayFrom(l.ip)') \in Nat
            /\ Cardinality(OnTheWayFrom(l.ip)') <= Cardinality(Procs)
        <5>1. OnTheWayFrom(l.ip)' \subseteq Procs
          BY DEF OnTheWayFrom
        <5> QED BY <5>1, LockBounds, PartsAreFewer
      <4> QED BY <3>1, <3>2, <3>3, <3>4, <4>3, <4>4
    <3>6. CASE l.ip # login[r].ip
      <4>1. OnTheWayFrom(l.ip)' \subseteq OnTheWayFrom(l.ip)
        BY <1>2, <2>1, <3>6 DEF OnTheWayFrom, Guesses, LockShape
      <4>2. Cardinality(OnTheWayFrom(l.ip)') \in Nat
            /\ Cardinality(OnTheWayFrom(l.ip)') <= Cardinality(OnTheWayFrom(l.ip))
        BY <1>2, <4>1, RowsAreCounted, PartsAreFewer
      <4> QED BY <3>1, <3>2, <3>3, <3>4, <4>2
    <3> QED BY <3>5, <3>6
  <2> QED BY <1>3, <1>4, <2>2 DEF LockInv
<1> QED BY <1>6, <1>7

\* A failure takes the place of the request that was on its way.
LEMMA RecordKeepsLock == ASSUME LockInv, NEW r \in Procs, Lock!Record(r) PROVE LockInv'
PROOF
<1>1. /\ place[r] = "record" /\ failures' = failures \cup {Lock!Row(r)}
      /\ place' = [place EXCEPT ![r] = "idle"] /\ login' = [login EXCEPT ![r] = None]
      /\ UNCHANGED <<locked, since, errors>>
  BY DEF Lock!Record, Lock!End
<1>2. LockShape /\ login[r] \in Logins /\ r \in AtWork
  BY <1>1 DEF LockInv, LockShape, AtWork
<1> DEFINE alike == {f \in failures : f.who = login[r].who /\ f.ip = login[r].ip /\ f.age = 0}
           row == Lock!Row(r)
<1>3. row = [who |-> login[r].who, ip |-> login[r].ip, age |-> 0, nth |-> Cardinality(alike) + 1]
  BY LockCardinality DEF Lock!Row
<1>4. row \in Failures /\ row.who = login[r].who /\ row.ip = login[r].ip /\ row.age = 0
  <2>1. Cardinality(alike) \in Nat /\ Cardinality(alike) <= Cardinality(failures)
    BY <1>2, PartsAreFewer DEF LockShape
  <2>2. Cardinality(AtWork) >= 1
    BY <1>2, RowsAreCounted, FS_EmptySet
  <2>3. Cardinality(failures) <= MaxFailures - 1
    BY <1>2, <2>2, RowsAreCounted, LockBounds DEF LockShape
  <2>4. Cardinality(alike) + 1 \in 1..MaxFailures /\ 0 \in 0..(Decay + Lockout - 1)
    BY <1>2, <2>1, <2>3, RowsAreCounted, LockBounds
  <2>5. login[r] = [who |-> login[r].who, ip |-> login[r].ip]
    BY <1>2, LockBounds
  <2> HIDE DEF alike, row
  <2>6. row \in [who : {l.who : l \in Logins}, ip : {l.ip : l \in Logins},
                 age : 0..(Decay + Lockout - 1), nth : 1..MaxFailures]
    BY <1>2, <1>3, <2>4
  <2>7. row.who = login[r].who /\ row.ip = login[r].ip /\ row.age = 0
    BY <1>3
  <2>8. [who |-> row.who, ip |-> row.ip] \in Logins
    BY <1>2, <2>5, <2>7
  <2> QED BY <2>6, <2>7, <2>8 DEF Failures
<1>5. failures' = failures \cup {row}
  BY <1>1
<1> HIDE DEF alike, row
<1>6. LockShape'
  <2>1. IsFiniteSet(failures') /\ Cardinality(failures') \in Nat
        /\ Cardinality(failures') <= Cardinality(failures) + 1
    BY <1>2, <1>5, OneMoreCounts DEF LockShape
  <2>2. AtWork' \subseteq AtWork \ {r}
    BY <1>1, <1>2 DEF AtWork, LockShape
  <2>3. Cardinality(AtWork') \in Nat /\ Cardinality(AtWork') <= Cardinality(AtWork) - 1
    BY <1>2, <2>2, RowsAreCounted, OneLessCounts
  <2>4. Cardinality(failures') + Cardinality(AtWork') <= MaxFailures
    BY <1>2, <2>1, <2>3, RowsAreCounted, LockBounds DEF LockShape
  <2>5. /\ place' \in [Procs -> Places] /\ login' \in [Procs -> Logins \cup {None}]
        /\ \A q \in Procs : login'[q] = None <=> place'[q] = "idle"
    BY <1>1, <1>2 DEF LockShape, Places
  <2>6. failures' \subseteq Failures
    BY <1>2, <1>4, <1>5 DEF LockShape
  <2> QED BY <1>1, <1>2, <2>1, <2>4, <2>5, <2>6 DEF LockShape
<1>7. FewAreOnTheWay'
  <2> SUFFICES ASSUME errors = 0, Decay < Lockout, NEW l \in Logins
               PROVE  /\ Cardinality(Rows(Lock!OfWho(l)))' + Cardinality(OnTheWay(l.who))'
                           < MaxAttempts + Cardinality(Procs)
                      /\ Cardinality(Rows(Lock!OfAddress(l)))' + Cardinality(OnTheWayFrom(l.ip))'
                           < MaxAttempts + Cardinality(Procs)
    BY <1>1 DEF FewAreOnTheWay
  <2>1. /\ Cardinality(Rows(Lock!OfWho(l))) + Cardinality(OnTheWay(l.who)) < MaxAttempts + Cardinality(Procs)
        /\ Cardinality(Rows(Lock!OfAddress(l))) + Cardinality(OnTheWayFrom(l.ip)) < MaxAttempts + Cardinality(Procs)
    BY DEF LockInv, FewAreOnTheWay
  <2>2. /\ IsFiniteSet(Rows(Lock!OfWho(l))) /\ Cardinality(Rows(Lock!OfWho(l))) \in Nat
        /\ IsFiniteSet(Rows(Lock!OfAddress(l))) /\ Cardinality(Rows(Lock!OfAddress(l))) \in Nat
        /\ IsFiniteSet(OnTheWay(l.who)) /\ Cardinality(OnTheWay(l.who)) \in Nat
        /\ IsFiniteSet(OnTheWayFrom(l.ip)) /\ Cardinality(OnTheWayFrom(l.ip)) \in Nat
        /\ MaxAttempts + Cardinality(Procs) \in Nat
    BY <1>2, RowsAreCounted, LockBounds
  <2>3. Cardinality(Rows(Lock!OfWho(l)))' + Cardinality(OnTheWay(l.who))' < MaxAttempts + Cardinality(Procs)
    <3>1. CASE l.who = login[r].who
      <4>1. Rows(Lock!OfWho(l))' \subseteq Rows(Lock!OfWho(l)) \cup {row}
        BY <1>5 DEF Rows, Lock!OfWho
      <4>2. r \in OnTheWay(l.who) /\ OnTheWay(l.who)' \subseteq OnTheWay(l.who) \ {r}
        BY <1>1, <1>2, <3>1 DEF OnTheWay, Guesses, LockShape
      <4>3. Cardinality(Rows(Lock!OfWho(l))') \in Nat
            /\ Cardinality(Rows(Lock!OfWho(l))') <= Cardinality(Rows(Lock!OfWho(l))) + 1
        BY <2>2, <4>1, OneMoreCounts
      <4>4. Cardinality(OnTheWay(l.who)') \in Nat
            /\ Cardinality(OnTheWay(l.who)') <= Cardinality(OnTheWay(l.who)) - 1
        BY <2>2, <4>2, OneLessCounts
      <4> QED BY <2>1, <2>2, <4>3, <4>4
    <3>2. CASE l.who # login[r].who
      <4>1. Rows(Lock!OfWho(l))' \subseteq Rows(Lock!OfWho(l))
        BY <1>4, <1>5, <3>2 DEF Rows, Lock!OfWho
      <4>2. OnTheWay(l.who)' \subseteq OnTheWay(l.who)
        BY <1>1, <1>2 DEF OnTheWay, Guesses, LockShape
      <4>3. Cardinality(Rows(Lock!OfWho(l))') \in Nat
            /\ Cardinality(Rows(Lock!OfWho(l))') <= Cardinality(Rows(Lock!OfWho(l)))
        BY <2>2, <4>1, PartsAreFewer
      <4>4. Cardinality(OnTheWay(l.who)') \in Nat
            /\ Cardinality(OnTheWay(l.who)') <= Cardinality(OnTheWay(l.who))
        BY <2>2, <4>2, PartsAreFewer
      <4> QED BY <2>1, <2>2, <4>3, <4>4
    <3> QED BY <3>1, <3>2
  <2>4. Cardinality(Rows(Lock!OfAddress(l)))' + Cardinality(OnTheWayFrom(l.ip))' < MaxAttempts + Cardinality(Procs)
    <3>1. CASE l.ip = login[r].ip
      <4>1. Rows(Lock!OfAddress(l))' \subseteq Rows(Lock!OfAddress(l)) \cup {row}
        BY <1>5 DEF Rows, Lock!OfAddress
      <4>2. r \in OnTheWayFrom(l.ip) /\ OnTheWayFrom(l.ip)' \subseteq OnTheWayFrom(l.ip) \ {r}
        BY <1>1, <1>2, <3>1 DEF OnTheWayFrom, Guesses, LockShape
      <4>3. Cardinality(Rows(Lock!OfAddress(l))') \in Nat
            /\ Cardinality(Rows(Lock!OfAddress(l))') <= Cardinality(Rows(Lock!OfAddress(l))) + 1
        BY <2>2, <4>1, OneMoreCounts
      <4>4. Cardinality(OnTheWayFrom(l.ip)') \in Nat
            /\ Cardinality(OnTheWayFrom(l.ip)') <= Cardinality(OnTheWayFrom(l.ip)) - 1
        BY <2>2, <4>2, OneLessCounts
      <4> QED BY <2>1, <2>2, <4>3, <4>4
    <3>2. CASE l.ip # login[r].ip
      <4>1. Rows(Lock!OfAddress(l))' \subseteq Rows(Lock!OfAddress(l))
        BY <1>4, <1>5, <3>2 DEF Rows, Lock!OfAddress
      <4>2. OnTheWayFrom(l.ip)' \subseteq OnTheWayFrom(l.ip)
        BY <1>1, <1>2 DEF OnTheWayFrom, Guesses, LockShape
      <4>3. Cardinality(Rows(Lock!OfAddress(l))') \in Nat
            /\ Cardinality(Rows(Lock!OfAddress(l))') <= Cardinality(Rows(Lock!OfAddress(l)))
        BY <2>2, <4>1, PartsAreFewer
      <4>4. Cardinality(OnTheWayFrom(l.ip)') \in Nat
            /\ Cardinality(OnTheWayFrom(l.ip)') <= Cardinality(OnTheWayFrom(l.ip))
        BY <2>2, <4>2, PartsAreFewer
      <4> QED BY <2>1, <2>2, <4>3, <4>4
    <3> QED BY <3>1, <3>2
  <2> QED BY <2>3, <2>4
<1>8. BeganToForget'
  <2> SUFFICES ASSUME NEW q \in Procs, place'[q] \in {"who", "address"}, NEW f \in failures',
                      UserOf[f.who] = UserOf[login'[q].who]
               PROVE  f.age <= since'[q]
    BY DEF BeganToForget
  <2>1. q # r /\ place[q] \in {"who", "address"} /\ login'[q] = login[q] /\ since'[q] = since[q]
        /\ since[q] \in 0..(Decay + Lockout)
    BY <1>1, <1>2 DEF LockShape
  <2>2. CASE f \in failures
    BY <2>1, <2>2 DEF LockInv, BeganToForget
  <2>3. CASE f = row
    BY <1>4, <2>1, <2>3, LockBounds
  <2> QED BY <1>5, <2>2, <2>3
<1> QED BY <1>6, <1>7, <1>8 DEF LockInv

\* Steps that add no failure and send nobody on the way: the password, the deletes, whatever
\* throws, and a kill.
LEMMA OthersKeepLock ==
  ASSUME LockInv, NEW r \in Procs,
         \/ Lock!Verify(r) \/ Lock!DeleteOfUser(r) \/ Lock!DeleteOfWho(r) \/ Lock!DeleteOfAddress(r)
         \/ Lock!CheckFails(r) \/ Lock!RecordFails(r) \/ Lock!DeleteFails(r) \/ Lock!Kill(r)
  PROVE  LockInv'
PROOF
<1>1. LockShape /\ \A f \in failures : f.age \in Nat
  BY RowsAreCounted DEF LockInv
<1>2. /\ place[r] # "idle" /\ failures' \subseteq failures
      /\ (\E l \in Places \ {"idle"} : Lock!GoTo(r, l)) \/ Lock!End(r)
  <2>1. CASE Lock!Verify(r)
    BY <2>1 DEF Lock!Verify, Places
  <2>2. CASE Lock!DeleteOfUser(r) \/ Lock!DeleteOfWho(r) \/ Lock!DeleteOfAddress(r)
    BY <2>2 DEF Lock!DeleteOfUser, Lock!DeleteOfWho, Lock!DeleteOfAddress, Lock!Forget, Places
  <2>3. CASE Lock!RecordFails(r) \/ Lock!DeleteFails(r) \/ Lock!Kill(r)
    BY <2>3 DEF Lock!RecordFails, Lock!DeleteFails, Lock!Kill, Lock!Deletes
  <2>4. CASE Lock!CheckFails(r)
    <3>1. CASE locked[r]
      <4>1. place' = [place EXCEPT ![r] = "ip"] /\ place[r] = "ip" /\ login' = login /\ failures' = failures
        BY <1>1, <2>4, <3>1 DEF Lock!CheckFails, LockShape
      <4> QED BY <4>1 DEF Lock!GoTo, Places
    <3>2. CASE ~locked[r]
      BY <2>4, <3>2 DEF Lock!CheckFails, Places
    <3> QED BY <3>1, <3>2
  <2> QED BY <2>1, <2>2, <2>3, <2>4
<1>3. /\ locked' \in [Procs -> BOOLEAN] /\ since' \in [Procs -> 0..(Decay + Lockout)]
      /\ errors' \in 0..MaxFaults
      /\ \A q \in Procs : q # r => locked'[q] = locked[q] /\ since'[q] = since[q]
  <2>1. CASE Lock!Verify(r) \/ Lock!DeleteOfUser(r) \/ Lock!DeleteOfWho(r)
    BY <1>1, <2>1 DEF Lock!Verify, Lock!DeleteOfUser, Lock!DeleteOfWho, LockShape
  <2>2. CASE Lock!DeleteOfAddress(r)
    <3>1. since' = [since EXCEPT ![r] = 0] /\ locked' = locked /\ errors' = errors
      BY <2>2 DEF Lock!DeleteOfAddress
    <3> QED BY <1>1, <3>1, LockBounds DEF LockShape
  <2>3. CASE Lock!CheckFails(r) \/ Lock!RecordFails(r) \/ Lock!DeleteFails(r) \/ Lock!Kill(r)
    <3>1. errors' = errors + 1 /\ errors < MaxFaults
      BY <2>3 DEF Lock!CheckFails, Lock!RecordFails, Lock!DeleteFails, Lock!Kill
    <3>2. since' = since \/ since' = [since EXCEPT ![r] = 0]
      BY <2>3 DEF Lock!CheckFails, Lock!RecordFails, Lock!DeleteFails, Lock!Kill
    <3>3. locked' = locked \/ locked' = [locked EXCEPT ![r] = FALSE]
      BY <2>3 DEF Lock!CheckFails, Lock!RecordFails, Lock!DeleteFails, Lock!Kill
    <3>4. errors' \in 0..MaxFaults
      BY <1>1, <3>1, LockBounds DEF LockShape
    <3>5. since' \in [Procs -> 0..(Decay + Lockout)] /\ \A q \in Procs : q # r => since'[q] = since[q]
      BY <1>1, <3>2, LockBounds DEF LockShape
    <3>6. locked' \in [Procs -> BOOLEAN] /\ \A q \in Procs : q # r => locked'[q] = locked[q]
      BY <1>1, <3>3 DEF LockShape
    <3> QED BY <3>4, <3>5, <3>6
  <2> QED BY <2>1, <2>2, <2>3
<1>4. LockShape'
  BY <1>1, <1>2, <1>3, MoveKeepsShape
<1>5. \A q \in Procs : q # r => place'[q] = place[q] /\ login'[q] = login[q]
  BY <1>1, <1>2 DEF LockShape, Lock!GoTo, Lock!End
<1>6. FewAreOnTheWay'
  <2>1. CASE Lock!CheckFails(r) \/ Lock!RecordFails(r) \/ Lock!DeleteFails(r) \/ Lock!Kill(r)
    <3>1. errors' = errors + 1 /\ errors \in Nat
      BY <1>1, <2>1, LockBounds DEF Lock!CheckFails, Lock!RecordFails, Lock!DeleteFails, Lock!Kill, LockShape
    <3>2. errors' # 0
      BY <3>1
    <3> QED BY <3>2 DEF FewAreOnTheWay
  <2>2. CASE \/ Lock!Verify(r) \/ Lock!DeleteOfUser(r) \/ Lock!DeleteOfWho(r) \/ Lock!DeleteOfAddress(r)
    <3>1. /\ errors' = errors
          /\ place'[r] \in Guesses => place[r] \in Guesses /\ login'[r] = login[r]
          /\ place'[r] # "ip"
      <4>1. CASE Lock!Verify(r)
        BY <1>1, <4>1 DEF Lock!Verify, Lock!GoTo, Guesses, LockShape
      <4>2. CASE Lock!DeleteOfUser(r) \/ Lock!DeleteOfWho(r) \/ Lock!DeleteOfAddress(r)
        BY <1>1, <4>2 DEF Lock!DeleteOfUser, Lock!DeleteOfWho, Lock!DeleteOfAddress, Lock!GoTo,
             Lock!End, Guesses, LockShape
      <4> QED BY <2>2, <4>1, <4>2
    <3>2. /\ \A who : OnTheWay(who)' \subseteq OnTheWay(who)
          /\ \A ip : OnTheWayFrom(ip)' \subseteq OnTheWayFrom(ip)
      BY <1>3, <1>5, <3>1 DEF OnTheWay, OnTheWayFrom
    <3> QED BY <1>2, <1>4, <3>1, <3>2, FewStayFew
  <2> QED BY <2>1, <2>2
<1>7. BeganToForget'
  <2>1. CASE ~Lock!DeleteOfUser(r)
    <3>1. place'[r] \in {"who", "address"} =>
            place[r] \in {"who", "address"} /\ login'[r] = login[r] /\ since'[r] = since[r]
      BY <1>1, <2>1 DEF Lock!Verify, Lock!DeleteOfWho, Lock!DeleteOfAddress, Lock!CheckFails,
           Lock!RecordFails, Lock!DeleteFails, Lock!Kill, Lock!GoTo, Lock!End, LockShape
    <3> QED BY <1>2, <1>3, <1>5, <3>1, ForgottenStayForgotten
  <2>2. CASE Lock!DeleteOfUser(r)
    <3> SUFFICES ASSUME NEW q \in Procs, place'[q] \in {"who", "address"}, NEW f \in failures',
                        UserOf[f.who] = UserOf[login'[q].who]
                 PROVE  f.age <= since'[q]
      BY DEF BeganToForget
    <3>1. CASE q # r
      BY <1>2, <1>3, <1>5, <3>1 DEF LockInv, BeganToForget
    <3>2. CASE q = r
      <4>1. /\ login' = login
            /\ failures' = failures \ {g \in failures : UserOf[g.who] = UserOf[login[r].who]}
        BY <2>2 DEF Lock!DeleteOfUser, Lock!Forget, Lock!GoTo
      <4> QED BY <3>2, <4>1
    <3> QED BY <3>1, <3>2
  <2> QED BY <2>1, <2>2
<1> QED BY <1>4, <1>6, <1>7 DEF LockInv

\* A second passes: failures grow older, and some are left out.
LEMMA AgeingKeepsLock == ASSUME LockInv, Lock!Tick PROVE LockInv'
PROOF
<1>1. /\ failures' = {Lock!Aged(f) : f \in {g \in failures : g.age + 1 < Decay + Lockout}}
      /\ since' = [r \in Procs |-> IF place[r] \in {"user", "who", "address"} /\ since[r] < Decay + Lockout
                                   THEN since[r] + 1 ELSE since[r]]
      /\ UNCHANGED <<place, login, locked, errors>>
  BY LockBounds DEF Lock!Tick, Lock!Deletes
<1>2. LockShape /\ \A f \in failures : f.age \in Nat
  BY RowsAreCounted DEF LockInv
<1>3. \A f \in failures' : \E g \in failures :
        /\ g \in Failures /\ f = Lock!Aged(g) /\ g.age + 1 < Decay + Lockout
        /\ f.who = g.who /\ f.ip = g.ip /\ f.nth = g.nth /\ f.age = g.age + 1
        /\ f = [who |-> g.who, ip |-> g.ip, age |-> g.age + 1, nth |-> g.nth]
  <2> SUFFICES ASSUME NEW g \in failures, g.age + 1 < Decay + Lockout
               PROVE  Lock!Aged(g) = [who |-> g.who, ip |-> g.ip, age |-> g.age + 1, nth |-> g.nth]
                      /\ g \in Failures
    BY <1>1
  <2>1. g \in Failures
    BY <1>2 DEF LockShape
  <2>2. g = [who |-> g.who, ip |-> g.ip, age |-> g.age, nth |-> g.nth]
    BY <2>1, FailuresAreTyped
  <2> QED BY <2>1, <2>2 DEF Lock!Aged
<1>4. LockShape'
  <2>1. failures' \subseteq Failures
    <3> SUFFICES ASSUME NEW f \in failures' PROVE f \in Failures
      OBVIOUS
    <3>1. PICK g \in failures :
            /\ g \in Failures /\ g.age + 1 < Decay + Lockout
            /\ f = [who |-> g.who, ip |-> g.ip, age |-> g.age + 1, nth |-> g.nth]
      BY <1>3
    <3>2. /\ g.age \in Nat /\ g.nth \in 1..MaxFailures /\ [who |-> g.who, ip |-> g.ip] \in Logins
          /\ g.who \in {l.who : l \in Logins} /\ g.ip \in {l.ip : l \in Logins}
      BY <3>1, FailuresAreTyped
    <3>3. g.age + 1 \in 0..(Decay + Lockout - 1)
      BY <3>1, <3>2, LockBounds
    <3>4. f.who = g.who /\ f.ip = g.ip
      BY <3>1
    <3> QED BY <3>1, <3>2, <3>3, <3>4 DEF Failures
  <2>2. IsFiniteSet(failures') /\ Cardinality(failures') \in Nat
        /\ Cardinality(failures') <= Cardinality(failures)
    BY <1>2, <1>3, AgedAreFewer DEF LockShape
  <2>3. AtWork' = AtWork
    BY <1>1 DEF AtWork
  <2>4. Cardinality(failures') + Cardinality(AtWork') <= MaxFailures
    BY <1>2, <2>2, <2>3, RowsAreCounted, LockBounds DEF LockShape
  <2>5. since' \in [Procs -> 0..(Decay + Lockout)]
    BY <1>1, <1>2, LockBounds DEF LockShape
  <2> QED BY <1>1, <1>2, <2>1, <2>2, <2>4, <2>5 DEF LockShape
<1>5. FewAreOnTheWay'
  <2> SUFFICES ASSUME errors = 0, Decay < Lockout, NEW l \in Logins
               PROVE  /\ Cardinality(Rows(Lock!OfWho(l)))' + Cardinality(OnTheWay(l.who))'
                           < MaxAttempts + Cardinality(Procs)
                      /\ Cardinality(Rows(Lock!OfAddress(l)))' + Cardinality(OnTheWayFrom(l.ip))'
                           < MaxAttempts + Cardinality(Procs)
    BY <1>1 DEF FewAreOnTheWay
  <2>1. /\ Cardinality(Rows(Lock!OfWho(l))) + Cardinality(OnTheWay(l.who)) < MaxAttempts + Cardinality(Procs)
        /\ Cardinality(Rows(Lock!OfAddress(l))) + Cardinality(OnTheWayFrom(l.ip)) < MaxAttempts + Cardinality(Procs)
    BY DEF LockInv, FewAreOnTheWay
  <2>2. OnTheWay(l.who)' = OnTheWay(l.who) /\ OnTheWayFrom(l.ip)' = OnTheWayFrom(l.ip)
    BY <1>1 DEF OnTheWay, OnTheWayFrom
  <2>3. /\ IsFiniteSet(Rows(Lock!OfWho(l))) /\ Cardinality(Rows(Lock!OfWho(l))) \in Nat
        /\ IsFiniteSet(Rows(Lock!OfAddress(l))) /\ Cardinality(Rows(Lock!OfAddress(l))) \in Nat
        /\ Cardinality(OnTheWay(l.who)) \in Nat /\ Cardinality(OnTheWayFrom(l.ip)) \in Nat
        /\ MaxAttempts + Cardinality(Procs) \in Nat
    BY <1>2, RowsAreCounted, LockBounds
  <2>4. \A f \in Rows(Lock!OfWho(l))' : \E g \in Rows(Lock!OfWho(l)) : f = Lock!Aged(g)
    <3> SUFFICES ASSUME NEW f \in failures', f.who = l.who, f.age <= Decay
                 PROVE  \E g \in failures : g.who = l.who /\ g.age <= Decay /\ f = Lock!Aged(g)
      BY DEF Rows, Lock!OfWho
    <3>1. PICK g \in failures : f = Lock!Aged(g) /\ f.who = g.who /\ f.age = g.age + 1
      BY <1>3
    <3>2. g.age <= Decay
      BY <1>2, <3>1, LockBounds
    <3> QED BY <3>1, <3>2
  <2>5. \A f \in Rows(Lock!OfAddress(l))' : \E g \in Rows(Lock!OfAddress(l)) : f = Lock!Aged(g)
    <3> SUFFICES ASSUME NEW f \in failures', f.ip = l.ip, f.age <= Decay
                 PROVE  \E g \in failures : g.ip = l.ip /\ g.age <= Decay /\ f = Lock!Aged(g)
      BY DEF Rows, Lock!OfAddress
    <3>1. PICK g \in failures : f = Lock!Aged(g) /\ f.ip = g.ip /\ f.age = g.age + 1
      BY <1>3
    <3>2. g.age <= Decay
      BY <1>2, <3>1, LockBounds
    <3> QED BY <3>1, <3>2
  <2>6. /\ Cardinality(Rows(Lock!OfWho(l))') \in Nat
        /\ Cardinality(Rows(Lock!OfWho(l))') <= Cardinality(Rows(Lock!OfWho(l)))
        /\ Cardinality(Rows(Lock!OfAddress(l))') \in Nat
        /\ Cardinality(Rows(Lock!OfAddress(l))') <= Cardinality(Rows(Lock!OfAddress(l)))
    BY <2>3, <2>4, <2>5, AgedAreFewer
  <2> QED BY <2>1, <2>2, <2>3, <2>6
<1>6. BeganToForget'
  <2> SUFFICES ASSUME NEW q \in Procs, place[q] \in {"who", "address"}, NEW f \in failures',
                      UserOf[f.who] = UserOf[login[q].who]
               PROVE  f.age <= since'[q]
    BY <1>1 DEF BeganToForget
  <2>1. PICK g \in failures : g.age + 1 < Decay + Lockout /\ f.who = g.who /\ f.age = g.age + 1
    BY <1>3
  <2>2. g.age <= since[q] /\ g.age \in Nat /\ since[q] \in 0..(Decay + Lockout)
    BY <1>2, <2>1 DEF LockInv, BeganToForget, LockShape
  <2>3. since'[q] = IF since[q] < Decay + Lockout THEN since[q] + 1 ELSE since[q]
    BY <1>1
  <2> QED BY <2>1, <2>2, <2>3, LockBounds
<1> QED BY <1>4, <1>5, <1>6 DEF LockInv

LEMMA LockStutters == ASSUME LockInv, UNCHANGED lockVars PROVE LockInv'
PROOF
<1>1. UNCHANGED <<failures, place, login, locked, since, errors>>
  BY DEF lockVars
<1>2. LockShape' /\ BeganToForget'
  BY <1>1 DEF LockInv, LockShape, AtWork, BeganToForget
<1>3. FewAreOnTheWay'
  BY <1>1 DEF LockInv, FewAreOnTheWay, OnTheWay, OnTheWayFrom, Rows, Lock!OfWho, Lock!OfAddress
<1> QED BY <1>2, <1>3 DEF LockInv

LEMMA LockStepsKeep ==
  ASSUME LockInv, Lock!Next \/ UNCHANGED lockVars PROVE LockInv'
  BY CheckWhoKeepsLock, CheckAddressKeepsLock, RecordKeepsLock, OthersKeepLock, AgeingKeepsLock,
     LockStutters DEF Lock!Next, Lock!Step

LEMMA LockInvIsEnough == ASSUME LockInv PROVE Lock!TypeOK /\ Lock!FewGetThrough
PROOF
<1>1. LockShape
  BY DEF LockInv
<1>2. Lock!TypeOK
  <2>1. Lock!Failure = Failures
    BY LockBounds DEF Lock!Failure, Failures
  <2>2. Lock!Cardinality(failures) <= MaxFailures
    BY <1>1, RowsAreCounted, LockCardinality, LockBounds DEF LockShape
  <2>3. \A r \in Procs : (login[r] = None) = (r \notin Lock!Busy)
    BY <1>1 DEF LockShape, Lock!Busy
  <2>4. place \in [Procs -> {"idle", "ip", "verify", "record"} \cup Lock!Deletes]
    BY <1>1 DEF LockShape, Places, Lock!Deletes
  <2> QED BY <1>1, <2>1, <2>2, <2>3, <2>4, LockBounds DEF LockShape, Lock!TypeOK
<1>3. Lock!FewGetThrough
  <2> SUFFICES ASSUME errors = 0, Decay < Lockout, NEW l \in Logins
               PROVE  /\ Cardinality(Rows(Lock!OfWho(l))) < MaxAttempts + Cardinality(Procs)
                      /\ Cardinality(Rows(Lock!OfAddress(l))) < MaxAttempts + Cardinality(Procs)
    BY LockCardinality DEF Lock!FewGetThrough, Rows
  <2>1. /\ Cardinality(Rows(Lock!OfWho(l))) + Cardinality(OnTheWay(l.who)) < MaxAttempts + Cardinality(Procs)
        /\ Cardinality(Rows(Lock!OfAddress(l))) + Cardinality(OnTheWayFrom(l.ip)) < MaxAttempts + Cardinality(Procs)
    BY DEF LockInv, FewAreOnTheWay
  <2>2. /\ Cardinality(Rows(Lock!OfWho(l))) \in Nat /\ Cardinality(Rows(Lock!OfAddress(l))) \in Nat
        /\ Cardinality(OnTheWay(l.who)) \in Nat /\ Cardinality(OnTheWayFrom(l.ip)) \in Nat
        /\ MaxAttempts + Cardinality(Procs) \in Nat
    BY <1>1, RowsAreCounted, LockBounds
  <2> QED BY <2>1, <2>2
<1> QED BY <1>2, <1>3

\* The third delete has taken the failures of the address, the first those of the user, and
\* none of before its time has come since.
LEMMA SignedInIsForgiven ==
  ASSUME LockInv, Lock!Next \/ UNCHANGED lockVars,
         NEW r \in Procs, place[r] = "address", place'[r] = "idle", errors' = 0,
         NEW f \in failures', f.age > since[r]
  PROVE  UserOf[f.who] # UserOf[login[r].who] /\ f.ip # login[r].ip
PROOF
<1>1. LockShape /\ errors \in Nat /\ since[r] \in Nat /\ \A g \in failures : g.age \in Nat
  BY RowsAreCounted, LockBounds DEF LockInv, LockShape
<1>2. Lock!DeleteOfAddress(r)
  <2>1. PICK q \in Procs : place'[q] # place[q] /\ q = r
    OBVIOUS
  <2>2. ~(UNCHANGED lockVars) /\ ~Lock!Tick
    BY <2>1 DEF lockVars, Lock!Tick
  <2>3. PICK p \in Procs :
          \/ \E l \in Logins : Lock!CheckWho(p, l)
          \/ Lock!Step(p) \/ Lock!CheckFails(p) \/ Lock!RecordFails(p) \/ Lock!DeleteFails(p) \/ Lock!Kill(p)
    BY <2>2 DEF Lock!Next
  <2>4. ~(Lock!CheckFails(p) \/ Lock!RecordFails(p) \/ Lock!DeleteFails(p) \/ Lock!Kill(p))
    <3>1. errors + 1 # 0
      BY <1>1
    <3> QED BY <3>1 DEF Lock!CheckFails, Lock!RecordFails, Lock!DeleteFails, Lock!Kill
  <2>5. p = r
    BY <1>1, <2>3, <2>4 DEF Lock!CheckWho, Lock!Step, Lock!CheckAddress, Lock!Verify, Lock!Record,
         Lock!DeleteOfUser, Lock!DeleteOfWho, Lock!DeleteOfAddress, Lock!GoTo, Lock!End, LockShape
  <2> QED BY <2>3, <2>4, <2>5 DEF Lock!CheckWho, Lock!Step, Lock!CheckAddress, Lock!Verify,
         Lock!Record, Lock!DeleteOfUser, Lock!DeleteOfWho
<1>3. f \in failures /\ f.ip # login[r].ip
  BY <1>2 DEF Lock!DeleteOfAddress, Lock!Forget
<1>4. UserOf[f.who] # UserOf[login[r].who]
  <2>1. UserOf[f.who] = UserOf[login[r].who] => f.age <= since[r]
    BY <1>3 DEF LockInv, BeganToForget
  <2> QED BY <1>1, <1>3, <2>1
<1> QED BY <1>3, <1>4

-----------------------------------------------------------------------------
(* The throttle and the login policy beside the cache.                       *)

\* For any number of requests, any limits, windows and lock times, and whatever fails or is
\* killed: the throttle refuses only after more hits than its limit, few requests pass in a
\* window, and parallel logins get few failures past a lock that outlasts their counting.
THEOREM LimitsStaySound ==
  RequestsSpec => []LimitsAreSound
PROOF
<1> DEFINE all == <<part, cacheVars, limitVars, lockVars>>
<1>1. RequestsInit => LimitInv /\ LockInv
  BY LimitStarts, LockStarts DEF RequestsInit
<1>2. ASSUME LimitInv, LockInv, [RequestsNext]_all PROVE LimitInv' /\ LockInv'
  <2>1. (Limit!Next \/ UNCHANGED limitVars) /\ (Lock!Next \/ UNCHANGED lockVars)
    BY <1>2 DEF RequestsNext
  <2> QED BY <1>2, <2>1, LimitStepsKeep, LockStepsKeep
<1>3. LimitInv /\ LockInv => LimitsAreSound
  BY LimitInvIsEnough, LockInvIsEnough DEF LimitsAreSound
<1>4. RequestsSpec => RequestsInit /\ [][RequestsNext]_all
  BY DEF RequestsSpec
<1> HIDE DEF all
<1> QED BY <1>1, <1>2, <1>3, <1>4, PTL

\* Whatever other requests do between its three deletes, and for any identifiers of a user:
\* a login that has succeeded leaves no failure of the user or of its address from before.
THEOREM SuccessAlwaysForgives ==
  RequestsSpec => SuccessForgives
PROOF
<1> DEFINE all == <<part, cacheVars, limitVars, lockVars>>
<1>1. RequestsInit => LockInv
  BY LockStarts DEF RequestsInit
<1>2. [RequestsNext]_all => Lock!Next \/ UNCHANGED lockVars
  BY DEF RequestsNext
<1>3. LockInv /\ [RequestsNext]_all => LockInv'
  BY <1>2, LockStepsKeep
<1>4. LockInv /\ [RequestsNext]_all =>
        [\A r \in Procs : place[r] = "address" /\ place'[r] = "idle" /\ errors' = 0 =>
           \A f \in failures' : f.age > since[r] =>
             UserOf[f.who] # UserOf[login[r].who] /\ f.ip # login[r].ip]_Lock!vars
  BY <1>2, SignedInIsForgiven
<1>5. RequestsSpec => RequestsInit /\ [][RequestsNext]_all
  BY DEF RequestsSpec
<1> HIDE DEF all
<1> QED BY <1>1, <1>3, <1>4, <1>5, PTL DEF SuccessForgives, Lock!SuccessForgives
===============================================================================
