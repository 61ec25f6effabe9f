--------------------------- MODULE SchedulerProofs ---------------------------
(***************************************************************************)
(* The lock files of Scheduler exclude, for any number of processes,       *)
(* commands, events and inodes, until time runs out on one of them.        *)
(*                                                                         *)
(* OverlapNeedsExpiry is not inductive: nothing in it says that a process  *)
(* about to write its timestamp looks at the file of the run that is under *)
(* way.  IInv adds what an open handle may be: the file of the path, or    *)
(* one unlinked since, which then holds a timestamp that is still fresh.   *)
(***************************************************************************)
EXTENDS Scheduler, TLAPS, SequenceTheorems, WellFoundedInduction

-----------------------------------------------------------------------------
(* Numbers and events.                                                       *)

LEMMA LeastExists ==
  ASSUME NEW S \in SUBSET Nat, S # {}
  PROVE  \E x \in S : \A y \in S : x <= y
<1>1. PICK x \in S : \A y \in S : ~ (<<y, x>> \in OpToRel(<, Nat))
  BY WFMin, NatLessThanWellFounded
<1>2. \A y \in S : ~(y < x)
  BY <1>1, Zenon DEF OpToRel
<1>3. x \in Nat /\ \A y \in S : y \in Nat
  OBVIOUS
<1>4. \A y \in S : x <= y
  BY <1>2, <1>3
<1> QED
  BY <1>4

LEMMA MinIsLeast ==
  ASSUME NEW S \in SUBSET Nat, S # {}
  PROVE  Min(S) \in S /\ \A y \in S : Min(S) <= y
BY LeastExists DEF Min

LEMMA EventFacts ==
  /\ Len(Events) \in Nat \ {0} /\ EventIds = 1..Len(Events)
  /\ \A n \in EventIds : Events[n] \in EventTypes
<1>1. Events \in Seq(EventTypes) /\ Events # << >>
  BY EventAssumption
<1>2. Len(Events) \in Nat /\ DOMAIN Events = 1..Len(Events)
  BY <1>1, LenProperties
<1>3. Len(Events) # 0
  BY <1>1, EmptySeq
<1>4. \A n \in 1..Len(Events) : Events[n] \in EventTypes
  BY <1>1, ElementOfSeq
<1> QED
  BY <1>2, <1>3, <1>4 DEF EventIds

LEMMA EventFields ==
  ASSUME NEW e \in EventTypes
  PROVE  e.cmd \in Commands /\ e.expires \in Nat \ {0} /\ e.overlap \in BOOLEAN
BY DEF EventTypes

\* The least m whose first m numbers have no greatest would be 1, or follow one that has.
LEMMA GreatestExists ==
  ASSUME NEW L \in Nat \ {0}, NEW f \in [1..L -> Nat]
  PROVE  \E n \in 1..L : \A e \in 1..L : f[e] <= f[n]
<1> DEFINE T == {m \in 1..L : \A n \in 1..m : \E e \in 1..m : f[e] > f[n]}
<1>1. ASSUME T # {} PROVE FALSE
  <2>1. PICK m \in T : \A y \in T : m <= y
    <3>1. T \in SUBSET Nat
      OBVIOUS
    <3> QED
      BY <1>1, <3>1, LeastExists
  <2>2. m \in 1..L /\ \A n \in 1..m : \E e \in 1..m : f[e] > f[n]
    OBVIOUS
  <2>3. m # 1
    BY <2>2
  <2>4. m - 1 \in 1..L /\ m - 1 \notin T
    <3> HIDE DEF T
    <3> QED
      BY <2>1, <2>2, <2>3
  <2> HIDE DEF T
  <2>5. PICK n \in 1..(m - 1) : \A e \in 1..(m - 1) : ~(f[e] > f[n])
    BY <2>4 DEF T
  <2>6. CASE f[m] <= f[n]
    BY <2>2, <2>5, <2>6
  <2>7. CASE ~(f[m] <= f[n])
    <3>1. \A e \in 1..m : ~(f[e] > f[m])
      <4> SUFFICES ASSUME NEW e \in 1..m PROVE ~(f[e] > f[m])
        OBVIOUS
      <4>1. CASE e = m
        BY <2>2, <4>1
      <4>2. CASE e # m
        <5>1. e \in 1..(m - 1) /\ f[e] \in Nat /\ f[n] \in Nat /\ f[m] \in Nat
          BY <2>2, <4>2
        <5> QED
          BY <2>5, <2>7, <5>1
      <4> QED
        BY <4>1, <4>2
    <3> QED
      BY <2>2, <3>1
  <2> QED
    BY <2>6, <2>7
<1>2. L \in 1..L /\ L \notin T
  <2> HIDE DEF T
  <2>1. T = {}
    BY <1>1
  <2> QED
    BY <2>1
<1>3. PICK n \in 1..L : \A e \in 1..L : ~(f[e] > f[n])
  BY <1>2, Zenon
<1>4. \A e \in 1..L : f[e] \in Nat
  OBVIOUS
<1> QED
  BY <1>3, <1>4

LEMMA LongestExists ==
  \E n \in EventIds : \A e \in EventIds : Events[e].expires <= Events[n].expires
<1> DEFINE f == [n \in 1..Len(Events) |-> Events[n].expires]
<1>1. f \in [1..Len(Events) -> Nat]
  BY EventFacts, EventFields
<1> HIDE DEF f
<1>2. \E n \in 1..Len(Events) : \A e \in 1..Len(Events) : f[e] <= f[n]
  BY <1>1, EventFacts, GreatestExists
<1> QED
  BY <1>2, EventFacts DEF f

LEMMA LongestIsPositive == Longest \in Nat \ {0}
<1> DEFINE E == {Events[n].expires : n \in DOMAIN Events}
<1>1. \A x \in E : x \in Nat \ {0}
  BY EventFacts, EventFields DEF EventIds
<1>2. \E x \in E : \A y \in E : x >= y
  BY <1>1, LongestExists DEF EventIds
<1> QED
  BY <1>1, <1>2 DEF Longest, Max

LEMMA LimitOfEvent ==
  ASSUME NEW n \in EventIds
  PROVE  /\ Limit(Events[n].cmd) \in Nat \ {0}
         /\ Limit(Events[n].cmd) <= Events[n].expires
<1> DEFINE E == {Events[m].expires : m \in {e \in EventIds : Events[e].cmd = Events[n].cmd}}
<1>1. \A x \in E : x \in Nat \ {0}
  BY EventFacts, EventFields
<1>2. Events[n].expires \in E
  OBVIOUS
<1>3. E \in SUBSET Nat /\ E # {}
  BY <1>1, <1>2
<1>4. Min(E) \in E /\ \A y \in E : Min(E) <= y
  BY <1>3, MinIsLeast
<1> QED
  BY <1>1, <1>2, <1>4 DEF Limit

\* The event a process is at, and the expiry its lock has at the least.
LEMMA CurrentEvent ==
  ASSUME TypeOK, NEW r \in Runners, todo[r] # {}
  PROVE  /\ Min(todo[r]) \in todo[r]
         /\ Current(r) \in EventTypes /\ Cmd(r) \in Commands
         /\ Current(r).expires \in Nat \ {0}
         /\ Limit(Cmd(r)) \in Nat \ {0} /\ Limit(Cmd(r)) <= Current(r).expires
<1>1. todo[r] \in SUBSET EventIds /\ todo[r] \in SUBSET Nat
  BY EventFacts DEF TypeOK
<1>2. Min(todo[r]) \in todo[r] /\ Min(todo[r]) \in EventIds
  BY <1>1, MinIsLeast
<1>3. Current(r) \in EventTypes
  BY <1>2, EventFacts DEF Current
<1>4. /\ Limit(Events[Min(todo[r])].cmd) \in Nat \ {0}
      /\ Limit(Events[Min(todo[r])].cmd) <= Events[Min(todo[r])].expires
  BY <1>2, LimitOfEvent
<1> QED
  BY <1>2, <1>3, <1>4, EventFields DEF Current, Cmd

-----------------------------------------------------------------------------
(* The inductive invariant.                                                  *)

\* A process that has the lock file open or runs is at an event, and opens the file only
\* of a guarded one.
Shape ==
  \A r \in Runners :
    /\ Inside(r) \/ Opening(r) => todo[r] # {}
    /\ Opening(r) => handle[r] # None /\ Current(r).overlap

\* A process past its flock() holds it: no two of them are past it on one inode.
Flocks == \A r \in Runners : pc[r] = "flocked" => owner[handle[r]] = r

\* An inode is a lock file of one command.
Owned ==
  /\ \A k, l \in Commands : path[k] = path[l] /\ path[k] # None => k = l
  /\ \A r \in Runners, k \in Commands : Opening(r) /\ path[k] = handle[r] => k = Cmd(r)
  /\ \A q, r \in Runners : Opening(q) /\ Opening(r) /\ handle[q] = handle[r] => Cmd(q) = Cmd(r)

\* An open file that is no longer the one of the path holds a timestamp, and a fresh one.
Detached ==
  \A r \in Runners : Opening(r) /\ handle[r] # path[Cmd(r)] /\ Cmd(r) \notin outlived =>
    age[handle[r]] # None /\ age[handle[r]] < Limit(Cmd(r))

\* The file of the path is the one of the run, and fresh.
Kept ==
  \A r \in Runners : Guarded(r) /\ Cmd(r) \notin outlived =>
    /\ path[Cmd(r)] # None
    /\ age[path[Cmd(r)]] = since[r] /\ since[r] < Limit(Cmd(r))

IInv == TypeOK /\ Shape /\ Flocks /\ Owned /\ Detached /\ Kept /\ OverlapNeedsExpiry

LEMMA InitIsSound == Init => IInv
<1> SUFFICES ASSUME Init PROVE IInv
  OBVIOUS
<1>1. TypeOK
  <2>1. 0 \in 0..Longest /\ 0 \in 0..MaxBackground /\ 0 \in 0..MaxFaults
    BY LongestIsPositive, BoundAssumption
  <2> QED
    BY <2>1 DEF Init, TypeOK, PCs
<1> QED
  BY <1>1 DEF Init, IInv, Shape, Flocks, Owned, Detached, Kept, OverlapNeedsExpiry,
    Inside, Opening, Guarded

-----------------------------------------------------------------------------
(* Types.                                                                    *)

LEMMA StepsOfRunnerAreTyped ==
  ASSUME TypeOK, Shape, NEW r \in Runners,
         PassStep(r) \/ OpenFails(r) \/ HookThrows(r) \/ Crash(r) \/ \E D \in SUBSET EventIds : StartPass(r, D)
  PROVE  TypeOK'
<1> USE DEF TypeOK, GoTo, Skip, Close, NoFault, PCs, lockFiles
<1>a. Fault => faults' \in 0..MaxFaults
  BY BoundAssumption DEF Fault
<1>b. 0 \in 0..Longest
  BY LongestIsPositive
<1>1. CASE EndPass(r) \/ SkipDown(r) \/ Unguarded(r) \/ OpenFails(r)
  BY <1>a, <1>1 DEF EndPass, SkipDown, Unguarded, OpenFails
<1>2. CASE Open(r)
  BY <1>2 DEF Open
<1>3. CASE Flock(r) \/ FlockBusy(r) \/ Overlapping(r)
  BY <1>3 DEF Flock, FlockBusy, Overlapping
<1>4. CASE Acquire(r)
  BY <1>b, <1>4 DEF Acquire
<1>5. CASE Succeed(r) \/ Throw(r) \/ Answer(r) \/ HookThrows(r)
  BY <1>a, <1>5 DEF Succeed, Throw, Answer, HookThrows
<1>6. CASE Spawn(r)
  <2>1. todo[r] # {}
    BY <1>6 DEF Spawn, Shape, Inside
  <2>2. Cmd(r) \in Commands
    BY <2>1, CurrentEvent
  <2>3. background[Cmd(r)] \in 0..MaxBackground /\ background[Cmd(r)] < MaxBackground
    BY <1>6, <2>2 DEF Spawn
  <2>4. background[Cmd(r)] + 1 \in 0..MaxBackground
    BY <2>3, BoundAssumption
  <2> QED
    BY <1>6, <2>2, <2>4 DEF Spawn
<1>7. CASE Release(r)
  BY <1>b, <1>7 DEF Release
<1>8. CASE Crash(r)
  BY <1>a, <1>b, <1>8 DEF Crash
<1>9. ASSUME NEW D \in SUBSET EventIds, StartPass(r, D) PROVE TypeOK'
  BY <1>9 DEF StartPass
<1> QED
  BY <1>1, <1>2, <1>3, <1>4, <1>5, <1>6, <1>7, <1>8, <1>9 DEF PassStep, LockStep, RunStep

LEMMA TickIsTyped == ASSUME TypeOK, Shape, Tick PROVE TypeOK'
<1> USE DEF TypeOK
<1>1. \A n \in 0..Longest : Older(n) \in 0..Longest
  BY LongestIsPositive DEF Older
<1>2. age' \in [Inodes -> (0..Longest) \cup {None}]
  BY <1>1 DEF Tick
<1>3. since' \in [Runners -> 0..Longest]
  BY <1>1 DEF Tick
<1>4. \A r \in Runners : Guarded(r) \/ Opening(r) => Cmd(r) \in Commands
  BY CurrentEvent DEF Shape, Guarded
<1>5. outlived' \subseteq Commands
  BY <1>4 DEF Tick
<1> QED
  BY <1>2, <1>3, <1>5 DEF Tick, NoFault

LEMMA StepsAreTyped == ASSUME TypeOK, Shape, [Next]_vars PROVE TypeOK'
<1>1. CASE Tick
  BY <1>1, TickIsTyped
<1>2. CASE Maintain
  BY <1>2 DEF Maintain, TypeOK, lockFiles, runners, NoFault
<1>3. ASSUME NEW k \in Commands, BackgroundEnds(k) PROVE TypeOK'
  <2>1. background[k] - 1 \in 0..MaxBackground
    BY <1>3, BoundAssumption DEF BackgroundEnds, TypeOK
  <2> QED
    BY <1>3, <2>1 DEF BackgroundEnds, TypeOK, lockFiles, runners, NoFault
<1>4. CASE UNCHANGED vars
  BY <1>4 DEF vars, TypeOK, lockFiles, runners
<1> QED
  BY <1>1, <1>2, <1>3, <1>4, StepsOfRunnerAreTyped DEF Next

-----------------------------------------------------------------------------
(* Steps that take no file away and start no guarded run.                    *)

Yields ==
  /\ path' = path /\ age' = age /\ outlived' = outlived
  /\ \A q \in Runners : Opening(q)' => Opening(q) /\ handle'[q] = handle[q] /\ Current(q)' = Current(q)
  /\ \A q \in Runners : Guarded(q)' => Guarded(q) /\ Current(q)' = Current(q) /\ since'[q] = since[q]
  /\ \A q \in Runners : Inside(q)' \/ Opening(q)' => todo'[q] # {}
  /\ \A q \in Runners : pc'[q] = "flocked" => owner'[handle'[q]] = q

LEMMA YieldingKeeps ==
  ASSUME IInv, TypeOK', Yields
  PROVE  IInv'
<1>1. \A q \in Runners : Opening(q)' \/ Guarded(q)' => Cmd(q)' = Cmd(q)
  BY DEF Yields, Cmd
<1>2. Shape'
  BY DEF Yields, IInv, Shape
<1>3. Flocks'
  BY DEF Yields, Flocks
<1>4. Owned'
  BY <1>1 DEF Yields, IInv, Owned
<1>5. Detached'
  BY <1>1 DEF Yields, IInv, Detached
<1>6. Kept'
  BY <1>1 DEF Yields, IInv, Kept
<1>7. OverlapNeedsExpiry'
  BY <1>1 DEF Yields, IInv, OverlapNeedsExpiry
<1> QED
  BY <1>2, <1>3, <1>4, <1>5, <1>6, <1>7 DEF IInv

\* The steps of a process that move only itself.
LEMMA QuietSteps ==
  ASSUME IInv, NEW r \in Runners,
         EndPass(r) \/ SkipDown(r) \/ Unguarded(r) \/ OpenFails(r) \/ Flock(r) \/ FlockBusy(r)
           \/ Overlapping(r) \/ Succeed(r) \/ Spawn(r) \/ Throw(r) \/ Answer(r) \/ HookThrows(r)
           \/ Crash(r) \/ (\E D \in SUBSET EventIds : StartPass(r, D))
  PROVE  Yields
<1> USE DEF IInv, TypeOK, Shape, Flocks, Opening, Inside, Guarded, Current, GoTo, Skip, Close, lockFiles
<1>1. CASE EndPass(r)
  BY <1>1 DEF EndPass, Yields
<1>2. CASE SkipDown(r)
  BY <1>2 DEF SkipDown, Yields
<1>3. CASE Unguarded(r)
  BY <1>3 DEF Unguarded, Yields
<1>4. CASE OpenFails(r)
  BY <1>4 DEF OpenFails, Yields
<1>5. CASE Flock(r)
  BY <1>5, NoneAssumption DEF Flock, Yields
<1>6. CASE FlockBusy(r)
  BY <1>6 DEF FlockBusy, Yields
<1>7. CASE Overlapping(r)
  BY <1>7 DEF Overlapping, Yields
<1>8. CASE Succeed(r)
  BY <1>8 DEF Succeed, Yields
<1>9. CASE Spawn(r)
  BY <1>9 DEF Spawn, Yields
<1>10. CASE Throw(r)
  BY <1>10 DEF Throw, Yields
<1>11. CASE Answer(r)
  BY <1>11 DEF Answer, Yields
<1>12. CASE HookThrows(r)
  BY <1>12 DEF HookThrows, Yields
<1>13. CASE Crash(r)
  BY <1>13 DEF Crash, Yields
<1>14. ASSUME NEW D \in SUBSET EventIds, StartPass(r, D) PROVE Yields
  BY <1>14 DEF StartPass, Yields
<1> QED
  BY <1>1, <1>2, <1>3, <1>4, <1>5, <1>6, <1>7, <1>8, <1>9, <1>10, <1>11, <1>12, <1>13, <1>14

-----------------------------------------------------------------------------
(* Steps on the lock files.                                                  *)

\* What is fresh stays fresh, or its command is marked.
LEMMA TickKeeps == ASSUME IInv, TypeOK', Tick PROVE IInv'
<1> USE DEF IInv
<1>1. /\ path' = path /\ owner' = owner /\ pc' = pc /\ handle' = handle /\ todo' = todo
      /\ outlived \subseteq outlived'
  BY DEF Tick
<1>2. \A q \in Runners : /\ (Opening(q)' <=> Opening(q)) /\ (Inside(q)' <=> Inside(q))
                          /\ (Guarded(q)' <=> Guarded(q)) /\ Current(q)' = Current(q) /\ Cmd(q)' = Cmd(q)
  BY <1>1 DEF Opening, Inside, Guarded, Current, Cmd
<1>3. Shape' /\ Flocks' /\ Owned'
  BY <1>1, <1>2 DEF Shape, Flocks, Owned
<1>4. OverlapNeedsExpiry'
  BY <1>1, <1>2 DEF OverlapNeedsExpiry
<1>5. \A q \in Runners : Opening(q) \/ Guarded(q) => Cmd(q) \in Commands
  BY CurrentEvent DEF Shape, Guarded
<1>6. ASSUME NEW q \in Runners, Opening(q), handle[q] # path[Cmd(q)], Cmd(q) \notin outlived'
      PROVE  age'[handle[q]] # None /\ age'[handle[q]] < Limit(Cmd(q))
  <2>1. handle[q] \in Inodes /\ handle[q] \notin Free
    BY <1>6 DEF Shape, TypeOK, Free
  <2>2. age[handle[q]] # None
    BY <1>1, <1>6 DEF Detached
  <2>3. age'[handle[q]] = Older(age[handle[q]])
    BY <2>1, <2>2 DEF Tick
  <2>4. Limit(Cmd(q)) \in Nat /\ age[handle[q]] \in 0..Longest
    BY <1>6, <2>1, <2>2, CurrentEvent DEF Shape, TypeOK
  <2>5. ~(Older(age[handle[q]]) >= Limit(Cmd(q)))
    BY <1>6, <2>2 DEF Tick
  <2>6. Older(age[handle[q]]) \in Nat
    BY <2>4, LongestIsPositive DEF Older
  <2> QED
    BY <2>3, <2>4, <2>5, <2>6, NoneAssumption
<1>7. Detached'
  BY <1>1, <1>2, <1>6 DEF Detached
<1>8. ASSUME NEW q \in Runners, Guarded(q), Cmd(q) \notin outlived'
      PROVE  /\ path[Cmd(q)] # None
             /\ age'[path[Cmd(q)]] = since'[q] /\ since'[q] < Limit(Cmd(q))
  <2>1. path[Cmd(q)] # None /\ age[path[Cmd(q)]] = since[q]
    BY <1>1, <1>8 DEF Kept
  <2>2. Cmd(q) \in Commands /\ path[Cmd(q)] \in Inodes /\ path[Cmd(q)] \notin Free
    BY <1>5, <1>8, <2>1 DEF TypeOK, Free
  <2>3. since[q] \in 0..Longest /\ Older(since[q]) \in Nat /\ since[q] # None
    BY LongestIsPositive, NoneAssumption DEF TypeOK, Older
  <2>4. age'[path[Cmd(q)]] = Older(since[q]) /\ since'[q] = Older(since[q])
    BY <1>8, <2>1, <2>2, <2>3 DEF Tick
  <2>5. ~(Older(since[q]) >= Limit(Cmd(q))) /\ Limit(Cmd(q)) \in Nat
    BY <1>8, CurrentEvent DEF Tick, Shape, Guarded
  <2> QED
    BY <2>1, <2>3, <2>4, <2>5
<1>9. Kept'
  BY <1>1, <1>2, <1>8 DEF Kept
<1> QED
  BY <1>3, <1>4, <1>7, <1>9

\* A new file is nobody's yet; it takes the place of none that a run is under.
LEMMA OpenKeeps ==
  ASSUME IInv, TypeOK', NEW r \in Runners, Open(r)
  PROVE  IInv'
<1> USE DEF IInv
<1>1. PICK i \in Inodes :
        /\ IF path[Cmd(r)] # None THEN i = path[Cmd(r)] /\ UNCHANGED <<path, age>>
           ELSE /\ i \in Free
                /\ path' = [path EXCEPT ![Cmd(r)] = i] /\ age' = [age EXCEPT ![i] = None]
        /\ handle' = [handle EXCEPT ![r] = i]
  BY DEF Open
<1>2. /\ pc[r] = "next" /\ pc' = [pc EXCEPT ![r] = "opened"] /\ Current(r).overlap /\ todo[r] # {}
      /\ owner' = owner /\ todo' = todo /\ since' = since /\ outlived' = outlived
  BY DEF Open, GoTo
<1>3. \A q \in Runners : Current(q)' = Current(q) /\ Cmd(q)' = Cmd(q)
  BY <1>2 DEF Current, Cmd
<1>a. \A q \in Runners : (Inside(q)' <=> Inside(q)) /\ (Guarded(q)' <=> Guarded(q))
  BY <1>2, <1>3 DEF TypeOK, Inside, Guarded
<1>b. \A q \in Runners : q # r => (Opening(q)' <=> Opening(q)) /\ handle'[q] = handle[q]
  BY <1>1, <1>2 DEF TypeOK, Opening
<1>4. ~Opening(r) /\ Opening(r)' /\ handle'[r] = i /\ i # None /\ Cmd(r) \in Commands /\ path'[Cmd(r)] = i
  BY <1>1, <1>2, CurrentEvent, NoneAssumption DEF TypeOK, Opening
<1>5. \A q \in Runners : Opening(q) \/ Guarded(q) => Cmd(q) \in Commands
  BY CurrentEvent DEF Shape, Guarded
<1>6. Shape'
  BY <1>2, <1>3, <1>a, <1>b, <1>4 DEF Shape
<1>7. Flocks'
  BY <1>2, <1>4, <1>b DEF TypeOK, Flocks, Opening
<1>8. CASE path[Cmd(r)] # None
  <2>1. path' = path /\ age' = age /\ i = path[Cmd(r)]
    BY <1>1, <1>8
  <2>2. Owned'
    BY <2>1, <1>3, <1>a, <1>b, <1>4, <1>5 DEF Owned
  <2>3. Detached'
    BY <2>1, <1>2, <1>3, <1>a, <1>b, <1>4 DEF Detached
  <2>4. Kept' /\ OverlapNeedsExpiry'
    BY <2>1, <1>2, <1>3, <1>a DEF Kept, OverlapNeedsExpiry
  <2> QED
    BY <2>2, <2>3, <2>4, <1>6, <1>7
<1>9. CASE path[Cmd(r)] = None
  <2>1. /\ i \in Free /\ path' = [path EXCEPT ![Cmd(r)] = i] /\ age' = [age EXCEPT ![i] = None]
    BY <1>1, <1>9
  <2>2. /\ \A k \in Commands : path[k] # i /\ (k # Cmd(r) => path'[k] = path[k])
        /\ \A q \in Runners : handle[q] # i
        /\ \A j \in Inodes : j # i => age'[j] = age[j]
    BY <2>1 DEF Free, TypeOK
  <2>3. Owned'
    BY <2>2, <1>3, <1>a, <1>b, <1>4, <1>5 DEF Owned
  <2>4. Detached'
    <3> SUFFICES ASSUME NEW q \in Runners, Opening(q)', handle'[q] # path'[Cmd(q)], Cmd(q) \notin outlived
                 PROVE  age'[handle'[q]] # None /\ age'[handle'[q]] < Limit(Cmd(q))
      BY <1>2, <1>3, <1>a, <1>b DEF Detached
    <3>1. q # r
      BY <1>4
    <3>2. Opening(q) /\ handle'[q] = handle[q] /\ handle[q] # i /\ handle[q] \in Inodes
      BY <3>1, <1>b, <2>2 DEF Shape, TypeOK
    <3>3. handle[q] # path[Cmd(q)]
      BY <3>2, <2>2, <1>5, <1>9 DEF Shape
    <3> QED
      BY <3>2, <3>3, <2>2 DEF Detached
  <2>5. Kept'
    <3> SUFFICES ASSUME NEW q \in Runners, Guarded(q), Cmd(q) \notin outlived
                 PROVE  /\ path'[Cmd(q)] # None
                        /\ age'[path'[Cmd(q)]] = since[q] /\ since[q] < Limit(Cmd(q))
      BY <1>2, <1>3, <1>a, <1>b DEF Kept
    <3>1. /\ path[Cmd(q)] # None /\ age[path[Cmd(q)]] = since[q] /\ since[q] < Limit(Cmd(q))
      BY DEF Kept
    <3>2. Cmd(q) # Cmd(r) /\ Cmd(q) \in Commands /\ path[Cmd(q)] \in Inodes /\ path[Cmd(q)] # i
      BY <3>1, <1>5, <1>9, <2>2 DEF TypeOK
    <3> QED
      BY <3>1, <3>2, <2>2
  <2>6. OverlapNeedsExpiry'
    BY <1>2, <1>3, <1>a, <1>b DEF OverlapNeedsExpiry
  <2> QED
    BY <2>3, <2>4, <2>5, <2>6, <1>6, <1>7
<1> QED
  BY <1>8, <1>9

\* Whoever writes its timestamp has the file of the path, which holds no fresh one: so no
\* other run is under it.
LEMMA AcquireKeeps ==
  ASSUME IInv, TypeOK', NEW r \in Runners, Acquire(r)
  PROVE  IInv'
<1> USE DEF IInv
<1>1. /\ pc[r] = "flocked" /\ ~Taken(r) /\ pc' = [pc EXCEPT ![r] = "running"]
      /\ age' = [age EXCEPT ![handle[r]] = 0] /\ owner' = [owner EXCEPT ![handle[r]] = None]
      /\ handle' = [handle EXCEPT ![r] = None] /\ since' = [since EXCEPT ![r] = 0]
      /\ path' = path /\ todo' = todo /\ outlived' = outlived
  BY DEF Acquire, GoTo, Close
<1>2. /\ Opening(r) /\ ~Opening(r)' /\ Guarded(r)' /\ since'[r] = 0 /\ todo[r] # {}
      /\ handle[r] \in Inodes /\ age'[handle[r]] = 0 /\ Current(r).overlap
  BY <1>1 DEF TypeOK, Shape, Opening, Guarded, Inside, Current
<1>3. \A q \in Runners : Current(q)' = Current(q) /\ Cmd(q)' = Cmd(q)
  BY <1>1 DEF Current, Cmd
<1>a. \A q \in Runners : q # r =>
        (Opening(q)' <=> Opening(q)) /\ (Inside(q)' <=> Inside(q)) /\ (Guarded(q)' <=> Guarded(q))
  BY <1>1, <1>3 DEF TypeOK, Opening, Inside, Guarded
<1>b. \A q \in Runners : q # r => /\ handle'[q] = handle[q] /\ since'[q] = since[q] /\ pc'[q] = pc[q]
  BY <1>1 DEF TypeOK
<1>4. \A q \in Runners : Opening(q) \/ Guarded(q) => Cmd(q) \in Commands
  BY CurrentEvent DEF Shape, Guarded
<1>5. /\ Limit(Cmd(r)) \in Nat \ {0} /\ Limit(Cmd(r)) <= Current(r).expires /\ Current(r).expires \in Nat
  BY <1>2, CurrentEvent
<1>6. \A j \in Inodes : j # handle[r] => age'[j] = age[j]
  BY <1>1 DEF TypeOK
<1>7. ~(age[handle[r]] # None /\ age[handle[r]] < Limit(Cmd(r)))
  <2>1. age[handle[r]] # None => age[handle[r]] \in 0..Longest
    BY <1>2 DEF TypeOK
  <2> QED
    BY <2>1, <1>1, <1>5, LongestIsPositive DEF Taken
<1>8. ASSUME Cmd(r) \notin outlived
      PROVE  /\ handle[r] = path[Cmd(r)]
             /\ \A q \in Runners : Guarded(q) => Cmd(q) # Cmd(r)
  <2>1. handle[r] = path[Cmd(r)]
    BY <1>2, <1>7, <1>8 DEF Detached
  <2>2. ASSUME NEW q \in Runners, Guarded(q), Cmd(q) = Cmd(r) PROVE FALSE
    <3>1. age[handle[r]] = since[q] /\ since[q] < Limit(Cmd(r))
      BY <2>1, <2>2, <1>8 DEF Kept
    <3>2. since[q] # None
      BY NoneAssumption, LongestIsPositive DEF TypeOK
    <3> QED
      BY <3>1, <3>2, <1>7
  <2> QED
    BY <2>1, <2>2
<1>9. Shape'
  BY <1>1, <1>2, <1>3, <1>a, <1>b DEF Shape
<1>10. Flocks'
  <2> SUFFICES ASSUME NEW q \in Runners, pc'[q] = "flocked" PROVE owner'[handle'[q]] = q
    BY DEF Flocks
  <2>1. q # r /\ pc[q] = "flocked" /\ handle'[q] = handle[q]
    BY <1>1, <1>3, <1>a, <1>b DEF TypeOK
  <2>2. owner[handle[q]] = q /\ owner[handle[r]] = r
    BY <2>1, <1>1 DEF Flocks
  <2> QED
    BY <2>1, <2>2, <1>1 DEF TypeOK
<1>11. Owned'
  BY <1>1, <1>2, <1>3, <1>a, <1>b DEF Owned
<1>12. Detached'
  <2> SUFFICES ASSUME NEW q \in Runners, Opening(q)', handle'[q] # path[Cmd(q)], Cmd(q) \notin outlived
               PROVE  age'[handle'[q]] # None /\ age'[handle'[q]] < Limit(Cmd(q))
    BY <1>1, <1>3, <1>a, <1>b DEF Detached
  <2>1. q # r /\ Opening(q) /\ handle'[q] = handle[q] /\ handle[q] \in Inodes
    BY <1>2, <1>3, <1>a, <1>b DEF Shape, TypeOK
  <2>2. handle[q] # handle[r]
    BY <2>1, <1>2, <1>8 DEF Owned
  <2> QED
    BY <2>1, <2>2, <1>6 DEF Detached
<1>13. Kept'
  <2> SUFFICES ASSUME NEW q \in Runners, Guarded(q)', Cmd(q) \notin outlived
               PROVE  /\ path[Cmd(q)] # None
                      /\ age'[path[Cmd(q)]] = since'[q] /\ since'[q] < Limit(Cmd(q))
    BY <1>1, <1>3, <1>a, <1>b DEF Kept
  <2>1. CASE q = r
    BY <2>1, <1>2, <1>5, <1>8 DEF Shape
  <2>2. CASE q # r
    <3>1. Guarded(q) /\ since'[q] = since[q]
      BY <2>2, <1>3, <1>a, <1>b
    <3>2. path[Cmd(q)] # None /\ age[path[Cmd(q)]] = since[q] /\ since[q] < Limit(Cmd(q))
      BY <3>1 DEF Kept
    <3>3. Cmd(q) \in Commands /\ path[Cmd(q)] \in Inodes
      BY <3>1, <3>2, <1>4 DEF TypeOK
    <3>4. path[Cmd(q)] # handle[r]
      BY <3>1, <3>3, <1>2, <1>8 DEF Owned
    <3> QED
      BY <3>1, <3>2, <3>3, <3>4, <1>6
  <2> QED
    BY <2>1, <2>2
<1>14. OverlapNeedsExpiry'
  <2> SUFFICES ASSUME NEW p \in Runners, NEW q \in Runners, p # q, Guarded(p)', Guarded(q)', Cmd(p) = Cmd(q)
               PROVE  Cmd(q) \in outlived
    BY <1>1, <1>3, <1>a, <1>b DEF OverlapNeedsExpiry
  <2>1. CASE p # r /\ q # r
    BY <2>1, <1>3, <1>a, <1>b DEF OverlapNeedsExpiry
  <2>2. CASE p = r \/ q = r
    BY <2>2, <1>3, <1>a, <1>b, <1>8
  <2> QED
    BY <2>1, <2>2
<1> QED
  BY <1>9, <1>10, <1>11, <1>12, <1>13, <1>14

\* A run that ends unlinks its own file, or no one's.
LEMMA ReleaseKeeps ==
  ASSUME IInv, TypeOK', NEW r \in Runners, Release(r)
  PROVE  IInv'
<1> USE DEF IInv
<1>1. /\ pc[r] = "release" /\ pc' = [pc EXCEPT ![r] = IF aborted[r] THEN "idle" ELSE "next"]
      /\ todo' = [todo EXCEPT ![r] = IF aborted[r] THEN {} ELSE @ \ {Min(@)}]
      /\ path' = IF Current(r).overlap THEN [path EXCEPT ![Cmd(r)] = None] ELSE path
      /\ since' = [since EXCEPT ![r] = 0]
      /\ age' = age /\ owner' = owner /\ handle' = handle /\ outlived' = outlived
  BY DEF Release, GoTo
<1>2. Inside(r) /\ ~Inside(r)' /\ ~Guarded(r)' /\ ~Opening(r)' /\ pc'[r] # "flocked" /\ todo[r] # {}
  BY <1>1 DEF TypeOK, Shape, Inside, Guarded, Opening
<1>3. \A q \in Runners : q # r => todo'[q] = todo[q] /\ since'[q] = since[q] /\ pc'[q] = pc[q]
  BY <1>1 DEF TypeOK
<1>4. \A q \in Runners : q # r => Current(q)' = Current(q) /\ Cmd(q)' = Cmd(q)
  BY <1>3 DEF Current, Cmd
<1>5. \A q \in Runners : q # r =>
        (Opening(q)' <=> Opening(q)) /\ (Inside(q)' <=> Inside(q)) /\ (Guarded(q)' <=> Guarded(q))
  BY <1>3, <1>4 DEF Opening, Inside, Guarded
<1>6. \A q \in Runners : Opening(q) \/ Guarded(q) => Cmd(q) \in Commands
  BY CurrentEvent DEF Shape, Guarded
<1>7. Shape'
  BY <1>1, <1>2, <1>3, <1>4, <1>5 DEF Shape
<1>8. Flocks'
  BY <1>1, <1>2, <1>3 DEF Flocks
<1>9. OverlapNeedsExpiry'
  BY <1>1, <1>2, <1>4, <1>5 DEF OverlapNeedsExpiry
<1>10. CASE ~Current(r).overlap
  <2>1. path' = path
    BY <1>1, <1>10
  <2>2. Owned' /\ Detached'
    BY <2>1, <1>1, <1>2, <1>4, <1>5 DEF Owned, Detached
  <2>3. Kept'
    BY <2>1, <1>1, <1>2, <1>3, <1>4, <1>5 DEF Kept
  <2> QED
    BY <2>2, <2>3, <1>7, <1>8, <1>9
<1>11. CASE Current(r).overlap
  <2>1. Guarded(r) /\ Cmd(r) \in Commands
    BY <1>2, <1>6, <1>11 DEF Guarded
  <2>2. path'[Cmd(r)] = None /\ \A k \in Commands : k # Cmd(r) => path'[k] = path[k]
    BY <2>1, <1>1, <1>11 DEF TypeOK
  <2>3. Owned'
    <3>1. \A k \in Commands : path'[k] # None => path'[k] = path[k]
      BY <2>2
    <3>2. \A q \in Runners : Opening(q) => handle[q] # None
      BY DEF Shape
    <3> QED
      BY <3>1, <3>2, <1>1, <1>2, <1>4, <1>5 DEF Owned
  <2>4. Detached'
    <3> SUFFICES ASSUME NEW q \in Runners, q # r, Opening(q), handle[q] # path'[Cmd(q)], Cmd(q) \notin outlived
                 PROVE  age[handle[q]] # None /\ age[handle[q]] < Limit(Cmd(q))
      BY <1>1, <1>2, <1>4, <1>5 DEF Detached
    <3>1. CASE handle[q] # path[Cmd(q)]
      BY <3>1 DEF Detached
    <3>2. CASE handle[q] = path[Cmd(q)]
      <4>1. Cmd(q) = Cmd(r)
        BY <3>2, <2>2, <1>6
      <4>2. age[handle[q]] = since[r] /\ since[r] < Limit(Cmd(r))
        BY <4>1, <3>2, <2>1 DEF Kept
      <4>3. since[r] # None
        BY NoneAssumption, LongestIsPositive DEF TypeOK
      <4> QED
        BY <4>1, <4>2, <4>3
    <3> QED
      BY <3>1, <3>2
  <2>5. Kept'
    <3> SUFFICES ASSUME NEW q \in Runners, q # r, Guarded(q), Cmd(q) \notin outlived
                 PROVE  /\ path'[Cmd(q)] # None
                        /\ age[path'[Cmd(q)]] = since[q] /\ since[q] < Limit(Cmd(q))
      BY <1>1, <1>2, <1>3, <1>4, <1>5 DEF Kept
    <3>1. Cmd(q) # Cmd(r) /\ Cmd(q) \in Commands
      BY <2>1, <1>6 DEF OverlapNeedsExpiry
    <3> QED
      BY <3>1, <2>2 DEF Kept
  <2> QED
    BY <2>3, <2>4, <2>5, <1>7, <1>8, <1>9
<1> QED
  BY <1>10, <1>11

-----------------------------------------------------------------------------
(* The theorems.                                                             *)

LEMMA StepsKeep == ASSUME IInv, [Next]_vars PROVE IInv'
<1>1. TypeOK'
  BY StepsAreTyped DEF IInv
<1>2. CASE Tick
  BY <1>1, <1>2, TickKeeps
<1>3. CASE Maintain \/ (\E k \in Commands : BackgroundEnds(k)) \/ UNCHANGED vars
  <2>1. /\ path' = path /\ age' = age /\ owner' = owner /\ pc' = pc /\ todo' = todo
        /\ handle' = handle /\ since' = since /\ outlived' = outlived
    BY <1>3 DEF Maintain, BackgroundEnds, vars, lockFiles, runners
  <2>2. Yields
    BY <2>1 DEF Yields, IInv, Shape, Flocks, Opening, Inside, Guarded, Current
  <2> QED
    BY <1>1, <2>2, YieldingKeeps
<1>4. ASSUME NEW r \in Runners,
             PassStep(r) \/ OpenFails(r) \/ HookThrows(r) \/ Crash(r)
               \/ \E D \in SUBSET EventIds : StartPass(r, D)
      PROVE  IInv'
  <2>1. CASE Open(r)
    BY <1>1, <2>1, OpenKeeps
  <2>2. CASE Acquire(r)
    BY <1>1, <2>2, AcquireKeeps
  <2>3. CASE Release(r)
    BY <1>1, <2>3, ReleaseKeeps
  <2>4. CASE ~Open(r) /\ ~Acquire(r) /\ ~Release(r)
    <3>1. Yields
      BY <1>4, <2>4, QuietSteps DEF PassStep, LockStep, RunStep
    <3> QED
      BY <1>1, <3>1, YieldingKeeps
  <2> QED
    BY <2>1, <2>2, <2>3, <2>4
<1> QED
  BY <1>2, <1>3, <1>4 DEF Next

\* At every moment the files, the flocks, the open handles and the runs agree as IInv says
\* (ScheduleEvent::acquireLock, releaseLock; Schedule::runDueEvents).
THEOREM Invariant == Spec => []IInv
<1>1. Init => IInv
  BY InitIsSound
<1>2. IInv /\ [Next]_vars => IInv'
  BY StepsKeep
<1> QED
  BY <1>1, <1>2, PTL DEF Spec

\* Two guarded runs of one command never overlap before time has run out on one of them,
\* whatever is killed, cannot be opened or throws (ScheduleEvent::acquireLock, releaseLock).
THEOREM RunsExclude == Spec => []OverlapNeedsExpiry
<1>1. IInv => OverlapNeedsExpiry
  BY DEF IInv
<1> QED
  BY <1>1, Invariant, PTL

\* A run inside its expiry finds its own lock file in place: nobody else unlinked or overwrote
\* it (ScheduleEvent::acquireLock, releaseLock).
THEOREM LocksAreKept == Spec => []LocksAreSound
<1>1. IInv => LocksAreSound
  BY DEF IInv, LocksAreSound, Kept, RunKeepsItsLock
<1> QED
  BY <1>1, Invariant, PTL
=============================================================================
