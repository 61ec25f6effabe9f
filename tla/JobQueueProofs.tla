--------------------------- MODULE JobQueueProofs ---------------------------
(* Theorems about JobQueue, for every value of its constants. *)
EXTENDS JobQueue, FiniteSetTheorems, TLAPS

-----------------------------------------------------------------------------
(* The inductive invariant of claims.                                        *)

\* Stamps and failed ids are handed out in order, so the next one is unused.
Fresh ==
  /\ nextFailed <= nextStamp
  /\ \A i \in Stamps : Present(i) => i < nextStamp
  /\ \A f \in Stamps : failed[f] # None => f < nextFailed /\ failed[f].stamp < nextStamp
  /\ \A w \in Workers : job[w] # None => job[w].id < nextStamp
  /\ \A c \in Clis : cli[c].at # "idle" =>
       /\ cli[c].fid \in Stamps /\ cli[c].msg \in Msgs /\ cli[c].stamp \in Stamps
       /\ cli[c].stamp < nextStamp

\* A worker that locks or holds a row has its copy in hand.
Claims == \A w \in Workers : pc[w] = "locked" \/ Holding(w) => job[w] # None

\* A locked row stays as the SELECT found it, and has one locker.
LockedRows ==
  \A w \in Workers : pc[w] = "locked" =>
    /\ Present(job[w].id)
    /\ jobs[job[w].id].attempts = job[w].attempts
    /\ jobs[job[w].id].reserved = None
       \/ jobs[job[w].id].reserved - lag[w] >= RetryAfter
    /\ \A v \in Workers : pc[v] = "locked" /\ job[v].id = job[w].id => v = w

\* Until a row is overrun, its holder's reservation is the one in the table,
\* it has not expired, and nobody else holds or locks the row.
Exclusive ==
  \A w \in Workers : Holding(w) /\ job[w].id \notin overrun =>
    /\ held[w] < RetryAfter
    /\ Present(job[w].id) => jobs[job[w].id].reserved = held[w]
    /\ \A v \in Workers : (pc[v] = "locked" \/ Holding(v)) /\ job[v].id = job[w].id => v = w

ClaimInv == TypeOK /\ Fresh /\ Claims /\ LockedRows /\ Exclusive

-----------------------------------------------------------------------------
(* The inductive invariant of messages.                                      *)

\* A message is safe above a stamp when it is done, excused, or has a row that
\* was inserted later than the stamp.
SafeAbove(m, s) ==
  \/ m \in done \cup excused
  \/ \E i \in Stamps : Present(i) /\ jobs[i].msg = m /\ i > s
  \/ \E f \in Stamps : failed[f] # None /\ failed[f].msg = m /\ failed[f].stamp > s

\* A row is never reused for another message.
Identity ==
  /\ \A w \in Workers : job[w] # None /\ Present(job[w].id) =>
       jobs[job[w].id].msg = job[w].msg
  /\ \A c \in Clis : \A f \in Stamps :
       cli[c].at # "idle" /\ failed[f] # None /\ failed[f].stamp = cli[c].stamp =>
         failed[f].msg = cli[c].msg
  /\ \A f, g \in Stamps :
       failed[f] # None /\ failed[g] # None /\ failed[f].stamp = failed[g].stamp => f = g

\* Whoever is about to delete a row knows a younger copy of its message.
Covered ==
  /\ \A m \in dispatched : SafeAbove(m, 0)
  /\ \A w \in Workers : pc[w] = "handled" => job[w].msg \in done
  /\ \A w \in Workers : pc[w] = "recorded" => SafeAbove(job[w].msg, job[w].id)
  /\ \A c \in Clis : cli[c].at = "inserted" => SafeAbove(cli[c].msg, cli[c].stamp)

LossInv == Identity /\ Covered

-----------------------------------------------------------------------------
(* NULL is no row.                                                           *)

LEMMA NoneRow == \A r \in Row : r # None
  BY NoneAssumption, JobAssumption, TimeAssumption DEF Row, Oldest
LEMMA NoneFRow == \A r \in FRow : r # None
  BY NoneAssumption, JobAssumption DEF FRow, Stamps
LEMMA NoneClaim == \A k \in Claim : k # None
  BY NoneAssumption, JobAssumption DEF Claim, Stamps

-----------------------------------------------------------------------------
(* The steps, with those that touch no table taken together.                 *)

Local(w) ==
  \/ Start(w) \/ Quit(w) \/ ReadClock(w) \/ FindNothing(w) \/ ReserveRejected(w)
  \/ PopFault(w) \/ DecodeFails(w) \/ StartHandle(w)
  \/ HandleReturns(w) \/ HandleThrows(w) \/ CallFailed(w) \/ DeleteHandledFails(w)
  \/ ReleaseFails(w) \/ RecordFailureFails(w) \/ DeleteFailedFails(w) \/ Crash(w)

RetryEnds(c) == RetryCrash(c) \/ RetryFails(c)

\* What a local step may do: it moves one worker, which locks no row, keeps or
\* drops the row it holds, and passes over a step that writes only with a fault.
LEMMA LocalFrame ==
  ASSUME TypeOK, Claims, NEW w \in Workers, Local(w)
  PROVE  /\ tables' = tables /\ cli' = cli /\ held' = held
         /\ overrun' = overrun /\ dispatched' = dispatched
         /\ done \subseteq done' /\ excused \subseteq excused'
         /\ \A v \in Workers : v # w => pc'[v] = pc[v] /\ job'[v] = job[v] /\ lag'[v] = lag[v]
         /\ job'[w] \in {job[w], None}
         /\ pc'[w] # "locked"
         /\ Holding(w)' => Holding(w) /\ job'[w] = job[w]
         /\ pc'[w] = "handled" => job[w].msg \in done'
         /\ pc'[w] = "recorded" => job[w].msg \in excused'
<1> USE DEF TypeOK, Claims, Holding, tables, workers, history, GoTo, Drop, PCs
<1>1. CASE Start(w) \/ Quit(w) \/ ReadClock(w) \/ FindNothing(w)
  BY <1>1 DEF Start, Quit, ReadClock, FindNothing
<1>2. CASE ReserveRejected(w) \/ PopFault(w) \/ DecodeFails(w)
  BY <1>2 DEF ReserveRejected, PopFault, DecodeFails
<1>3. CASE StartHandle(w) \/ HandleReturns(w) \/ HandleThrows(w) \/ CallFailed(w)
  BY <1>3 DEF StartHandle, Restored, HandleReturns, HandleThrows, CallFailed
<1>4. CASE DeleteHandledFails(w) \/ ReleaseFails(w)
  BY <1>4 DEF DeleteHandledFails, ReleaseFails
<1>5. CASE RecordFailureFails(w) \/ DeleteFailedFails(w) \/ Crash(w)
  BY <1>5 DEF RecordFailureFails, DeleteFailedFails, Crash
<1> QED
  BY <1>1, <1>2, <1>3, <1>4, <1>5 DEF Local

-----------------------------------------------------------------------------
(* What the steps that write a row do to it.                                 *)

LEMMA AgedRow ==
  ASSUME NEW r \in Row
  PROVE  /\ Aged(r) \in Row /\ Aged(r) # None
         /\ Aged(r).msg = r.msg /\ Aged(r).attempts = r.attempts
         /\ Aged(r).reserved =
              IF r.reserved = None THEN None ELSE LeastOf(r.reserved + 1, Oldest)
<1> DEFINE s == IF r.reserved = None THEN None ELSE LeastOf(r.reserved + 1, Oldest)
           l == IF r.lead - 1 < -Past THEN -Past ELSE r.lead - 1
<1>1. Aged(r) = [r EXCEPT !.reserved = s, !.lead = l]
  BY DEF Aged
<1>2. r.reserved \in (0..Oldest) \cup {None} /\ r.lead \in Int
  BY DEF Row
<1>3. s \in (0..Oldest) \cup {None} /\ l \in Int
  BY <1>2, TimeAssumption, NoneAssumption DEF LeastOf, Oldest
<1> HIDE DEF s, l
<1>4. /\ Aged(r) \in Row /\ Aged(r).reserved = s
      /\ Aged(r).msg = r.msg /\ Aged(r).attempts = r.attempts
  BY <1>1, <1>3 DEF Row
<1> QED
  BY <1>4, NoneRow DEF s

LEMMA InsertedRow ==
  ASSUME TypeOK, Fresh, NEW m \in Msgs, NEW d \in Int, InsertJob(m, d)
  PROVE  /\ nextStamp \in Stamps /\ nextStamp' = nextStamp + 1
         /\ jobs[nextStamp] = None
         /\ jobs' \in [Stamps -> Row \cup {None}]
         /\ jobs'[nextStamp] # None /\ jobs'[nextStamp].msg = m
         /\ \A i \in Stamps : i # nextStamp => jobs'[i] = jobs[i]
<1> DEFINE r == [msg |-> m, attempts |-> 0, reserved |-> None, lead |-> d]
<1>1. r \in Row /\ r # None /\ r.msg = m
  BY NoneRow, JobAssumption DEF Row
<1>2. nextStamp \in Stamps /\ jobs[nextStamp] = None
  BY DEF InsertJob, TypeOK, Fresh, Stamps, Present
<1>3. jobs' = [jobs EXCEPT ![nextStamp] = r] /\ nextStamp' = nextStamp + 1
  BY DEF InsertJob
<1> HIDE DEF r
<1> QED
  BY <1>1, <1>2, <1>3 DEF TypeOK

LEMMA SelectedRow ==
  ASSUME ClaimInv, NEW w \in Workers, Select(w)
  PROVE  \E i \in Stamps :
           /\ Claimable(i, lag[w]) /\ ~Locked(i)
           /\ job'[w] \in Claim /\ job'[w] # None
           /\ job'[w].id = i /\ job'[w].msg = jobs[i].msg
           /\ job'[w].attempts = jobs[i].attempts
           /\ job' \in [Workers -> Claim \cup {None}]
           /\ \A v \in Workers : v # w => job'[v] = job[v]
<1>1. PICK i \in Candidates(lag[w]) :
        job' = [job EXCEPT ![w] = [id |-> i, msg |-> jobs[i].msg,
                                   attempts |-> jobs[i].attempts]]
  BY DEF Select
<1>2. i \in Stamps /\ Claimable(i, lag[w]) /\ ~Locked(i)
  BY DEF Candidates
<1>3. jobs[i] \in Row
  BY <1>2 DEF Claimable, Present, ClaimInv, TypeOK
<1> DEFINE k == [id |-> i, msg |-> jobs[i].msg, attempts |-> jobs[i].attempts]
<1>4. k \in Claim /\ k.id = i /\ k.msg = jobs[i].msg /\ k.attempts = jobs[i].attempts
  BY <1>2, <1>3 DEF Claim, Row
<1>5. k # None
  BY <1>4, NoneClaim
<1> HIDE DEF k
<1> QED
  BY <1>1, <1>2, <1>4, <1>5 DEF ClaimInv, TypeOK, k

LEMMA ReservedRow ==
  ASSUME ClaimInv, NEW w \in Workers, Reserve(w)
  PROVE  LET i == job[w].id IN
           /\ job[w] # None /\ i \in Stamps /\ Present(i)
           /\ jobs' \in [Stamps -> Row \cup {None}]
           /\ jobs'[i] # None /\ jobs'[i].msg = jobs[i].msg /\ jobs'[i].reserved = lag[w]
           /\ \A j \in Stamps : j # i => jobs'[j] = jobs[j]
           /\ job' \in [Workers -> Claim \cup {None}]
           /\ job'[w] # None /\ job'[w].id = i /\ job'[w].msg = job[w].msg
           /\ \A v \in Workers : v # w => job'[v] = job[v]
<1> DEFINE i == job[w].id
           r == [jobs[i] EXCEPT !.reserved = lag[w], !.attempts = @ + 1]
           k == [job[w] EXCEPT !.attempts = @ + 1]
<1>1. job[w] \in Claim /\ job[w] # None
  BY DEF Reserve, ClaimInv, TypeOK, Claims
<1>2. i \in Stamps /\ Present(i) /\ jobs[i] \in Row /\ jobs[i].attempts = job[w].attempts
  BY <1>1 DEF Reserve, ClaimInv, TypeOK, LockedRows, Present, Claim
<1>3. jobs[i].attempts + 1 \in 0..AttemptsCap /\ job[w].attempts + 1 \in 0..AttemptsCap
  BY <1>1, <1>2, JobAssumption DEF Reserve, Claim
<1>4. lag[w] \in 0..Oldest
  BY TimeAssumption DEF ClaimInv, TypeOK, Oldest
<1>5. r \in Row /\ r.msg = jobs[i].msg /\ r.reserved = lag[w]
  BY <1>2, <1>3, <1>4 DEF Row
<1>6. k \in Claim /\ k.id = i /\ k.msg = job[w].msg
  BY <1>1, <1>3 DEF Claim
<1>7. r # None /\ k # None
  BY <1>5, <1>6, NoneRow, NoneClaim
<1>8. jobs' = [jobs EXCEPT ![i] = r] /\ job' = [job EXCEPT ![w] = k]
  BY <1>1, <1>2 DEF Reserve, ClaimInv, TypeOK
<1> HIDE DEF r, k
<1> QED
  BY <1>1, <1>2, <1>5, <1>6, <1>7, <1>8 DEF ClaimInv, TypeOK

LEMMA ReleasedRow ==
  ASSUME ClaimInv, NEW w \in Workers, Release(w)
  PROVE  LET i == job[w].id IN
           /\ job[w] # None /\ i \in Stamps /\ ~Locked(i)
           /\ jobs' \in [Stamps -> Row \cup {None}]
           /\ Present(i) => jobs'[i] # None /\ jobs'[i].msg = jobs[i].msg
           /\ ~Present(i) => jobs'[i] = None
           /\ \A j \in Stamps : j # i => jobs'[j] = jobs[j]
<1> DEFINE i == job[w].id
           r == [jobs[i] EXCEPT !.reserved = None, !.lead = Backoff]
<1>1. job[w] \in Claim /\ job[w] # None /\ i \in Stamps
  BY DEF Release, ClaimInv, TypeOK, Claims, Holding, Claim
<1>2. CASE Present(i)
  <2>1. jobs[i] \in Row
    BY <1>1, <1>2 DEF ClaimInv, TypeOK, Present
  <2>2. r \in Row /\ r.msg = jobs[i].msg
    <3>1. Backoff \in Int
      BY TimeAssumption
    <3> QED
      BY <2>1, <3>1 DEF Row
  <2>3. r # None
    BY <2>2, NoneRow
  <2>4. jobs' = [jobs EXCEPT ![i] = r]
    BY <1>1, <1>2 DEF Release, ClaimInv, TypeOK
  <2> HIDE DEF r
  <2> QED
    BY <1>1, <1>2, <2>2, <2>3, <2>4 DEF Release, ClaimInv, TypeOK
<1>3. CASE ~Present(i)
  BY <1>1, <1>3 DEF Release, ClaimInv, TypeOK, Present
<1> QED
  BY <1>2, <1>3

LEMMA DeletedRow ==
  ASSUME ClaimInv, NEW w \in Workers, Holding(w), DeleteRow(w)
  PROVE  LET i == job[w].id IN
           /\ job[w] # None /\ i \in Stamps /\ ~Locked(i)
           /\ jobs' \in [Stamps -> Row \cup {None}]
           /\ jobs'[i] = None
           /\ \A j \in Stamps : j # i => jobs'[j] = jobs[j]
  BY DEF DeleteRow, ClaimInv, TypeOK, Claims, Claim

LEMMA RecordedRow ==
  ASSUME ClaimInv, NEW w \in Workers, RecordFailure(w)
  PROVE  /\ job[w] # None /\ nextStamp \in Stamps /\ nextFailed \in Stamps
         /\ failed[nextFailed] = None
         /\ failed' \in [Stamps -> FRow \cup {None}]
         /\ failed'[nextFailed] # None
         /\ failed'[nextFailed].msg = job[w].msg
         /\ failed'[nextFailed].stamp = nextStamp
         /\ failed'[nextFailed].origin = job[w].id
         /\ \A f \in Stamps : f # nextFailed => failed'[f] = failed[f]
<1> DEFINE r == [msg |-> job[w].msg, stamp |-> nextStamp, origin |-> job[w].id]
<1>1. job[w] # None /\ job[w] \in Claim
  BY DEF RecordFailure, ClaimInv, TypeOK, Claims, Holding
<1>2. nextStamp \in Stamps /\ nextFailed \in Stamps
  BY JobAssumption DEF RecordFailure, ClaimInv, TypeOK, Fresh, Stamps
<1>3. failed[nextFailed] = None
  BY <1>2 DEF ClaimInv, TypeOK, Fresh, Stamps
<1>4. r \in FRow /\ r.msg = job[w].msg /\ r.stamp = nextStamp /\ r.origin = job[w].id
  BY <1>1, <1>2 DEF FRow, Claim
<1>5. r # None
  BY <1>4, NoneFRow
<1>6. failed' = [failed EXCEPT ![nextFailed] = r]
  BY DEF RecordFailure
<1> HIDE DEF r
<1> QED
  BY <1>1, <1>2, <1>3, <1>4, <1>5, <1>6 DEF ClaimInv, TypeOK

LEMMA TickedRow ==
  ASSUME ClaimInv, Tick
  PROVE  /\ jobs' \in [Stamps -> Row \cup {None}]
         /\ \A i \in Stamps : ~Present(i) => jobs'[i] = None
         /\ \A i \in Stamps : Present(i) =>
              /\ jobs'[i] # None /\ jobs'[i].msg = jobs[i].msg
              /\ jobs'[i].attempts = jobs[i].attempts
              /\ jobs'[i].reserved = IF jobs[i].reserved = None THEN None
                                     ELSE LeastOf(jobs[i].reserved + 1, Oldest)
<1>1. ASSUME NEW i \in Stamps, Present(i) PROVE jobs[i] \in Row
  BY <1>1 DEF ClaimInv, TypeOK, Present
<1>2. jobs' = [i \in Stamps |-> IF Present(i) THEN Aged(jobs[i]) ELSE None]
  BY DEF Tick
<1> QED
  BY <1>1, <1>2, AgedRow

-----------------------------------------------------------------------------
(* Each conjunct of ClaimInv is preserved by every step.                     *)

LEMMA DelaysInt == \A d \in Delays : d \in Int
  BY TimeAssumption

LEMMA InsertTyped ==
  ASSUME ClaimInv, NEW m \in Msgs, NEW d \in Int, InsertJob(m, d)
  PROVE  jobs' \in [Stamps -> Row \cup {None}] /\ nextStamp' \in 1..(MaxInserts + 1)
<1>1. jobs' \in [Stamps -> Row \cup {None}] /\ nextStamp \in Stamps /\ nextStamp' = nextStamp + 1
  BY InsertedRow DEF ClaimInv
<1> QED
  BY <1>1, JobAssumption DEF Stamps

LEMMA TypeStep == ClaimInv /\ [Next]_vars => TypeOK'
<1> SUFFICES ASSUME ClaimInv, [Next]_vars PROVE TypeOK'
  OBVIOUS
<1> USE DEF ClaimInv, tables, workers, history, NoFault, GoTo, Drop, TypeOK
<1>1. ASSUME UNCHANGED vars PROVE TypeOK'
  BY <1>1 DEF vars
<1>2. ASSUME Tick PROVE TypeOK'
  <2>1. lag' \in [Workers -> 0..Slack]
    BY <1>2, TimeAssumption DEF Tick
  <2>2. held' \in [Workers -> 0..RetryAfter]
    <3>1. \A w \in Workers : LeastOf(held[w] + 1, RetryAfter) \in 0..RetryAfter
      BY TimeAssumption DEF LeastOf
    <3> QED
      BY <1>2, <3>1 DEF Tick
  <2>3. overrun' \subseteq Stamps
    BY <1>2 DEF Tick, Claims, Claim
  <2> QED
    BY <1>2, <2>1, <2>2, <2>3, TickedRow DEF Tick
<1>3. ASSUME NEW m \in Msgs, NEW d \in Delays, Dispatch(m, d) PROVE TypeOK'
  BY <1>3, InsertTyped, DelaysInt DEF Dispatch
<1>4. ASSUME NEW m \in Msgs, DispatchFails(m) PROVE TypeOK'
  BY <1>4, JobAssumption DEF DispatchFails, Fault
<1>5. ASSUME NEW w \in Workers, Local(w) PROVE TypeOK'
  <2> USE JobAssumption DEF Fault, PCs
  <2>1. CASE Start(w) \/ Quit(w) \/ ReadClock(w) \/ FindNothing(w)
    BY <2>1, TimeAssumption DEF Start, Quit, ReadClock, FindNothing
  <2>2. CASE ReserveRejected(w) \/ PopFault(w) \/ DecodeFails(w)
    BY <2>2 DEF ReserveRejected, PopFault, DecodeFails
  <2>3. CASE StartHandle(w)
    BY <2>3, TimeAssumption DEF StartHandle, Restored
  <2>4. CASE HandleReturns(w) \/ RecordFailureFails(w)
    <3>1. job[w].id \in Stamps /\ job[w].msg \in Msgs
      BY <2>4 DEF HandleReturns, RecordFailureFails, Claims, Holding, Claim
    <3> QED
      BY <2>4, <3>1 DEF HandleReturns, RecordFailureFails
  <2>5. CASE HandleThrows(w) \/ CallFailed(w) \/ DeleteHandledFails(w) \/ ReleaseFails(w)
    BY <2>5 DEF HandleThrows, CallFailed, DeleteHandledFails, ReleaseFails
  <2>6. CASE DeleteFailedFails(w)
    BY <2>6 DEF DeleteFailedFails
  <2>7. CASE Crash(w)
    BY <2>7 DEF Crash
  <2> QED
    BY <1>5, <2>1, <2>2, <2>3, <2>4, <2>5, <2>6, <2>7 DEF Local
<1>6. ASSUME NEW w \in Workers, Select(w) PROVE TypeOK'
  BY <1>6, SelectedRow DEF Select, PCs
<1>7. ASSUME NEW w \in Workers, Reserve(w) PROVE TypeOK'
  <2>1. lag[w] \in 0..RetryAfter
    BY TimeAssumption
  <2>2. held' \in [Workers -> 0..RetryAfter] /\ pc' \in [Workers -> PCs]
    BY <1>7, <2>1 DEF Reserve, PCs
  <2> QED
    BY <1>7, <2>2, ReservedRow DEF Reserve
<1>8. ASSUME NEW w \in Workers, DeleteHandled(w) PROVE TypeOK'
  BY <1>8, DeletedRow DEF DeleteHandled, DeleteRow, PCs, Holding
<1>9. ASSUME NEW w \in Workers, Release(w) PROVE TypeOK'
  BY <1>9, ReleasedRow DEF Release, PCs
<1>10. ASSUME NEW w \in Workers, RecordFailure(w) PROVE TypeOK'
  <2>1. nextStamp' \in 1..(MaxInserts + 1) /\ nextFailed' \in 1..(MaxInserts + 1)
    <3>1. nextStamp \in Stamps /\ nextFailed \in Stamps
      BY <1>10, RecordedRow
    <3> QED
      BY <1>10, <3>1, JobAssumption DEF RecordFailure, Stamps
  <2> QED
    BY <1>10, <2>1, RecordedRow DEF RecordFailure, PCs
<1>11. ASSUME NEW w \in Workers, DeleteFailed(w) PROVE TypeOK'
  BY <1>11, DeletedRow DEF DeleteFailed, DeleteRow, PCs, Holding
<1>12. ASSUME NEW c \in Clis, NEW f \in Stamps, RetryFetch(c, f) PROVE TypeOK'
  <2>1. failed[f] \in FRow
    BY <1>12 DEF RetryFetch
  <2>2. cli' \in [Clis -> CliState]
    BY <1>12, <2>1 DEF RetryFetch, Keep, CliState, FRow
  <2> QED
    BY <1>12, <2>2 DEF RetryFetch
<1>13. ASSUME NEW c \in Clis, RetryInsert(c) PROVE TypeOK'
  <2>1. cli[c].msg \in Msgs
    BY <1>13 DEF RetryInsert, Fresh
  <2>2. InsertJob(cli[c].msg, 0)
    BY <1>13 DEF RetryInsert
  <2>3. cli' \in [Clis -> CliState]
    BY <1>13 DEF RetryInsert, CliState
  <2> QED
    BY <1>13, <2>1, <2>2, <2>3, InsertTyped DEF RetryInsert
<1>14. ASSUME NEW c \in Clis, RetryDelete(c) PROVE TypeOK'
  <2>1. cli' \in [Clis -> CliState]
    BY <1>14 DEF RetryDelete, CliDone, CliIdle, CliState
  <2>2. excused' \subseteq Msgs /\ failed' \in [Stamps -> FRow \cup {None}]
    BY <1>14 DEF RetryDelete, Fresh, FRow
  <2> QED
    BY <1>14, <2>1, <2>2 DEF RetryDelete
<1>15. ASSUME NEW c \in Clis, RetryEnds(c) PROVE TypeOK'
  <2>1. cli' \in [Clis -> CliState]
    BY <1>15 DEF RetryEnds, RetryCrash, RetryFails, CliDone, CliIdle, CliState
  <2> QED
    BY <1>15, <2>1, JobAssumption DEF RetryEnds, RetryCrash, RetryFails, Fault
<1>16. ASSUME Flush PROVE TypeOK'
  <2>1. failed' \in [Stamps -> FRow \cup {None}]
    BY <1>16 DEF Flush
  <2>2. nextFailed' \in 1..(MaxInserts + 1)
    BY <1>16, JobAssumption DEF Flush
  <2>3. excused' \subseteq Msgs
    BY <1>16 DEF Flush, FRow
  <2> QED
    BY <1>16, <2>1, <2>2, <2>3 DEF Flush
<1>17. ASSUME Clear PROVE TypeOK'
  <2>1. excused' \subseteq Msgs
    BY <1>17 DEF Clear, Present, Row
  <2> QED
    BY <1>17, <2>1 DEF Clear
<1> QED
  BY <1>1, <1>2, <1>3, <1>4, <1>5, <1>6, <1>7, <1>8, <1>9, <1>10, <1>11, <1>12, <1>13, <1>14, <1>15, <1>16, <1>17 DEF Next, PopStep, ProcessStep, WorkerFault, RetryStep, RetryFault, Local, RetryEnds

\* An insert keeps every stamp in use below the next one.
LEMMA InsertFresh ==
  ASSUME ClaimInv, NEW m \in Msgs, NEW d \in Int, InsertJob(m, d)
  PROVE  /\ nextFailed <= nextStamp'
         /\ \A i \in Stamps : jobs'[i] # None => i < nextStamp'
         /\ \A f \in Stamps : failed[f] # None => failed[f].stamp < nextStamp'
         /\ \A w \in Workers : job[w] # None => job[w].id < nextStamp'
         /\ \A c \in Clis : cli[c].at # "idle" => cli[c].stamp < nextStamp'
<1> USE DEF ClaimInv, TypeOK, Fresh, Present
<1>1. nextStamp \in Int /\ nextStamp' = nextStamp + 1 /\ nextFailed \in Int
  BY DEF InsertJob
<1>2. \A i \in Stamps : jobs'[i] # None => i = nextStamp \/ jobs[i] # None
  BY InsertedRow
<1>3. \A i \in Stamps : jobs'[i] # None => i < nextStamp'
  BY <1>1, <1>2 DEF Stamps
<1>4. \A f \in Stamps : failed[f] # None => failed[f].stamp < nextStamp'
  BY <1>1 DEF FRow, Stamps
<1>5. \A w \in Workers : job[w] # None => job[w].id < nextStamp'
  BY <1>1 DEF Claim, Stamps
<1>6. \A c \in Clis : cli[c].at # "idle" => cli[c].stamp < nextStamp'
  BY <1>1 DEF Stamps
<1> QED
  BY <1>1, <1>3, <1>4, <1>5, <1>6

LEMMA FreshStep == ClaimInv /\ [Next]_vars => Fresh'
<1> SUFFICES ASSUME ClaimInv, [Next]_vars PROVE Fresh'
  OBVIOUS
<1> USE DEF ClaimInv, tables, workers, history, NoFault, GoTo, Drop, TypeOK, Fresh, Present
<1>1. ASSUME UNCHANGED vars PROVE Fresh'
  BY <1>1 DEF vars
<1>2. ASSUME Tick PROVE Fresh'
  BY <1>2, TickedRow DEF Tick
<1>3. ASSUME NEW m \in Msgs, NEW d \in Delays, Dispatch(m, d) PROVE Fresh'
  <2>1. InsertJob(m, d) /\ d \in Int
    BY <1>3, DelaysInt DEF Dispatch
  <2> QED
    BY <1>3, <2>1, InsertFresh DEF Dispatch
<1>4. ASSUME NEW m \in Msgs, DispatchFails(m) PROVE Fresh'
  BY <1>4, JobAssumption DEF DispatchFails, Fault
<1>5. ASSUME NEW w \in Workers, Local(w) PROVE Fresh'
  BY <1>5, LocalFrame
<1>6. ASSUME NEW w \in Workers, Select(w) PROVE Fresh'
  BY <1>6, SelectedRow DEF Select, Claimable
<1>7. ASSUME NEW w \in Workers, Reserve(w) PROVE Fresh'
  <2>1. jobs' \in [Stamps -> Row \cup {None}] /\ \A j \in Stamps : jobs'[j] # None => jobs[j] # None
    BY <1>7, ReservedRow
  <2>2. \A v \in Workers : job'[v] # None => job'[v].id < nextStamp
    BY <1>7, ReservedRow
  <2> QED
    BY <1>7, <2>1, <2>2 DEF Reserve
<1>8. ASSUME NEW w \in Workers, DeleteHandled(w) PROVE Fresh'
  BY <1>8, DeletedRow DEF DeleteHandled, DeleteRow, Holding
<1>9. ASSUME NEW w \in Workers, Release(w) PROVE Fresh'
  BY <1>9, ReleasedRow DEF Release
<1>10. ASSUME NEW w \in Workers, RecordFailure(w) PROVE Fresh'
  <2>1. nextStamp \in Stamps /\ nextFailed \in Stamps
    BY <1>10, RecordedRow
  <2>2. nextStamp' = nextStamp + 1 /\ nextFailed' = nextFailed + 1
    BY <1>10 DEF RecordFailure
  <2>3. nextStamp \in Int /\ nextFailed \in Int
    BY <2>1 DEF Stamps
  <2>4. \A f \in Stamps : failed'[f] # None => f < nextFailed' /\ failed'[f].stamp < nextStamp'
    <3>1. \A f \in Stamps : f # nextFailed => failed'[f] = failed[f]
      BY <1>10, RecordedRow
    <3>2. failed'[nextFailed].stamp = nextStamp
      BY <1>10, RecordedRow
    <3>3. \A f \in Stamps : failed[f] # None =>
            f \in Int /\ failed[f].stamp \in Int /\ f < nextFailed /\ failed[f].stamp < nextStamp
      BY DEF FRow, Stamps
    <3> QED
      BY <2>2, <2>3, <3>1, <3>2, <3>3
  <2>5. /\ jobs' = jobs /\ cli' = cli
        /\ \A v \in Workers : job'[v] # None => job[v] # None /\ job'[v].id = job[v].id
    BY <1>10 DEF RecordFailure
  <2>6. \A v \in Workers : job'[v] # None => job'[v].id < nextStamp'
    BY <2>2, <2>3, <2>5 DEF Claim, Stamps
  <2>7. \A i \in Stamps : jobs'[i] # None => i < nextStamp'
    BY <2>2, <2>3, <2>5 DEF Stamps
  <2>8. \A c \in Clis : cli[c].at # "idle" => cli[c].stamp < nextStamp'
    BY <2>2, <2>3 DEF Stamps
  <2> QED
    BY <2>2, <2>3, <2>4, <2>5, <2>6, <2>7, <2>8
<1>11. ASSUME NEW w \in Workers, DeleteFailed(w) PROVE Fresh'
  BY <1>11, DeletedRow DEF DeleteFailed, DeleteRow, Holding
<1>12. ASSUME NEW c \in Clis, NEW f \in Stamps, RetryFetch(c, f) PROVE Fresh'
  <2>1. \A b \in Clis : b # c => cli'[b] = cli[b]
    BY <1>12 DEF RetryFetch, Keep
  <2>2. /\ cli'[c].fid = f /\ cli'[c].msg = failed[f].msg
        /\ cli'[c].stamp = failed[f].stamp
    BY <1>12 DEF RetryFetch, Keep
  <2> QED
    BY <1>12, <2>1, <2>2 DEF RetryFetch, FRow
<1>13. ASSUME NEW c \in Clis, RetryInsert(c) PROVE Fresh'
  <2>1. cli[c].msg \in Msgs /\ InsertJob(cli[c].msg, 0)
    BY <1>13 DEF RetryInsert
  <2>2. \A b \in Clis : /\ cli'[b].at # "idle" => cli[b].at # "idle"
                        /\ cli'[b].fid = cli[b].fid /\ cli'[b].msg = cli[b].msg
                        /\ cli'[b].stamp = cli[b].stamp
    BY <1>13 DEF RetryInsert, CliState
  <2> QED
    BY <1>13, <2>1, <2>2, InsertFresh DEF RetryInsert
<1>14. ASSUME NEW c \in Clis, RetryDelete(c) PROVE Fresh'
  <2>1. \A b \in Clis : cli'[b].at # "idle" => cli'[b] = cli[b]
    BY <1>14 DEF RetryDelete, CliDone, CliIdle
  <2> QED
    BY <1>14, <2>1 DEF RetryDelete
<1>15. ASSUME NEW c \in Clis, RetryEnds(c) PROVE Fresh'
  <2>1. \A b \in Clis : cli'[b].at # "idle" => cli'[b] = cli[b]
    BY <1>15 DEF RetryEnds, RetryCrash, RetryFails, CliDone, CliIdle
  <2> QED
    BY <1>15, <2>1 DEF RetryEnds, RetryCrash, RetryFails
<1>16. ASSUME Flush PROVE Fresh'
  BY <1>16 DEF Flush
<1>17. ASSUME Clear PROVE Fresh'
  BY <1>17 DEF Clear
<1> QED
  BY <1>1, <1>2, <1>3, <1>4, <1>5, <1>6, <1>7, <1>8, <1>9, <1>10, <1>11, <1>12, <1>13, <1>14, <1>15, <1>16, <1>17 DEF Next, PopStep, ProcessStep, WorkerFault, RetryStep, RetryFault, Local, RetryEnds

LEMMA ClaimsStep == ClaimInv /\ [Next]_vars => Claims'
<1> SUFFICES ASSUME ClaimInv, [Next]_vars PROVE Claims'
  OBVIOUS
<1> USE DEF ClaimInv, tables, workers, history, NoFault, GoTo, Drop, TypeOK, Claims, Holding
<1>1. ASSUME UNCHANGED vars PROVE Claims'
  BY <1>1 DEF vars
<1>2. ASSUME Tick PROVE Claims'
  BY <1>2, TickedRow DEF Tick
<1>3. ASSUME NEW m \in Msgs, NEW d \in Delays, Dispatch(m, d) PROVE Claims'
  BY <1>3, InsertedRow, DelaysInt DEF Dispatch
<1>4. ASSUME NEW m \in Msgs, DispatchFails(m) PROVE Claims'
  BY <1>4, JobAssumption DEF DispatchFails, Fault
<1>5. ASSUME NEW w \in Workers, Local(w) PROVE Claims'
  BY <1>5, LocalFrame
<1>6. ASSUME NEW w \in Workers, Select(w) PROVE Claims'
  BY <1>6, SelectedRow DEF Select
<1>7. ASSUME NEW w \in Workers, Reserve(w) PROVE Claims'
  BY <1>7, ReservedRow DEF Reserve
<1>8. ASSUME NEW w \in Workers, DeleteHandled(w) PROVE Claims'
  BY <1>8, DeletedRow DEF DeleteHandled, DeleteRow
<1>9. ASSUME NEW w \in Workers, Release(w) PROVE Claims'
  BY <1>9, ReleasedRow DEF Release
<1>10. ASSUME NEW w \in Workers, RecordFailure(w) PROVE Claims'
  BY <1>10, RecordedRow DEF RecordFailure
<1>11. ASSUME NEW w \in Workers, DeleteFailed(w) PROVE Claims'
  BY <1>11, DeletedRow DEF DeleteFailed, DeleteRow
<1>12. ASSUME NEW c \in Clis, NEW f \in Stamps, RetryFetch(c, f) PROVE Claims'
  BY <1>12 DEF RetryFetch, Keep
<1>13. ASSUME NEW c \in Clis, RetryInsert(c) PROVE Claims'
  BY <1>13, InsertedRow DEF RetryInsert
<1>14. ASSUME NEW c \in Clis, RetryDelete(c) PROVE Claims'
  BY <1>14 DEF RetryDelete, CliDone, CliIdle
<1>15. ASSUME NEW c \in Clis, RetryEnds(c) PROVE Claims'
  BY <1>15 DEF RetryEnds, RetryCrash, RetryFails, CliDone, CliIdle, Fault
<1>16. ASSUME Flush PROVE Claims'
  BY <1>16 DEF Flush
<1>17. ASSUME Clear PROVE Claims'
  BY <1>17 DEF Clear
<1> QED
  BY <1>1, <1>2, <1>3, <1>4, <1>5, <1>6, <1>7, <1>8, <1>9, <1>10, <1>11, <1>12, <1>13, <1>14, <1>15, <1>16, <1>17 DEF Next, PopStep, ProcessStep, WorkerFault, RetryStep, RetryFault, Local, RetryEnds

LEMMA LockedStep == ClaimInv /\ [Next]_vars => LockedRows'
<1> SUFFICES ASSUME ClaimInv, [Next]_vars PROVE LockedRows'
  OBVIOUS
<1> USE DEF ClaimInv, tables, workers, history, NoFault, GoTo, Drop, TypeOK, Claims, LockedRows, Present, Holding
<1>1. ASSUME UNCHANGED vars PROVE LockedRows'
  BY <1>1 DEF vars
<1>2. ASSUME Tick PROVE LockedRows'
  <2> SUFFICES ASSUME NEW w \in Workers, pc'[w] = "locked"
               PROVE  /\ jobs'[job'[w].id] # None
                      /\ jobs'[job'[w].id].attempts = job'[w].attempts
                      /\ jobs'[job'[w].id].reserved = None
                         \/ jobs'[job'[w].id].reserved - lag'[w] >= RetryAfter
                      /\ \A v \in Workers : pc'[v] = "locked" /\ job'[v].id = job'[w].id => v = w
    OBVIOUS
  <2> DEFINE i == job[w].id
  <2>1. pc' = pc /\ job' = job /\ pc[w] = "locked" /\ lag[w] < Slack /\ lag'[w] = lag[w] + 1
    BY <1>2 DEF Tick
  <2>2. i \in Stamps /\ jobs[i] # None /\ jobs[i] \in Row
    BY <2>1 DEF Claim
  <2>3. jobs[i].reserved = None \/ jobs[i].reserved \in 0..Oldest
    BY <2>2 DEF Row
  <2>4. ASSUME jobs[i].reserved # None PROVE jobs'[i].reserved - lag'[w] >= RetryAfter
    <3>1. jobs'[i].reserved = LeastOf(jobs[i].reserved + 1, Oldest)
      BY <1>2, <2>2, <2>4, TickedRow
    <3>2. jobs[i].reserved - lag[w] >= RetryAfter /\ lag[w] \in 0..Slack
      BY <2>1, <2>4
    <3> QED
      BY <2>1, <2>3, <2>4, <3>1, <3>2, TimeAssumption DEF LeastOf, Oldest
  <2> QED
    BY <1>2, <2>1, <2>2, <2>4, TickedRow
<1>3. ASSUME NEW m \in Msgs, NEW d \in Delays, Dispatch(m, d) PROVE LockedRows'
  BY <1>3, InsertedRow, DelaysInt DEF Dispatch, Claim
<1>4. ASSUME NEW m \in Msgs, DispatchFails(m) PROVE LockedRows'
  BY <1>4, JobAssumption DEF DispatchFails, Fault
<1>5. ASSUME NEW w \in Workers, Local(w) PROVE LockedRows'
  BY <1>5, LocalFrame
<1>6. ASSUME NEW w \in Workers, Select(w) PROVE LockedRows'
  <2>1. PICK i \in Stamps :
          /\ Claimable(i, lag[w]) /\ ~Locked(i)
          /\ job'[w].id = i /\ job'[w].attempts = jobs[i].attempts
          /\ \A v \in Workers : v # w => job'[v] = job[v]
    BY <1>6, SelectedRow
  <2>2. /\ jobs' = jobs /\ lag' = lag /\ pc'[w] = "locked"
        /\ \A v \in Workers : v # w => pc'[v] = pc[v]
    BY <1>6 DEF Select
  <2> QED
    BY <2>1, <2>2 DEF Claimable, Locked
<1>7. ASSUME NEW w \in Workers, Reserve(w) PROVE LockedRows'
  BY <1>7, ReservedRow DEF Reserve, Claim
<1>8. ASSUME NEW w \in Workers, DeleteHandled(w) PROVE LockedRows'
  BY <1>8, DeletedRow DEF DeleteHandled, DeleteRow, Locked, Claim
<1>9. ASSUME NEW w \in Workers, Release(w) PROVE LockedRows'
  BY <1>9, ReleasedRow DEF Release, Locked, Claim
<1>10. ASSUME NEW w \in Workers, RecordFailure(w) PROVE LockedRows'
  BY <1>10, RecordedRow DEF RecordFailure
<1>11. ASSUME NEW w \in Workers, DeleteFailed(w) PROVE LockedRows'
  BY <1>11, DeletedRow DEF DeleteFailed, DeleteRow, Locked, Claim
<1>12. ASSUME NEW c \in Clis, NEW f \in Stamps, RetryFetch(c, f) PROVE LockedRows'
  BY <1>12 DEF RetryFetch, Keep
<1>13. ASSUME NEW c \in Clis, RetryInsert(c) PROVE LockedRows'
  <2>1. cli[c].msg \in Msgs /\ InsertJob(cli[c].msg, 0)
    BY <1>13 DEF RetryInsert, Fresh
  <2> QED
    BY <1>13, <2>1, InsertedRow DEF RetryInsert, Claim
<1>14. ASSUME NEW c \in Clis, RetryDelete(c) PROVE LockedRows'
  BY <1>14 DEF RetryDelete, CliDone, CliIdle
<1>15. ASSUME NEW c \in Clis, RetryEnds(c) PROVE LockedRows'
  BY <1>15 DEF RetryEnds, RetryCrash, RetryFails, CliDone, CliIdle, Fault
<1>16. ASSUME Flush PROVE LockedRows'
  BY <1>16 DEF Flush
<1>17. ASSUME Clear PROVE LockedRows'
  <2>1. \A w \in Workers : pc[w] # "locked"
    BY <1>17 DEF Clear, Locked, Claim
  <2> QED
    BY <1>17, <2>1 DEF Clear
<1> QED
  BY <1>1, <1>2, <1>3, <1>4, <1>5, <1>6, <1>7, <1>8, <1>9, <1>10, <1>11, <1>12, <1>13, <1>14, <1>15, <1>16, <1>17 DEF Next, PopStep, ProcessStep, WorkerFault, RetryStep, RetryFault, Local, RetryEnds

LEMMA ExclusiveStep == ClaimInv /\ [Next]_vars => Exclusive'
<1> SUFFICES ASSUME ClaimInv, [Next]_vars PROVE Exclusive'
  OBVIOUS
<1> USE DEF ClaimInv, tables, workers, history, NoFault, GoTo, Drop, TypeOK, Claims, LockedRows, Exclusive, Present, Holding
<1>1. ASSUME UNCHANGED vars PROVE Exclusive'
  BY <1>1 DEF vars
<1>2. ASSUME Tick PROVE Exclusive'
  <2> SUFFICES ASSUME NEW w \in Workers, Holding(w), job[w].id \notin overrun'
               PROVE  /\ held'[w] < RetryAfter
                      /\ jobs'[job[w].id] # None => jobs'[job[w].id].reserved = held'[w]
                      /\ \A v \in Workers : (pc[v] = "locked" \/ Holding(v)) /\ job[v].id = job[w].id => v = w
    BY <1>2 DEF Tick
  <2> DEFINE i == job[w].id
  <2>1. job[w].id \notin overrun /\ held[w] + 1 < RetryAfter
    BY <1>2, TimeAssumption DEF Tick
  <2>2. held'[w] = held[w] + 1
    BY <1>2, <2>1, TimeAssumption DEF Tick, LeastOf
  <2>3. i \in Stamps
    BY DEF Claim
  <2>4. ASSUME jobs'[i] # None PROVE jobs'[i].reserved = held'[w]
    <3>1. Present(i) /\ jobs[i].reserved = held[w]
      BY <1>2, <2>1, <2>3, <2>4, TickedRow
    <3>2. jobs'[i].reserved = LeastOf(held[w] + 1, Oldest)
      BY <1>2, <2>3, <3>1, TickedRow, NoneAssumption
    <3> QED
      BY <2>1, <2>2, <3>2, TimeAssumption DEF LeastOf, Oldest
  <2> QED
    BY <2>1, <2>2, <2>4
<1>3. ASSUME NEW m \in Msgs, NEW d \in Delays, Dispatch(m, d) PROVE Exclusive'
  BY <1>3, InsertedRow, DelaysInt DEF Dispatch, Claim, Fresh
<1>4. ASSUME NEW m \in Msgs, DispatchFails(m) PROVE Exclusive'
  BY <1>4, JobAssumption DEF DispatchFails, Fault
<1>5. ASSUME NEW w \in Workers, Local(w) PROVE Exclusive'
  <2>1. /\ jobs' = jobs /\ held' = held /\ overrun' = overrun /\ pc'[w] # "locked"
        /\ \A v \in Workers : v # w => pc'[v] = pc[v] /\ job'[v] = job[v]
        /\ Holding(w)' => Holding(w) /\ job'[w] = job[w]
    BY <1>5, LocalFrame
  <2>2. \A v \in Workers : pc'[v] = "locked" \/ Holding(v)' =>
          job'[v] = job[v] /\ (pc[v] = "locked" \/ Holding(v))
    BY <2>1
  <2>3. \A v \in Workers : Holding(v)' => Holding(v)
    BY <2>1
  <2> QED
    BY <2>1, <2>2, <2>3
<1>6. ASSUME NEW w \in Workers, Select(w) PROVE Exclusive'
  <2>1. PICK i \in Stamps :
          /\ Claimable(i, lag[w]) /\ ~Locked(i)
          /\ job'[w].id = i
          /\ \A v \in Workers : v # w => job'[v] = job[v]
    BY <1>6, SelectedRow
  <2>2. /\ jobs' = jobs /\ held' = held /\ overrun' = overrun /\ pc'[w] = "locked"
        /\ \A v \in Workers : v # w => pc'[v] = pc[v]
    BY <1>6 DEF Select
  <2>3. ASSUME NEW v \in Workers, Holding(v), job[v].id = i PROVE i \in overrun
    <3>1. jobs[i] # None /\ (jobs[i].reserved = None \/ jobs[i].reserved - lag[w] >= RetryAfter)
      BY <2>1 DEF Claimable
    <3>2. CASE i \notin overrun
      <4>1. held[v] < RetryAfter /\ jobs[i].reserved = held[v]
        BY <2>3, <3>1, <3>2
      <4>2. held[v] \in Nat /\ lag[w] \in Nat
        OBVIOUS
      <4> QED
        BY <3>1, <4>1, <4>2, TimeAssumption, NoneAssumption
    <3> QED
      BY <3>2
  <2> QED
    BY <2>1, <2>2, <2>3
<1>7. ASSUME NEW w \in Workers, Reserve(w) PROVE Exclusive'
  <2> DEFINE i == job[w].id
  <2>1. /\ i \in Stamps /\ jobs'[i].reserved = lag[w] /\ job'[w].id = i
        /\ \A j \in Stamps : j # i => jobs'[j] = jobs[j]
        /\ \A v \in Workers : v # w => job'[v] = job[v]
    BY <1>7, ReservedRow
  <2>2. /\ pc[w] = "locked" /\ pc'[w] = "claimed" /\ overrun' = overrun
        /\ held'[w] = lag[w] /\ lag[w] < RetryAfter
        /\ \A v \in Workers : v # w => pc'[v] = pc[v] /\ held'[v] = held[v]
    BY <1>7, TimeAssumption DEF Reserve
  <2>3. \A v \in Workers : Holding(v) /\ job[v].id = i => i \in overrun
    BY <2>2
  <2>4. \A v \in Workers : pc[v] = "locked" /\ job[v].id = i => v = w
    BY <2>2
  <2>5. \A v \in Workers : Holding(v) => job[v].id \in Stamps
    BY DEF Claim
  <2> QED
    BY <2>1, <2>2, <2>3, <2>4, <2>5
<1>8. ASSUME NEW w \in Workers, DeleteHandled(w) PROVE Exclusive'
  BY <1>8, DeletedRow DEF DeleteHandled, DeleteRow, Claim
<1>9. ASSUME NEW w \in Workers, Release(w) PROVE Exclusive'
  <2> DEFINE i == job[w].id
  <2>1. \A j \in Stamps : j # i => jobs'[j] = jobs[j]
    BY <1>9, ReleasedRow
  <2>2. /\ Holding(w) /\ pc'[w] = "idle" /\ overrun' = overrun /\ held' = held
        /\ \A v \in Workers : v # w => pc'[v] = pc[v] /\ job'[v] = job[v]
    BY <1>9 DEF Release
  <2>3. \A v \in Workers : v # w /\ Holding(v) /\ job[v].id = i => i \in overrun
    BY <2>2
  <2>4. \A v \in Workers : Holding(v) => job[v].id \in Stamps
    BY DEF Claim
  <2> QED
    BY <2>1, <2>2, <2>3, <2>4
<1>10. ASSUME NEW w \in Workers, RecordFailure(w) PROVE Exclusive'
  BY <1>10, RecordedRow DEF RecordFailure
<1>11. ASSUME NEW w \in Workers, DeleteFailed(w) PROVE Exclusive'
  BY <1>11, DeletedRow DEF DeleteFailed, DeleteRow, Claim
<1>12. ASSUME NEW c \in Clis, NEW f \in Stamps, RetryFetch(c, f) PROVE Exclusive'
  BY <1>12 DEF RetryFetch, Keep
<1>13. ASSUME NEW c \in Clis, RetryInsert(c) PROVE Exclusive'
  <2>1. cli[c].msg \in Msgs /\ InsertJob(cli[c].msg, 0)
    BY <1>13 DEF RetryInsert, Fresh
  <2>2. \A i \in Stamps : i # nextStamp => jobs'[i] = jobs[i]
    BY <2>1, InsertedRow
  <2>3. \A w \in Workers : Holding(w) => job[w].id \in Stamps /\ job[w].id < nextStamp
    BY DEF Claim, Fresh
  <2> QED
    BY <1>13, <2>2, <2>3 DEF RetryInsert
<1>14. ASSUME NEW c \in Clis, RetryDelete(c) PROVE Exclusive'
  BY <1>14 DEF RetryDelete, CliDone, CliIdle
<1>15. ASSUME NEW c \in Clis, RetryEnds(c) PROVE Exclusive'
  BY <1>15 DEF RetryEnds, RetryCrash, RetryFails, CliDone, CliIdle, Fault
<1>16. ASSUME Flush PROVE Exclusive'
  BY <1>16 DEF Flush
<1>17. ASSUME Clear PROVE Exclusive'
  <2>1. /\ \A i \in Stamps : jobs'[i] = None
        /\ pc' = pc /\ job' = job /\ held' = held /\ overrun' = overrun
    BY <1>17 DEF Clear
  <2>2. \A w \in Workers : Holding(w) => job[w].id \in Stamps
    BY DEF Claim
  <2> QED
    BY <2>1, <2>2
<1> QED
  BY <1>1, <1>2, <1>3, <1>4, <1>5, <1>6, <1>7, <1>8, <1>9, <1>10, <1>11, <1>12, <1>13, <1>14, <1>15, <1>16, <1>17 DEF Next, PopStep, ProcessStep, WorkerFault, RetryStep, RetryFault, Local, RetryEnds

-----------------------------------------------------------------------------
LEMMA ClaimInit == Init => ClaimInv
  BY TimeAssumption, JobAssumption
  DEF Init, ClaimInv, TypeOK, Fresh, Claims, LockedRows, Exclusive, Present, Holding,
      PCs, CliState, CliIdle

LEMMA ClaimStep == ClaimInv /\ [Next]_vars => ClaimInv'
  BY TypeStep, FreshStep, ClaimsStep, LockedStep, ExclusiveStep DEF ClaimInv

LEMMA Claimed == Spec => []ClaimInv
  BY ClaimInit, ClaimStep, PTL DEF Spec

\* The columns, locals and counters keep their types: attempts never leaves the
\* range of its column, and no AUTO_INCREMENT id is handed out twice in a row.
THEOREM Typed == Spec => []TypeOK
<1>1. ClaimInv => TypeOK
  BY DEF ClaimInv
<1> QED
  BY <1>1, Claimed, PTL

\* Two workers hold one job row only after an overrun (Worker::pop).
THEOREM ClaimsAreExclusive == Spec => []SharedOnlyAfterOverrun
<1>1. ClaimInv => SharedOnlyAfterOverrun
  BY DEF ClaimInv, Exclusive, SharedOnlyAfterOverrun, Holds
<1> QED
  BY <1>1, Claimed, PTL

-----------------------------------------------------------------------------
(* LossInv is preserved by every step.                                       *)

\* The steps that write the jobs table change no message in it.
SameMessages == \A i \in Stamps : jobs'[i] # None => jobs[i] # None /\ jobs'[i].msg = jobs[i].msg

\* A worker's claim names a row below the next stamp.
LEMMA ClaimIds == ClaimInv => \A v \in Workers : job[v] # None =>
                    job[v].id \in Stamps /\ job[v].id # nextStamp /\ job[v].msg \in Msgs
  BY DEF ClaimInv, TypeOK, Fresh, Claim, Stamps

\* A failed row carries a stamp below the next one.
LEMMA FailedStamps == ClaimInv => \A f \in Stamps : failed[f] # None =>
                        failed[f].stamp \in Int /\ failed[f].stamp # nextStamp
  BY DEF ClaimInv, TypeOK, Fresh, FRow, Stamps

LEMMA IdentityStep == ClaimInv /\ LossInv /\ [Next]_vars => Identity'
<1> SUFFICES ASSUME ClaimInv, LossInv, [Next]_vars PROVE Identity'
  OBVIOUS
<1> USE DEF tables, workers, history, NoFault, GoTo, Drop, LossInv, Identity, SameMessages, Present
<1>1. ASSUME UNCHANGED vars PROVE Identity'
  BY <1>1 DEF vars
<1>2. ASSUME Tick PROVE Identity'
  <2>1. SameMessages
    BY <1>2, TickedRow DEF Present
  <2>2. job' = job /\ cli' = cli /\ failed' = failed
    BY <1>2 DEF Tick
  <2> QED
    BY <2>1, <2>2, ClaimIds
<1>3. ASSUME NEW m \in Msgs, NEW d \in Delays, Dispatch(m, d) PROVE Identity'
  <2>1. InsertJob(m, d) /\ d \in Int
    BY <1>3, DelaysInt DEF Dispatch
  <2>2. \A i \in Stamps : i # nextStamp => jobs'[i] = jobs[i]
    BY <2>1, InsertedRow DEF ClaimInv
  <2>3. job' = job /\ cli' = cli /\ failed' = failed
    BY <1>3 DEF Dispatch
  <2> QED
    BY <2>2, <2>3, ClaimIds
<1>4. ASSUME NEW m \in Msgs, DispatchFails(m) PROVE Identity'
  BY <1>4, JobAssumption DEF DispatchFails, Fault
<1>5. ASSUME NEW w \in Workers, Local(w) PROVE Identity'
  <2>1. /\ jobs' = jobs /\ failed' = failed /\ cli' = cli
        /\ \A v \in Workers : v # w => job'[v] = job[v]
        /\ job'[w] \in {job[w], None}
    BY <1>5, LocalFrame DEF ClaimInv
  <2> QED
    BY <2>1
<1>6. ASSUME NEW w \in Workers, Select(w) PROVE Identity'
  <2>1. PICK i \in Stamps :
          /\ job'[w].id = i /\ job'[w].msg = jobs[i].msg
          /\ \A v \in Workers : v # w => job'[v] = job[v]
    BY <1>6, SelectedRow
  <2>2. jobs' = jobs /\ failed' = failed /\ cli' = cli
    BY <1>6 DEF Select
  <2> QED
    BY <2>1, <2>2
<1>7. ASSUME NEW w \in Workers, Reserve(w) PROVE Identity'
  <2>1. /\ \A i \in Stamps : jobs'[i] # None => jobs[i] # None /\ jobs'[i].msg = jobs[i].msg
        /\ \A v \in Workers : job'[v] # None =>
              job[v] # None /\ job'[v].id = job[v].id /\ job'[v].msg = job[v].msg
    BY <1>7, ReservedRow
  <2>2. failed' = failed /\ cli' = cli
    BY <1>7 DEF Reserve
  <2> QED
    BY <2>1, <2>2, ClaimIds
<1>8. ASSUME NEW w \in Workers, DeleteHandled(w) PROVE Identity'
  <2>1. DeleteRow(w) /\ Holding(w)
    BY <1>8 DEF DeleteHandled, Holding
  <2>2. \A i \in Stamps : jobs'[i] # None => jobs'[i] = jobs[i]
    BY <2>1, DeletedRow
  <2>3. /\ failed' = failed /\ cli' = cli
        /\ \A v \in Workers : job'[v] # None => job'[v] = job[v]
    BY <1>8 DEF DeleteHandled, DeleteRow, ClaimInv, TypeOK
  <2> QED
    BY <2>2, <2>3, ClaimIds
<1>9. ASSUME NEW w \in Workers, Release(w) PROVE Identity'
  <2>1. \A i \in Stamps : jobs'[i] # None => jobs[i] # None /\ jobs'[i].msg = jobs[i].msg
    BY <1>9, ReleasedRow
  <2>2. /\ failed' = failed /\ cli' = cli
        /\ \A v \in Workers : job'[v] # None => job'[v] = job[v]
    BY <1>9 DEF Release, ClaimInv, TypeOK
  <2> QED
    BY <2>1, <2>2, ClaimIds
<1>10. ASSUME NEW w \in Workers, RecordFailure(w) PROVE Identity'
  <2>1. \A f \in Stamps : f # nextFailed => failed'[f] = failed[f]
    BY <1>10, RecordedRow
  <2>2. failed'[nextFailed].stamp = nextStamp
    BY <1>10, RecordedRow
  <2>3. \A c \in Clis : cli[c].at # "idle" => cli[c].stamp # nextStamp
    BY DEF ClaimInv, Fresh, TypeOK, Stamps
  <2>4. /\ jobs' = jobs /\ cli' = cli
        /\ \A v \in Workers : job'[v] # None => job'[v] = job[v]
    BY <1>10 DEF RecordFailure, ClaimInv, TypeOK
  <2> QED
    BY <2>1, <2>2, <2>3, <2>4, FailedStamps
<1>11. ASSUME NEW w \in Workers, DeleteFailed(w) PROVE Identity'
  <2>1. DeleteRow(w) /\ Holding(w)
    BY <1>11 DEF DeleteFailed, Holding
  <2>2. \A i \in Stamps : jobs'[i] # None => jobs'[i] = jobs[i]
    BY <2>1, DeletedRow
  <2>3. /\ failed' = failed /\ cli' = cli
        /\ \A v \in Workers : job'[v] # None => job'[v] = job[v]
    BY <1>11 DEF DeleteFailed, DeleteRow, ClaimInv, TypeOK
  <2> QED
    BY <2>2, <2>3, ClaimIds
<1>12. ASSUME NEW c \in Clis, NEW f \in Stamps, RetryFetch(c, f) PROVE Identity'
  <2>1. jobs' = jobs /\ failed' = failed /\ job' = job
    BY <1>12 DEF RetryFetch
  <2>2. /\ cli'[c].msg = failed[f].msg /\ cli'[c].stamp = failed[f].stamp
        /\ \A b \in Clis : b # c => cli'[b] = cli[b]
    BY <1>12 DEF RetryFetch, Keep, ClaimInv, TypeOK
  <2>3. \A g \in Stamps : failed[g] # None /\ failed[g].stamp = failed[f].stamp =>
          failed[g].msg = failed[f].msg
    BY <1>12 DEF RetryFetch
  <2> QED
    BY <2>1, <2>2, <2>3
<1>13. ASSUME NEW c \in Clis, RetryInsert(c) PROVE Identity'
  <2>1. cli[c].msg \in Msgs /\ InsertJob(cli[c].msg, 0)
    BY <1>13 DEF RetryInsert, ClaimInv, Fresh
  <2>2. \A i \in Stamps : i # nextStamp => jobs'[i] = jobs[i]
    BY <2>1, InsertedRow DEF ClaimInv
  <2>3. /\ job' = job /\ failed' = failed
        /\ \A b \in Clis : /\ cli'[b].at # "idle" => cli[b].at # "idle"
                          /\ cli'[b].msg = cli[b].msg /\ cli'[b].stamp = cli[b].stamp
    BY <1>13 DEF RetryInsert, ClaimInv, TypeOK, CliState
  <2> QED
    BY <2>2, <2>3, ClaimIds
<1>14. ASSUME NEW c \in Clis, RetryDelete(c) PROVE Identity'
  <2>1. /\ jobs' = jobs /\ job' = job
        /\ \A f \in Stamps : failed'[f] # None => failed'[f] = failed[f]
        /\ \A b \in Clis : cli'[b].at # "idle" => cli'[b] = cli[b]
    BY <1>14 DEF RetryDelete, CliDone, CliIdle, ClaimInv, TypeOK
  <2> QED
    BY <2>1
<1>15. ASSUME NEW c \in Clis, RetryEnds(c) PROVE Identity'
  <2>1. /\ jobs' = jobs /\ job' = job /\ failed' = failed
        /\ \A b \in Clis : cli'[b].at # "idle" => cli'[b] = cli[b]
    BY <1>15 DEF RetryEnds, RetryCrash, RetryFails, CliDone, CliIdle, ClaimInv, TypeOK
  <2> QED
    BY <2>1
<1>16. ASSUME Flush PROVE Identity'
  BY <1>16 DEF Flush
<1>17. ASSUME Clear PROVE Identity'
  <2>1. job' = job /\ failed' = failed /\ cli' = cli /\ \A i \in Stamps : jobs'[i] = None
    BY <1>17 DEF Clear
  <2> QED
    BY <2>1, ClaimIds
<1> QED
  BY <1>1, <1>2, <1>3, <1>4, <1>5, <1>6, <1>7, <1>8, <1>9, <1>10, <1>11, <1>12, <1>13, <1>14, <1>15, <1>16, <1>17 DEF Next, PopStep, ProcessStep, WorkerFault, RetryStep, RetryFault, Local, RetryEnds

\* No step makes a safe message unsafe: the copy it deletes is older than another
\* one, or its message is done or excused.
LEMMA SafeKept == ClaimInv /\ LossInv /\ [Next]_vars => \A n \in Msgs : \A s \in Nat : SafeAbove(n, s) => SafeAbove(n, s)'
<1> SUFFICES ASSUME ClaimInv, LossInv, [Next]_vars PROVE \A n \in Msgs : \A s \in Nat : SafeAbove(n, s) => SafeAbove(n, s)'
  OBVIOUS
<1> USE DEF tables, workers, history, NoFault, GoTo, Drop, LossInv, SafeAbove, Present, Covered, Identity
<1>1. ASSUME UNCHANGED vars PROVE \A n \in Msgs : \A s \in Nat : SafeAbove(n, s) => SafeAbove(n, s)'
  BY <1>1 DEF vars
<1>2. ASSUME Tick PROVE \A n \in Msgs : \A s \in Nat : SafeAbove(n, s) => SafeAbove(n, s)'
  <2>1. \A i \in Stamps : jobs[i] # None => jobs'[i] # None /\ jobs'[i].msg = jobs[i].msg
    BY <1>2, TickedRow
  <2>2. failed' = failed /\ done' = done /\ excused' = excused
    BY <1>2 DEF Tick
  <2> QED
    BY <2>1, <2>2
<1>3. ASSUME NEW m \in Msgs, NEW d \in Delays, Dispatch(m, d) PROVE \A n \in Msgs : \A s \in Nat : SafeAbove(n, s) => SafeAbove(n, s)'
  <2>1. InsertJob(m, d) /\ d \in Int
    BY <1>3, DelaysInt DEF Dispatch
  <2>2. jobs[nextStamp] = None /\ \A i \in Stamps : i # nextStamp => jobs'[i] = jobs[i]
    BY <2>1, InsertedRow DEF ClaimInv
  <2>3. failed' = failed /\ done' = done /\ excused' = excused
    BY <1>3 DEF Dispatch
  <2> QED
    BY <2>2, <2>3
<1>4. ASSUME NEW m \in Msgs, DispatchFails(m) PROVE \A n \in Msgs : \A s \in Nat : SafeAbove(n, s) => SafeAbove(n, s)'
  <2>1. jobs' = jobs /\ failed' = failed /\ done' = done /\ excused \subseteq excused'
    BY <1>4 DEF DispatchFails
  <2> QED
    BY <2>1
<1>5. ASSUME NEW w \in Workers, Local(w) PROVE \A n \in Msgs : \A s \in Nat : SafeAbove(n, s) => SafeAbove(n, s)'
  <2>1. jobs' = jobs /\ failed' = failed /\ done \subseteq done' /\ excused \subseteq excused'
    BY <1>5, LocalFrame DEF ClaimInv
  <2> QED
    BY <2>1
<1>6. ASSUME NEW w \in Workers, Select(w) PROVE \A n \in Msgs : \A s \in Nat : SafeAbove(n, s) => SafeAbove(n, s)'
  BY <1>6, SelectedRow DEF Select
<1>7. ASSUME NEW w \in Workers, Reserve(w) PROVE \A n \in Msgs : \A s \in Nat : SafeAbove(n, s) => SafeAbove(n, s)'
  <2>1. \A i \in Stamps : jobs[i] # None => jobs'[i] # None /\ jobs'[i].msg = jobs[i].msg
    BY <1>7, ReservedRow
  <2>2. failed' = failed /\ done' = done /\ excused' = excused
    BY <1>7 DEF Reserve
  <2> QED
    BY <2>1, <2>2
<1>8. ASSUME NEW w \in Workers, DeleteHandled(w) PROVE \A n \in Msgs : \A s \in Nat : SafeAbove(n, s) => SafeAbove(n, s)'
  <2>1. DeleteRow(w) /\ Holding(w)
    BY <1>8 DEF DeleteHandled, Holding
  <2>2. job[w] # None /\ \A i \in Stamps : i # job[w].id => jobs'[i] = jobs[i]
    BY <2>1, DeletedRow
  <2>3. jobs[job[w].id] # None => jobs[job[w].id].msg \in done
    BY <1>8, <2>2 DEF DeleteHandled
  <2>4. failed' = failed /\ done' = done /\ excused' = excused
    BY <1>8 DEF DeleteHandled, DeleteRow
  <2> QED
    BY <2>2, <2>3, <2>4
<1>9. ASSUME NEW w \in Workers, Release(w) PROVE \A n \in Msgs : \A s \in Nat : SafeAbove(n, s) => SafeAbove(n, s)'
  <2>1. \A i \in Stamps : jobs[i] # None => jobs'[i] # None /\ jobs'[i].msg = jobs[i].msg
    BY <1>9, ReleasedRow
  <2>2. failed' = failed /\ done' = done /\ excused' = excused
    BY <1>9 DEF Release
  <2> QED
    BY <2>1, <2>2
<1>10. ASSUME NEW w \in Workers, RecordFailure(w) PROVE \A n \in Msgs : \A s \in Nat : SafeAbove(n, s) => SafeAbove(n, s)'
  <2>1. failed[nextFailed] = None /\ \A f \in Stamps : f # nextFailed => failed'[f] = failed[f]
    BY <1>10, RecordedRow
  <2>2. jobs' = jobs /\ done' = done /\ excused' = excused
    BY <1>10 DEF RecordFailure
  <2> QED
    BY <2>1, <2>2
<1>11. ASSUME NEW w \in Workers, DeleteFailed(w) PROVE \A n \in Msgs : \A s \in Nat : SafeAbove(n, s) => SafeAbove(n, s)'
  <2>1. DeleteRow(w) /\ Holding(w)
    BY <1>11 DEF DeleteFailed, Holding
  <2> DEFINE r == job[w].id
  <2>2. job[w] # None /\ r \in Stamps /\ \A i \in Stamps : i # r => jobs'[i] = jobs[i]
    BY <2>1, DeletedRow
  <2>3. failed' = failed /\ done' = done /\ excused' = excused
    BY <1>11 DEF DeleteFailed, DeleteRow
  <2>4. SafeAbove(job[w].msg, r) /\ (jobs[r] # None => jobs[r].msg = job[w].msg)
    BY <1>11, <2>2 DEF DeleteFailed
  <2>5. \A i \in Stamps : i \in Int
    BY DEF Stamps
  <2>6. \A f \in Stamps : failed[f] # None => failed[f].stamp \in Int
    BY FailedStamps
  <2> QED
    BY <2>2, <2>3, <2>4, <2>5, <2>6
<1>12. ASSUME NEW c \in Clis, NEW f \in Stamps, RetryFetch(c, f) PROVE \A n \in Msgs : \A s \in Nat : SafeAbove(n, s) => SafeAbove(n, s)'
  BY <1>12 DEF RetryFetch, Keep
<1>13. ASSUME NEW c \in Clis, RetryInsert(c) PROVE \A n \in Msgs : \A s \in Nat : SafeAbove(n, s) => SafeAbove(n, s)'
  <2>1. cli[c].msg \in Msgs /\ InsertJob(cli[c].msg, 0)
    BY <1>13 DEF RetryInsert, ClaimInv, Fresh
  <2>2. jobs[nextStamp] = None /\ \A i \in Stamps : i # nextStamp => jobs'[i] = jobs[i]
    BY <2>1, InsertedRow DEF ClaimInv
  <2>3. failed' = failed /\ done' = done /\ excused' = excused
    BY <1>13 DEF RetryInsert
  <2> QED
    BY <2>2, <2>3
<1>14. ASSUME NEW c \in Clis, RetryDelete(c) PROVE \A n \in Msgs : \A s \in Nat : SafeAbove(n, s) => SafeAbove(n, s)'
  <2> DEFINE f == cli[c].fid
  <2>1. f \in Stamps /\ cli[c].stamp \in Int /\ cli[c].at = "inserted"
    BY <1>14 DEF RetryDelete, ClaimInv, Fresh, Stamps
  <2>2. /\ jobs' = jobs /\ done' = done /\ excused \subseteq excused'
        /\ \A g \in Stamps : g # f => failed'[g] = failed[g]
        /\ failed[f] # None /\ failed[f].stamp # cli[c].stamp => failed[f].msg \in excused'
    BY <1>14 DEF RetryDelete, ClaimInv, TypeOK
  <2>3. SafeAbove(cli[c].msg, cli[c].stamp)
    BY <2>1
  <2>4. failed[f] # None /\ failed[f].stamp = cli[c].stamp => failed[f].msg = cli[c].msg
    BY <2>1
  <2>5. \A i \in Stamps : i \in Int
    BY DEF Stamps
  <2>6. \A g \in Stamps : failed[g] # None => failed[g].stamp \in Int
    BY FailedStamps
  <2> QED
    BY <2>1, <2>2, <2>3, <2>4, <2>5, <2>6
<1>15. ASSUME NEW c \in Clis, RetryEnds(c) PROVE \A n \in Msgs : \A s \in Nat : SafeAbove(n, s) => SafeAbove(n, s)'
  <2>1. jobs' = jobs /\ failed' = failed /\ done' = done /\ excused' = excused
    BY <1>15 DEF RetryEnds, RetryCrash, RetryFails
  <2> QED
    BY <2>1
<1>16. ASSUME Flush PROVE \A n \in Msgs : \A s \in Nat : SafeAbove(n, s) => SafeAbove(n, s)'
  <2>1. /\ jobs' = jobs /\ done' = done /\ excused \subseteq excused'
        /\ \A f \in Stamps : failed[f] # None => failed[f].msg \in excused'
    BY <1>16 DEF Flush
  <2> QED
    BY <2>1
<1>17. ASSUME Clear PROVE \A n \in Msgs : \A s \in Nat : SafeAbove(n, s) => SafeAbove(n, s)'
  <2>1. /\ failed' = failed /\ done' = done /\ excused \subseteq excused'
        /\ \A i \in Stamps : jobs[i] # None => jobs[i].msg \in excused'
    BY <1>17 DEF Clear
  <2> QED
    BY <2>1
<1> QED
  BY <1>1, <1>2, <1>3, <1>4, <1>5, <1>6, <1>7, <1>8, <1>9, <1>10, <1>11, <1>12, <1>13, <1>14, <1>15, <1>16, <1>17 DEF Next, PopStep, ProcessStep, WorkerFault, RetryStep, RetryFault, Local, RetryEnds

\* The messages and stamps Covered speaks of are ones SafeKept covers.
LEMMA SafeNames ==
  ASSUME ClaimInv
  PROVE  /\ dispatched \subseteq Msgs /\ 0 \in Nat
         /\ \A w \in Workers : Holding(w) => job[w].msg \in Msgs /\ job[w].id \in Nat
         /\ \A w \in Workers : pc[w] \in {"handled", "recorded"} => Holding(w)
         /\ \A c \in Clis : cli[c].at = "inserted" => cli[c].msg \in Msgs /\ cli[c].stamp \in Nat
  BY DEF ClaimInv, TypeOK, Claims, Fresh, Claim, Stamps, Holding

LEMMA CoveredStep == ClaimInv /\ LossInv /\ [Next]_vars => Covered'
<1> SUFFICES ASSUME ClaimInv, LossInv, [Next]_vars PROVE Covered'
  OBVIOUS
<1> USE DEF tables, workers, history, NoFault, GoTo, Drop, LossInv, Covered
<1>1. ASSUME UNCHANGED vars PROVE Covered'
  BY <1>1 DEF vars, SafeAbove, Present
<1>2. ASSUME Tick PROVE Covered'
  BY <1>2, SafeKept, SafeNames DEF Tick
<1>3. ASSUME NEW m \in Msgs, NEW d \in Delays, Dispatch(m, d) PROVE Covered'
  <2>1. InsertJob(m, d) /\ d \in Int
    BY <1>3, DelaysInt DEF Dispatch
  <2>2. nextStamp \in Stamps /\ jobs'[nextStamp] # None /\ jobs'[nextStamp].msg = m
    BY <2>1, InsertedRow DEF ClaimInv
  <2>3. SafeAbove(m, 0)'
    BY <2>2 DEF SafeAbove, Present, Stamps
  <2> QED
    BY <1>3, <2>3, SafeKept, SafeNames DEF Dispatch
<1>4. ASSUME NEW m \in Msgs, DispatchFails(m) PROVE Covered'
  <2>1. SafeAbove(m, 0)'
    BY <1>4 DEF DispatchFails, SafeAbove
  <2> QED
    BY <1>4, <2>1, SafeKept, SafeNames DEF DispatchFails
<1>5. ASSUME NEW w \in Workers, Local(w) PROVE Covered'
  <2>1. /\ cli' = cli /\ dispatched' = dispatched
        /\ done \subseteq done'
        /\ \A v \in Workers : v # w => pc'[v] = pc[v] /\ job'[v] = job[v]
        /\ Holding(w)' => Holding(w) /\ job'[w] = job[w]
        /\ pc'[w] = "handled" => job[w].msg \in done'
        /\ pc'[w] = "recorded" => job[w].msg \in excused'
    BY <1>5, LocalFrame DEF ClaimInv
  <2>2. pc'[w] \in {"handled", "recorded"} => job'[w] = job[w]
    BY <2>1 DEF Holding
  <2>3. pc'[w] = "recorded" => SafeAbove(job[w].msg, job[w].id)'
    BY <2>1, <2>2 DEF SafeAbove
  <2> QED
    BY <2>1, <2>2, <2>3, SafeKept, SafeNames
<1>6. ASSUME NEW w \in Workers, Select(w) PROVE Covered'
  <2>1. /\ pc'[w] = "locked" /\ cli' = cli /\ dispatched' = dispatched /\ done' = done
        /\ \A v \in Workers : v # w => pc'[v] = pc[v]
    BY <1>6 DEF Select, ClaimInv, TypeOK
  <2>2. \A v \in Workers : v # w => job'[v] = job[v]
    BY <1>6, SelectedRow
  <2> QED
    BY <2>1, <2>2, SafeKept, SafeNames
<1>7. ASSUME NEW w \in Workers, Reserve(w) PROVE Covered'
  <2>1. /\ pc'[w] = "claimed" /\ cli' = cli /\ dispatched' = dispatched /\ done' = done
        /\ \A v \in Workers : v # w => pc'[v] = pc[v]
    BY <1>7 DEF Reserve, ClaimInv, TypeOK
  <2>2. \A v \in Workers : v # w => job'[v] = job[v]
    BY <1>7, ReservedRow
  <2> QED
    BY <2>1, <2>2, SafeKept, SafeNames
<1>8. ASSUME NEW w \in Workers, DeleteHandled(w) PROVE Covered'
  <2>1. /\ pc'[w] = "idle" /\ cli' = cli /\ dispatched' = dispatched /\ done' = done
        /\ \A v \in Workers : v # w => pc'[v] = pc[v] /\ job'[v] = job[v]
    BY <1>8 DEF DeleteHandled, DeleteRow, ClaimInv, TypeOK
  <2> QED
    BY <2>1, SafeKept, SafeNames
<1>9. ASSUME NEW w \in Workers, Release(w) PROVE Covered'
  <2>1. /\ pc'[w] = "idle" /\ cli' = cli /\ dispatched' = dispatched /\ done' = done
        /\ \A v \in Workers : v # w => pc'[v] = pc[v] /\ job'[v] = job[v]
    BY <1>9 DEF Release, DeleteRow, ClaimInv, TypeOK
  <2> QED
    BY <2>1, SafeKept, SafeNames
<1>10. ASSUME NEW w \in Workers, RecordFailure(w) PROVE Covered'
  <2>1. /\ job[w] # None /\ nextFailed \in Stamps /\ failed'[nextFailed] # None
        /\ failed'[nextFailed].msg = job[w].msg /\ failed'[nextFailed].stamp = nextStamp
    BY <1>10, RecordedRow
  <2>2. nextStamp > job[w].id
    BY <2>1 DEF ClaimInv, TypeOK, Fresh, Claim, Stamps
  <2>3. SafeAbove(job[w].msg, job[w].id)'
    BY <1>10, <2>1, <2>2 DEF RecordFailure, SafeAbove
  <2>4. /\ pc'[w] = "recorded" /\ cli' = cli /\ dispatched' = dispatched /\ done' = done
        /\ job' = job /\ \A v \in Workers : v # w => pc'[v] = pc[v]
    BY <1>10 DEF RecordFailure, ClaimInv, TypeOK
  <2> QED
    BY <2>3, <2>4, SafeKept, SafeNames
<1>11. ASSUME NEW w \in Workers, DeleteFailed(w) PROVE Covered'
  <2>1. /\ pc'[w] = "idle" /\ cli' = cli /\ dispatched' = dispatched /\ done' = done
        /\ \A v \in Workers : v # w => pc'[v] = pc[v] /\ job'[v] = job[v]
    BY <1>11 DEF DeleteFailed, DeleteRow, ClaimInv, TypeOK
  <2> QED
    BY <2>1, SafeKept, SafeNames
<1>12. ASSUME NEW c \in Clis, NEW f \in Stamps, RetryFetch(c, f) PROVE Covered'
  <2>1. /\ pc' = pc /\ job' = job /\ dispatched' = dispatched /\ done' = done
        /\ \A b \in Clis : cli'[b].at = "inserted" => cli'[b] = cli[b]
    BY <1>12 DEF RetryFetch, Keep, ClaimInv, TypeOK
  <2> QED
    BY <2>1, SafeKept, SafeNames
<1>13. ASSUME NEW c \in Clis, RetryInsert(c) PROVE Covered'
  <2>1. /\ cli[c].msg \in Msgs /\ InsertJob(cli[c].msg, 0)
        /\ cli[c].stamp \in Int /\ nextStamp \in Int /\ nextStamp > cli[c].stamp
    BY <1>13 DEF RetryInsert, ClaimInv, TypeOK, Fresh, Stamps
  <2>2. nextStamp \in Stamps /\ jobs'[nextStamp] # None /\ jobs'[nextStamp].msg = cli[c].msg
    BY <2>1, InsertedRow DEF ClaimInv
  <2>3. cli'[c].msg = cli[c].msg /\ cli'[c].stamp = cli[c].stamp
    BY <1>13 DEF RetryInsert, ClaimInv, TypeOK, CliState
  <2>4. SafeAbove(cli[c].msg, cli[c].stamp)'
    BY <2>1, <2>2, <2>3 DEF SafeAbove, Present
  <2>5. /\ pc' = pc /\ job' = job /\ dispatched' = dispatched /\ done' = done
        /\ cli'[c].msg = cli[c].msg /\ cli'[c].stamp = cli[c].stamp
        /\ \A b \in Clis : b # c => cli'[b] = cli[b]
    BY <1>13 DEF RetryInsert, ClaimInv, TypeOK, CliState
  <2> QED
    BY <2>4, <2>5, SafeKept, SafeNames
<1>14. ASSUME NEW c \in Clis, RetryDelete(c) PROVE Covered'
  <2>1. /\ pc' = pc /\ job' = job /\ dispatched' = dispatched /\ done' = done
        /\ \A b \in Clis : cli'[b].at = "inserted" => cli'[b] = cli[b]
    BY <1>14 DEF RetryDelete, CliDone, CliIdle, ClaimInv, TypeOK
  <2> QED
    BY <2>1, SafeKept, SafeNames
<1>15. ASSUME NEW c \in Clis, RetryEnds(c) PROVE Covered'
  <2>1. /\ pc' = pc /\ job' = job /\ dispatched' = dispatched /\ done' = done
        /\ \A b \in Clis : cli'[b].at = "inserted" => cli'[b] = cli[b]
    BY <1>15 DEF RetryEnds, RetryCrash, RetryFails, CliDone, CliIdle, ClaimInv, TypeOK
  <2> QED
    BY <2>1, SafeKept, SafeNames
<1>16. ASSUME Flush PROVE Covered'
  BY <1>16, SafeKept, SafeNames DEF Flush
<1>17. ASSUME Clear PROVE Covered'
  BY <1>17, SafeKept, SafeNames DEF Clear
<1> QED
  BY <1>1, <1>2, <1>3, <1>4, <1>5, <1>6, <1>7, <1>8, <1>9, <1>10, <1>11, <1>12, <1>13, <1>14, <1>15, <1>16, <1>17 DEF Next, PopStep, ProcessStep, WorkerFault, RetryStep, RetryFault, Local, RetryEnds

-----------------------------------------------------------------------------
LEMMA LossInit == Init => LossInv
  BY DEF Init, LossInv, Identity, Covered, CliIdle

LEMMA NothingLost == Spec => [](ClaimInv /\ LossInv)
<1>1. Init => ClaimInv /\ LossInv
  BY ClaimInit, LossInit
<1>2. (ClaimInv /\ LossInv) /\ [Next]_vars => (ClaimInv /\ LossInv)'
  BY ClaimStep, IdentityStep, CoveredStep DEF LossInv
<1> QED
  BY <1>1, <1>2, PTL DEF Spec

\* No job is lost silently, whatever the number of workers, operators, failed
\* statements, crashes and flushes (Dispatcher, Worker).
THEOREM JobsAreNotLost == Spec => []NoSilentLoss
<1>1. ClaimInv /\ LossInv => NoSilentLoss
  BY DEF LossInv, Covered, SafeAbove, NoSilentLoss, InJobs, InFailed
<1> QED
  BY <1>1, NothingLost, PTL

-----------------------------------------------------------------------------
(* The inductive invariant of results: what a row has led to it leads to no  *)
(* second time, unless a statement failed, a process died or time ran out.   *)

InHand(w) == pc[w] = "locked" \/ Holding(w)

\* A job row whose worker is about to delete it, or that is gone and in nobody's hand.
Settled(i, at) ==
  \/ \E w \in Workers : pc[w] = at /\ job[w].id = i
  \/ ~Present(i) /\ \A w \in Workers : InHand(w) => job[w].id # i

\* A row that was handled, or has a failure record, is settled.
Results ==
  /\ \A i \in handled : i < nextStamp
  /\ \A f \in Stamps : failed[f] # None => failed[f].origin < nextStamp
  /\ Quiet =>
       /\ \A i \in handled \ overrun : Settled(i, "handled")
       /\ \A f \in Stamps : failed[f] # None /\ failed[f].origin \notin overrun =>
            Settled(failed[f].origin, "recorded")

ResultInv == Results /\ HandledOnceWhenQuiet /\ OneFailureRecordWhenQuiet

\* Faults and crashes are counted, and the count never falls.
LEMMA QuietStays == ASSUME TypeOK, [Next]_vars, Quiet' PROVE Quiet
<1> USE JobAssumption DEF Quiet, NoFault, Fault, history, tables, workers
<1>1. faults \in Nat /\ crashes \in Nat
  BY DEF TypeOK
<1>2. CASE UNCHANGED vars
  BY <1>2 DEF vars
<1>3. CASE Tick \/ Flush \/ Clear
  BY <1>3 DEF Tick, Flush, Clear
<1>4. ASSUME NEW m \in Msgs, (\E d \in Delays : Dispatch(m, d)) \/ DispatchFails(m) PROVE Quiet
  BY <1>1, <1>4 DEF Dispatch, DispatchFails
<1>5. ASSUME NEW w \in Workers, Start(w) \/ Quit(w) \/ PopStep(w) PROVE Quiet
  BY <1>5 DEF Start, Quit, PopStep, ReadClock, Select, FindNothing, Reserve, ReserveRejected
<1>6. ASSUME NEW w \in Workers, ProcessStep(w) PROVE Quiet
  BY <1>6 DEF ProcessStep, DecodeFails, StartHandle, HandleReturns, HandleThrows, CallFailed,
              DeleteHandled, Release, RecordFailure, DeleteFailed
<1>7. ASSUME NEW w \in Workers, WorkerFault(w) PROVE Quiet
  BY <1>1, <1>7 DEF WorkerFault, PopFault, DeleteHandledFails, ReleaseFails, RecordFailureFails,
                    DeleteFailedFails, Crash
<1>8. ASSUME NEW c \in Clis, RetryStep(c) PROVE Quiet
  BY <1>8 DEF RetryStep, RetryFetch, RetryInsert, RetryDelete
<1>9. ASSUME NEW c \in Clis, RetryFault(c) PROVE Quiet
  BY <1>1, <1>9 DEF RetryFault, RetryCrash, RetryFails
<1> QED
  BY <1>2, <1>3, <1>4, <1>5, <1>6, <1>7, <1>8, <1>9 DEF Next

LEMMA NoFaults ==
  ASSUME TypeOK, Quiet'
  PROVE  ~Fault /\ ~(crashes < MaxCrashes /\ crashes' = crashes + 1)
  BY JobAssumption DEF TypeOK, Fault, Quiet

\* A local step in quiet times, which never leaves a row before its result.
LEMMA QuietLocal ==
  ASSUME ClaimInv, NEW w \in Workers, Local(w), Quiet'
  PROVE  /\ pc[w] \notin {"handled", "recorded"} /\ pc'[w] # "recorded"
         /\ InHand(w)' => InHand(w) /\ job'[w] = job[w]
         /\ \A v \in Workers : v # w => pc'[v] = pc[v] /\ job'[v] = job[v] /\ (InHand(v)' <=> InHand(v))
<1> USE DEF ClaimInv, TypeOK, Claims, Holding, InHand, tables, workers, history, GoTo, Drop, PCs
<1>1. CASE Start(w) \/ Quit(w) \/ ReadClock(w) \/ FindNothing(w)
  BY <1>1 DEF Start, Quit, ReadClock, FindNothing
<1>2. CASE ReserveRejected(w) \/ DecodeFails(w)
  BY <1>2 DEF ReserveRejected, DecodeFails
<1>3. CASE StartHandle(w) \/ HandleReturns(w) \/ HandleThrows(w) \/ CallFailed(w)
  BY <1>3 DEF StartHandle, Restored, HandleReturns, HandleThrows, CallFailed
<1>4. CASE PopFault(w) \/ DeleteHandledFails(w) \/ ReleaseFails(w) \/ RecordFailureFails(w)
           \/ DeleteFailedFails(w) \/ Crash(w)
  BY <1>4, NoFaults DEF PopFault, DeleteHandledFails, ReleaseFails, RecordFailureFails,
                        DeleteFailedFails, Crash
<1> QED
  BY <1>1, <1>2, <1>3, <1>4 DEF Local

\* What is settled stays so as long as the row is not inserted or taken in hand, and whoever
\* is about to delete it does.
LEMMA SettledFrame ==
  ASSUME NEW i, NEW at, Settled(i, at),
         Present(i)' => Present(i),
         \A v \in Workers : InHand(v)' /\ job'[v].id = i => InHand(v) /\ job[v].id = i,
         \A v \in Workers : pc[v] = at /\ job[v].id = i => pc'[v] = at /\ job'[v].id = i
  PROVE  Settled(i, at)'
  BY DEF Settled

LEMMA SettledStep ==
  ASSUME ClaimInv, [Next]_vars, Quiet', NEW at \in {"handled", "recorded"}, NEW i \in Stamps,
         i < nextStamp, i \notin overrun', Settled(i, at)
  PROVE  Settled(i, at)'
<1> USE DEF tables, workers, history, NoFault, GoTo, Drop
<1>0. i # nextStamp /\ \A v \in Workers : pc[v] = at => Holding(v) /\ InHand(v)
  BY DEF ClaimInv, TypeOK, Stamps, Holding, InHand
<1>1. CASE UNCHANGED vars
  BY <1>1 DEF vars, Settled, Present, InHand, Holding
<1>2. CASE Tick
  <2>1. Present(i)' => Present(i)
    BY <1>2, TickedRow DEF Present
  <2>2. pc' = pc /\ job' = job
    BY <1>2 DEF Tick
  <2> QED
    BY <2>1, <2>2, SettledFrame DEF InHand, Holding
<1>3. ASSUME NEW m \in Msgs, NEW d \in Delays, Dispatch(m, d) PROVE Settled(i, at)'
  <2>1. InsertJob(m, d) /\ d \in Int
    BY <1>3, DelaysInt DEF Dispatch
  <2>2. jobs'[i] = jobs[i]
    BY <1>0, <2>1, InsertedRow DEF ClaimInv
  <2>3. pc' = pc /\ job' = job
    BY <1>3 DEF Dispatch
  <2> QED
    BY <2>2, <2>3, SettledFrame DEF InHand, Holding, Present
<1>4. ASSUME NEW m \in Msgs, DispatchFails(m) PROVE Settled(i, at)'
  BY <1>4, NoFaults DEF DispatchFails, ClaimInv
<1>5. ASSUME NEW w \in Workers, Local(w) PROVE Settled(i, at)'
  <2>1. jobs' = jobs
    BY <1>5, LocalFrame DEF ClaimInv
  <2>2. \A v \in Workers : /\ InHand(v)' => InHand(v) /\ job'[v] = job[v]
                           /\ pc[v] = at => pc'[v] = at /\ job'[v] = job[v]
    BY <1>5, QuietLocal
  <2> QED
    BY <2>1, <2>2, SettledFrame DEF Present
<1>6. ASSUME NEW w \in Workers, Select(w) PROVE Settled(i, at)'
  <2>1. PICK j \in Stamps : Present(j) /\ job'[w].id = j /\ \A v \in Workers : v # w => job'[v] = job[v]
    BY <1>6, SelectedRow DEF Claimable
  <2>2. /\ jobs' = jobs /\ pc[w] = "polled" /\ pc'[w] = "locked"
        /\ \A v \in Workers : v # w => pc'[v] = pc[v]
    BY <1>6 DEF Select, ClaimInv, TypeOK
  <2>3. CASE \E v \in Workers : pc[v] = at /\ job[v].id = i
    BY <2>1, <2>2, <2>3 DEF Settled
  <2>4. CASE ~Present(i) /\ \A v \in Workers : InHand(v) => job[v].id # i
    BY <2>1, <2>2, <2>4 DEF Settled, InHand, Holding, Present
  <2> QED
    BY <2>3, <2>4 DEF Settled
<1>7. ASSUME NEW w \in Workers, Reserve(w) PROVE Settled(i, at)'
  <2>1. /\ Present(i)' => Present(i)
        /\ \A v \in Workers : job'[v].id = job[v].id
    BY <1>7, ReservedRow DEF Present
  <2>2. /\ pc[w] = "locked" /\ pc'[w] = "claimed"
        /\ \A v \in Workers : v # w => pc'[v] = pc[v]
    BY <1>7 DEF Reserve, ClaimInv, TypeOK
  <2> QED
    BY <2>1, <2>2, SettledFrame DEF InHand, Holding
<1>8. ASSUME NEW w \in Workers, DeleteRow(w), Holding(w), GoTo(w, "idle"), Drop(w), UNCHANGED overrun
      PROVE  Settled(i, at)'
  <2>1. /\ jobs'[job[w].id] = None
        /\ \A j \in Stamps : j # job[w].id => jobs'[j] = jobs[j]
    BY <1>8, DeletedRow
  <2>2. /\ pc'[w] = "idle" /\ job'[w] = None
        /\ \A v \in Workers : v # w => pc'[v] = pc[v] /\ job'[v] = job[v]
    BY <1>8 DEF ClaimInv, TypeOK
  <2>3. CASE job[w].id = i
    <3>1. \A v \in Workers : InHand(v) /\ job[v].id = i => v = w
      BY <1>8, <2>3 DEF ClaimInv, Exclusive, InHand
    <3> QED
      BY <2>1, <2>2, <2>3, <3>1 DEF Settled, Present, InHand, Holding
  <2>4. CASE job[w].id # i
    BY <2>1, <2>2, <2>4, SettledFrame DEF Present, InHand, Holding
  <2> QED
    BY <2>3, <2>4
<1>9. ASSUME NEW w \in Workers, DeleteHandled(w) \/ DeleteFailed(w) PROVE Settled(i, at)'
  BY <1>8, <1>9 DEF DeleteHandled, DeleteFailed, Holding
<1>10. ASSUME NEW w \in Workers, Release(w) PROVE Settled(i, at)'
  <2>1. Present(i)' => Present(i)
    BY <1>10, ReleasedRow DEF Present
  <2>2. /\ pc[w] = "deciding" /\ pc'[w] = "idle"
        /\ \A v \in Workers : v # w => pc'[v] = pc[v] /\ job'[v] = job[v]
    BY <1>10 DEF Release, ClaimInv, TypeOK
  <2> QED
    BY <2>1, <2>2, SettledFrame DEF InHand, Holding
<1>11. ASSUME NEW w \in Workers, RecordFailure(w) PROVE Settled(i, at)'
  <2>1. /\ jobs' = jobs /\ job' = job /\ pc[w] = "deciding" /\ pc'[w] = "recorded"
        /\ \A v \in Workers : v # w => pc'[v] = pc[v]
    BY <1>11 DEF RecordFailure, ClaimInv, TypeOK
  <2> QED
    BY <2>1, SettledFrame DEF InHand, Holding, Present
<1>12. ASSUME NEW c \in Clis, RetryInsert(c) PROVE Settled(i, at)'
  <2>1. cli[c].msg \in Msgs /\ InsertJob(cli[c].msg, 0)
    BY <1>12 DEF RetryInsert, ClaimInv, Fresh
  <2>2. jobs'[i] = jobs[i]
    BY <1>0, <2>1, InsertedRow DEF ClaimInv
  <2>3. pc' = pc /\ job' = job
    BY <1>12 DEF RetryInsert
  <2> QED
    BY <2>2, <2>3, SettledFrame DEF InHand, Holding, Present
<1>13. ASSUME NEW c \in Clis,
              (\E f \in Stamps : RetryFetch(c, f)) \/ RetryDelete(c) \/ RetryEnds(c)
       PROVE  Settled(i, at)'
  <2>1. jobs' = jobs /\ pc' = pc /\ job' = job
    BY <1>13 DEF RetryFetch, RetryDelete, RetryEnds, RetryCrash, RetryFails
  <2> QED
    BY <2>1, SettledFrame DEF InHand, Holding, Present
<1>14. CASE Flush \/ Clear
  <2>1. pc' = pc /\ job' = job /\ (jobs' = jobs \/ jobs'[i] = None)
    BY <1>14 DEF Flush, Clear
  <2> QED
    BY <2>1, SettledFrame DEF InHand, Holding, Present
<1> QED
  BY <1>1, <1>2, <1>3, <1>4, <1>5, <1>6, <1>7, <1>9, <1>10, <1>11, <1>12, <1>13, <1>14
     DEF Next, PopStep, ProcessStep, WorkerFault, RetryStep, RetryFault, Local, RetryEnds
\* Only the end of handle() adds to what was handled, and only time to what is overrun.
LEMMA HandledChange ==
  ASSUME ClaimInv, [Next]_vars
  PROVE  /\ overrun \subseteq overrun'
         /\ \/ handled' = handled /\ rehandled' = rehandled
            \/ \E w \in Workers : HandleReturns(w)
<1> USE DEF tables, workers, history
<1>1. CASE UNCHANGED vars \/ Tick \/ Flush \/ Clear
  BY <1>1 DEF vars, Tick, Flush, Clear
<1>2. ASSUME NEW m \in Msgs, (\E d \in Delays : Dispatch(m, d)) \/ DispatchFails(m)
      PROVE  overrun' = overrun /\ handled' = handled /\ rehandled' = rehandled
  BY <1>2 DEF Dispatch, DispatchFails
<1>3. ASSUME NEW w \in Workers, Start(w) \/ Quit(w) \/ PopStep(w)
      PROVE  overrun' = overrun /\ handled' = handled /\ rehandled' = rehandled
  BY <1>3 DEF Start, Quit, PopStep, ReadClock, Select, FindNothing, Reserve, ReserveRejected
<1>4. ASSUME NEW w \in Workers, ProcessStep(w)
      PROVE  overrun' = overrun /\ (HandleReturns(w) \/ (handled' = handled /\ rehandled' = rehandled))
  BY <1>4 DEF ProcessStep, DecodeFails, StartHandle, HandleReturns, HandleThrows, CallFailed,
              DeleteHandled, Release, RecordFailure, DeleteFailed
<1>5. ASSUME NEW w \in Workers, WorkerFault(w)
      PROVE  overrun' = overrun /\ handled' = handled /\ rehandled' = rehandled
  BY <1>5 DEF WorkerFault, PopFault, DeleteHandledFails, ReleaseFails, RecordFailureFails,
              DeleteFailedFails, Crash
<1>6. ASSUME NEW c \in Clis, RetryStep(c) \/ RetryFault(c)
      PROVE  overrun' = overrun /\ handled' = handled /\ rehandled' = rehandled
  BY <1>6 DEF RetryStep, RetryFetch, RetryInsert, RetryDelete, RetryFault, RetryCrash, RetryFails
<1> QED
  BY <1>1, <1>2, <1>3, <1>4, <1>5, <1>6 DEF Next

\* Only markAsFailed adds to the failed table.
LEMMA FailedChange ==
  ASSUME ClaimInv, [Next]_vars
  PROVE  /\ nextStamp' = nextStamp \/ nextStamp' = nextStamp + 1
         /\ \/ \A f \in Stamps : failed'[f] \in {failed[f], None}
            \/ \E w \in Workers : RecordFailure(w)
<1> USE DEF tables, workers, history
<1>1. CASE UNCHANGED vars \/ Tick \/ Flush \/ Clear
  BY <1>1 DEF vars, Tick, Flush, Clear
<1>2. ASSUME NEW m \in Msgs, (\E d \in Delays : Dispatch(m, d)) \/ DispatchFails(m)
      PROVE  failed' = failed /\ (nextStamp' = nextStamp \/ nextStamp' = nextStamp + 1)
  BY <1>2 DEF Dispatch, DispatchFails, InsertJob
<1>3. ASSUME NEW w \in Workers, Start(w) \/ Quit(w) \/ PopStep(w)
      PROVE  failed' = failed /\ nextStamp' = nextStamp
  BY <1>3 DEF Start, Quit, PopStep, ReadClock, Select, FindNothing, Reserve, ReserveRejected
<1>4. ASSUME NEW w \in Workers, ProcessStep(w)
      PROVE  \/ failed' = failed /\ nextStamp' = nextStamp
             \/ RecordFailure(w) /\ nextStamp' = nextStamp + 1
  BY <1>4 DEF ProcessStep, DecodeFails, StartHandle, HandleReturns, HandleThrows, CallFailed,
              DeleteHandled, Release, RecordFailure, DeleteFailed, DeleteRow
<1>5. ASSUME NEW w \in Workers, WorkerFault(w)
      PROVE  failed' = failed /\ nextStamp' = nextStamp
  BY <1>5 DEF WorkerFault, PopFault, DeleteHandledFails, ReleaseFails, RecordFailureFails,
              DeleteFailedFails, Crash
<1>6. ASSUME NEW c \in Clis, RetryStep(c) \/ RetryFault(c)
      PROVE  /\ nextStamp' = nextStamp \/ nextStamp' = nextStamp + 1
             /\ \A f \in Stamps : failed'[f] \in {failed[f], None}
  BY <1>6 DEF RetryStep, RetryFetch, RetryInsert, InsertJob, RetryDelete, RetryFault, RetryCrash,
              RetryFails, ClaimInv, TypeOK
<1> QED
  BY <1>1, <1>2, <1>3, <1>4, <1>5, <1>6 DEF Next

\* A row that is in the hand of a worker which is not yet at its end is not settled.
LEMMA InHandIsOpen ==
  ASSUME ClaimInv, NEW w \in Workers, Holding(w), job[w].id \notin overrun,
         NEW at \in {"handled", "recorded"}, pc[w] # at
  PROVE  ~Settled(job[w].id, at)
<1> SUFFICES ASSUME NEW v \in Workers, pc[v] = at, job[v].id = job[w].id PROVE FALSE
  BY DEF Settled, InHand
<1>1. Holding(v) /\ v # w
  BY DEF Holding
<1> QED
  BY <1>1 DEF ClaimInv, Exclusive

LEMMA ResultStep == ClaimInv /\ ResultInv /\ [Next]_vars => ResultInv'
<1> SUFFICES ASSUME ClaimInv, ResultInv, [Next]_vars PROVE ResultInv'
  OBVIOUS
<1>1. overrun \subseteq overrun' /\ (Quiet' => Quiet)
  BY HandledChange, QuietStays DEF ClaimInv
<1>2. nextStamp \in Int /\ (nextStamp' = nextStamp \/ nextStamp' = nextStamp + 1)
  BY FailedChange DEF ClaimInv, TypeOK
<1>3. /\ handled \subseteq Stamps
      /\ \A f \in Stamps : failed[f] # None => failed[f].origin \in Stamps
  BY DEF ClaimInv, TypeOK, FRow
<1>4. \A i \in Stamps : i \in Int
  BY DEF Stamps
<1>5. \A w \in Workers : Holding(w) => job[w].id \in Stamps /\ job[w].id < nextStamp
  BY DEF ClaimInv, TypeOK, Claims, Fresh, Claim
<1>6. /\ \A i \in handled' : i < nextStamp'
      /\ Quiet' => \A i \in handled' \ overrun' : Settled(i, "handled")'
      /\ HandledOnceWhenQuiet'
  <2>1. CASE handled' = handled /\ rehandled' = rehandled
    <3>1. \A i \in handled' : i < nextStamp'
      BY <1>2, <1>3, <1>4, <2>1 DEF ResultInv, Results
    <3>2. Quiet' => \A i \in handled' \ overrun' : Settled(i, "handled")'
      BY <1>1, <1>3, <2>1, SettledStep DEF ResultInv, Results
    <3>3. HandledOnceWhenQuiet'
      BY <1>1, <2>1 DEF ResultInv, HandledOnceWhenQuiet
    <3> QED
      BY <3>1, <3>2, <3>3
  <2>2. CASE \E w \in Workers : HandleReturns(w)
    <3>1. PICK w \in Workers : HandleReturns(w)
      BY <2>2
    <3>2. /\ pc[w] = "running" /\ pc'[w] = "handled" /\ job' = job /\ overrun' = overrun
          /\ handled' = handled \cup {job[w].id}
          /\ rehandled' = IF job[w].id \in handled THEN rehandled \cup {job[w].id} ELSE rehandled
          /\ Holding(w)
      BY <3>1 DEF HandleReturns, GoTo, ClaimInv, TypeOK, Holding
    <3>3. \A i \in handled' : i < nextStamp'
      BY <1>2, <1>3, <1>4, <1>5, <3>2 DEF ResultInv, Results
    <3>4. Quiet' => \A i \in handled' \ overrun' : Settled(i, "handled")'
      <4>1. Settled(job[w].id, "handled")'
        BY <3>2 DEF Settled
      <4> QED
        BY <1>1, <1>3, <3>2, <4>1, SettledStep DEF ResultInv, Results
    <3>5. HandledOnceWhenQuiet'
      <4>1. Quiet' /\ job[w].id \in handled => job[w].id \in overrun
        BY <1>1, <3>2, InHandIsOpen DEF ResultInv, Results
      <4> QED
        BY <1>1, <3>2, <4>1 DEF ResultInv, HandledOnceWhenQuiet
    <3> QED
      BY <3>3, <3>4, <3>5
  <2> QED
    BY <2>1, <2>2, HandledChange
<1>7. ASSUME NEW f \in Stamps, failed'[f] # None, failed'[f] = failed[f]
      PROVE  /\ failed'[f].origin < nextStamp'
             /\ Quiet' /\ failed'[f].origin \notin overrun' => Settled(failed[f].origin, "recorded")'
  <2>1. PICK o : o = failed[f].origin
    OBVIOUS
  <2>2. o \in Stamps /\ o < nextStamp
    BY <1>3, <1>7, <2>1 DEF ResultInv, Results
  <2>3. o < nextStamp'
    BY <1>2, <1>4, <2>2
  <2>4. Quiet' /\ o \notin overrun' => Settled(o, "recorded")
    BY <1>1, <1>7, <2>1 DEF ResultInv, Results
  <2>5. Quiet' /\ o \notin overrun' => Settled(o, "recorded")'
    BY <2>2, <2>4, SettledStep
  <2>6. failed'[f].origin = o
    BY <1>7, <2>1
  <2> QED
    BY <2>3, <2>5, <2>6
<1>8. /\ \A f \in Stamps : failed'[f] # None => failed'[f].origin < nextStamp'
      /\ Quiet' => \A f \in Stamps : failed'[f] # None /\ failed'[f].origin \notin overrun' =>
                     Settled(failed[f].origin, "recorded")'
      /\ OneFailureRecordWhenQuiet'
  <2>1. CASE \A f \in Stamps : failed'[f] \in {failed[f], None}
    <3>1. OneFailureRecordWhenQuiet'
      BY <1>1, <2>1 DEF ResultInv, OneFailureRecordWhenQuiet
    <3>2. \A f \in Stamps : failed'[f] # None => failed'[f] = failed[f]
      BY <2>1
    <3> QED
      BY <1>7, <3>1, <3>2
  <2>2. CASE \E w \in Workers : RecordFailure(w)
    <3>1. PICK w \in Workers : RecordFailure(w)
      BY <2>2
    <3>2. /\ nextFailed \in Stamps /\ failed'[nextFailed].origin = job[w].id
          /\ \A f \in Stamps : f # nextFailed => failed'[f] = failed[f]
      BY <3>1, RecordedRow
    <3>3. /\ pc[w] = "deciding" /\ pc'[w] = "recorded" /\ job' = job /\ overrun' = overrun
          /\ Holding(w) /\ nextStamp' = nextStamp + 1
      BY <3>1 DEF RecordFailure, GoTo, ClaimInv, TypeOK, Holding, history
    <3>4. job[w].id < nextStamp'
      BY <1>2, <1>4, <1>5, <3>3
    <3>5. \A f \in Stamps : f = nextFailed => Settled(failed[f].origin, "recorded")'
      BY <3>2, <3>3 DEF Settled
    <3>6. \A f \in Stamps : f # nextFailed /\ Quiet' /\ failed[f] # None /\ failed[f].origin = job[w].id
                            => job[w].id \in overrun
      BY <1>1, <3>3, InHandIsOpen DEF ResultInv, Results
    <3>7. OneFailureRecordWhenQuiet'
      <4> SUFFICES ASSUME Quiet', NEW f \in Stamps, NEW g \in Stamps, f # g, failed'[f] # None,
                          failed'[g] # None, failed'[f].origin = failed'[g].origin
                   PROVE  failed'[f].origin \in overrun'
        BY DEF OneFailureRecordWhenQuiet
      <4>1. CASE f # nextFailed /\ g # nextFailed
        BY <1>1, <3>2, <4>1 DEF ResultInv, OneFailureRecordWhenQuiet
      <4>2. CASE f = nextFailed \/ g = nextFailed
        BY <3>2, <3>3, <3>6, <4>2
      <4> QED
        BY <4>1, <4>2
    <3>8. \A f \in Stamps : failed'[f] # None /\ f # nextFailed => failed'[f] = failed[f]
      BY <3>2
    <3> QED
      BY <1>7, <3>2, <3>4, <3>5, <3>7, <3>8
  <2> QED
    BY <2>1, <2>2, FailedChange
<1> QED
  BY <1>6, <1>8 DEF ResultInv, Results

LEMMA ResultsHold == Spec => [](ClaimInv /\ ResultInv)
<1>1. Init => ClaimInv /\ ResultInv
  <2>1. Init => ResultInv
    BY DEF Init, ResultInv, Results, HandledOnceWhenQuiet, OneFailureRecordWhenQuiet
  <2> QED
    BY <2>1, ClaimInit
<1>2. (ClaimInv /\ ResultInv) /\ [Next]_vars => (ClaimInv /\ ResultInv)'
  BY ClaimStep, ResultStep
<1> QED
  BY <1>1, <1>2, PTL DEF Spec

\* A job row is handled to the end twice only after an overrun, a failed statement or a
\* crash, for any number of workers and retries (Worker::process, Worker::retry).
THEOREM SuccessIsFinal == Spec => []HandledOnceWhenQuiet
<1>1. ClaimInv /\ ResultInv => HandledOnceWhenQuiet
  BY DEF ResultInv
<1> QED
  BY <1>1, ResultsHold, PTL

-----------------------------------------------------------------------------
(* The inductive invariant of copies: in calm times each message has one     *)
(* token, which a move hands from the row it will delete to the one it has   *)
(* inserted.                                                                 *)

\* Nothing failed or ran out of time, and there is at most one operator.
Calm == Quiet /\ overrun = {} /\ \A c, d \in Clis : c = d

\* What rows, workers and operators hold was dispatched.
Known ==
  /\ \A i \in Stamps : Present(i) => jobs[i].msg \in dispatched
  /\ \A f \in Stamps : failed[f] # None => failed[f].msg \in dispatched
  /\ \A w \in Workers : job[w] # None => job[w].msg \in dispatched
  /\ \A c \in Clis : cli[c].at # "idle" => cli[c].msg \in dispatched

\* The row an operator has fetched is nowhere else.
FetchedStays ==
  \A c \in Clis : \A f \in Stamps :
    cli[c].at # "idle" /\ failed[f] # None /\ failed[f].stamp = cli[c].stamp => f = cli[c].fid

\* A job row, in the table or only in a worker's hand, that no failure was recorded for.
JobToken(i, m) ==
  /\ \/ Present(i) /\ jobs[i].msg = m
     \/ \E w \in Workers : InHand(w) /\ job[w].id = i /\ job[w].msg = m
  /\ \A w \in Workers : ~(pc[w] = "recorded" /\ job[w].id = i)

\* A failed row, in the table or only in the operator's hand, that is not yet back in the queue.
FailToken(s, m) ==
  /\ \/ \E f \in Stamps : failed[f] # None /\ failed[f].stamp = s /\ failed[f].msg = m
     \/ \E c \in Clis : cli[c].at = "fetched" /\ cli[c].stamp = s /\ cli[c].msg = m
  /\ \A c \in Clis : ~(cli[c].at = "inserted" /\ cli[c].stamp = s)

OneToken == Calm => \A m \in Msgs :
  /\ \A i, j \in Stamps : JobToken(i, m) /\ JobToken(j, m) => i = j
  /\ \A s, t \in Stamps : FailToken(s, m) /\ FailToken(t, m) => s = t
  /\ \A i, s \in Stamps : ~(JobToken(i, m) /\ FailToken(s, m))

CopyInv == Known /\ FetchedStays /\ OneToken

LEMMA KnownStep == ClaimInv /\ Known /\ [Next]_vars => Known'
<1> SUFFICES ASSUME ClaimInv, Known, [Next]_vars PROVE Known'
  OBVIOUS
<1> USE DEF tables, workers, history, NoFault, GoTo, Drop, Known, Present
<1>1. CASE UNCHANGED vars
  BY <1>1 DEF vars
<1>2. CASE Tick
  <2>1. \A i \in Stamps : jobs'[i] # None => jobs[i] # None /\ jobs'[i].msg = jobs[i].msg
    BY <1>2, TickedRow
  <2> QED
    BY <1>2, <2>1 DEF Tick
<1>3. ASSUME NEW m \in Msgs, NEW d \in Delays, Dispatch(m, d) PROVE Known'
  <2>1. InsertJob(m, d) /\ d \in Int
    BY <1>3, DelaysInt DEF Dispatch
  <2>2. jobs'[nextStamp].msg = m /\ \A i \in Stamps : i # nextStamp => jobs'[i] = jobs[i]
    BY <2>1, InsertedRow DEF ClaimInv
  <2> QED
    BY <1>3, <2>2 DEF Dispatch
<1>4. ASSUME NEW m \in Msgs, DispatchFails(m) PROVE Known'
  BY <1>4 DEF DispatchFails
<1>5. ASSUME NEW w \in Workers, Local(w) PROVE Known'
  <2>1. /\ tables' = tables /\ cli' = cli /\ dispatched' = dispatched
        /\ \A v \in Workers : job'[v] # None => job'[v] = job[v]
    BY <1>5, LocalFrame DEF ClaimInv
  <2> QED
    BY <2>1
<1>6. ASSUME NEW w \in Workers, Select(w) PROVE Known'
  <2>1. PICK i \in Stamps : /\ Present(i) /\ job'[w].msg = jobs[i].msg
                            /\ \A v \in Workers : v # w => job'[v] = job[v]
    BY <1>6, SelectedRow DEF Claimable
  <2> QED
    BY <1>6, <2>1 DEF Select
<1>7. ASSUME NEW w \in Workers, Reserve(w) PROVE Known'
  <2>1. \A i \in Stamps : jobs'[i] # None => jobs[i] # None /\ jobs'[i].msg = jobs[i].msg
    BY <1>7, ReservedRow
  <2>2. \A v \in Workers : job'[v] # None => job[v] # None /\ job'[v].msg = job[v].msg
    BY <1>7, ReservedRow
  <2>3. failed' = failed /\ cli' = cli /\ dispatched' = dispatched
    BY <1>7 DEF Reserve
  <2>4. \A i \in Stamps : jobs'[i] # None => jobs'[i].msg \in dispatched
    BY <2>1
  <2>5. \A v \in Workers : job'[v] # None => job'[v].msg \in dispatched
    BY <2>2
  <2> QED
    BY <2>3, <2>4, <2>5
<1>8. ASSUME NEW w \in Workers, DeleteHandled(w) \/ DeleteFailed(w) PROVE Known'
  <2>1. DeleteRow(w) /\ Holding(w)
    BY <1>8 DEF DeleteHandled, DeleteFailed, Holding
  <2>2. \A i \in Stamps : jobs'[i] # None => jobs'[i] = jobs[i]
    BY <2>1, DeletedRow
  <2>3. /\ failed' = failed /\ cli' = cli /\ dispatched' = dispatched
        /\ \A v \in Workers : job'[v] # None => job'[v] = job[v]
    BY <1>8 DEF DeleteHandled, DeleteFailed, DeleteRow, ClaimInv, TypeOK
  <2> QED
    BY <2>2, <2>3
<1>9. ASSUME NEW w \in Workers, Release(w) PROVE Known'
  <2>1. \A i \in Stamps : jobs'[i] # None => jobs[i] # None /\ jobs'[i].msg = jobs[i].msg
    BY <1>9, ReleasedRow
  <2>2. /\ failed' = failed /\ cli' = cli /\ dispatched' = dispatched
        /\ \A v \in Workers : job'[v] # None => job'[v] = job[v]
    BY <1>9 DEF Release, ClaimInv, TypeOK
  <2> QED
    BY <2>1, <2>2
<1>10. ASSUME NEW w \in Workers, RecordFailure(w) PROVE Known'
  <2>1. /\ job[w] # None /\ failed'[nextFailed].msg = job[w].msg
        /\ \A f \in Stamps : f # nextFailed => failed'[f] = failed[f]
    BY <1>10, RecordedRow
  <2> QED
    BY <1>10, <2>1 DEF RecordFailure
<1>11. ASSUME NEW c \in Clis, NEW f \in Stamps, RetryFetch(c, f) PROVE Known'
  <2>1. /\ cli'[c].msg = failed[f].msg /\ failed[f] # None
        /\ \A b \in Clis : b # c => cli'[b] = cli[b]
    BY <1>11 DEF RetryFetch, Keep, ClaimInv, TypeOK
  <2> QED
    BY <1>11, <2>1 DEF RetryFetch
<1>12. ASSUME NEW c \in Clis, RetryInsert(c) PROVE Known'
  <2>1. cli[c].msg \in Msgs /\ InsertJob(cli[c].msg, 0)
    BY <1>12 DEF RetryInsert, ClaimInv, Fresh
  <2>2. jobs'[nextStamp].msg = cli[c].msg /\ \A i \in Stamps : i # nextStamp => jobs'[i] = jobs[i]
    BY <2>1, InsertedRow DEF ClaimInv
  <2>3. \A b \in Clis : /\ cli'[b].at # "idle" => cli[b].at # "idle"
                        /\ cli'[b].msg = cli[b].msg
    BY <1>12 DEF RetryInsert, ClaimInv, TypeOK, CliState
  <2>4. cli[c].at # "idle"
    BY <1>12 DEF RetryInsert
  <2> QED
    BY <1>12, <2>2, <2>3, <2>4 DEF RetryInsert
<1>13. ASSUME NEW c \in Clis, RetryDelete(c) \/ RetryEnds(c) PROVE Known'
  <2>1. /\ jobs' = jobs /\ job' = job /\ dispatched' = dispatched
        /\ \A f \in Stamps : failed'[f] # None => failed'[f] = failed[f]
        /\ \A b \in Clis : cli'[b].at # "idle" => cli'[b] = cli[b]
    BY <1>13 DEF RetryDelete, RetryEnds, RetryCrash, RetryFails, CliDone, CliIdle, ClaimInv, TypeOK
  <2> QED
    BY <2>1
<1>14. CASE Flush
  BY <1>14 DEF Flush
<1>15. CASE Clear
  BY <1>15 DEF Clear
<1> QED
  BY <1>1, <1>2, <1>3, <1>4, <1>5, <1>6, <1>7, <1>8, <1>9, <1>10, <1>11, <1>12, <1>13, <1>14, <1>15
     DEF Next, PopStep, ProcessStep, WorkerFault, RetryStep, RetryFault, Local, RetryEnds

LEMMA StaysStep == ClaimInv /\ Identity /\ FetchedStays /\ [Next]_vars => FetchedStays'
<1> SUFFICES ASSUME ClaimInv, Identity, FetchedStays, [Next]_vars PROVE FetchedStays'
  OBVIOUS
<1> USE DEF tables, workers, history, FetchedStays
<1>1. CASE /\ \A f \in Stamps : failed'[f] \in {failed[f], None}
           /\ \A c \in Clis : cli'[c].at # "idle" => cli'[c] = cli[c]
  BY <1>1
<1>2. CASE UNCHANGED vars \/ Tick \/ Flush \/ Clear
  BY <1>1, <1>2 DEF vars, Tick, Flush, Clear
<1>3. ASSUME NEW m \in Msgs, (\E d \in Delays : Dispatch(m, d)) \/ DispatchFails(m) PROVE FetchedStays'
  BY <1>1, <1>3 DEF Dispatch, DispatchFails
<1>4. ASSUME NEW w \in Workers, Local(w) PROVE FetchedStays'
  <2>1. tables' = tables /\ cli' = cli
    BY <1>4, LocalFrame DEF ClaimInv
  <2> QED
    BY <1>1, <2>1
<1>5. ASSUME NEW w \in Workers,
             Select(w) \/ Reserve(w) \/ DeleteHandled(w) \/ Release(w) \/ DeleteFailed(w)
      PROVE  FetchedStays'
  BY <1>1, <1>5 DEF Select, Reserve, DeleteHandled, Release, DeleteFailed, DeleteRow
<1>6. ASSUME NEW w \in Workers, RecordFailure(w) PROVE FetchedStays'
  <2>1. /\ failed'[nextFailed].stamp = nextStamp
        /\ \A f \in Stamps : f # nextFailed => failed'[f] = failed[f]
    BY <1>6, RecordedRow
  <2>2. \A c \in Clis : cli[c].at # "idle" => cli[c].stamp # nextStamp
    BY DEF ClaimInv, Fresh, TypeOK, Stamps
  <2> QED
    BY <1>6, <2>1, <2>2 DEF RecordFailure
<1>7. ASSUME NEW c \in Clis, NEW g \in Stamps, RetryFetch(c, g) PROVE FetchedStays'
  <2>1. /\ cli'[c].fid = g /\ cli'[c].stamp = failed[g].stamp /\ failed[g] # None /\ failed' = failed
        /\ \A b \in Clis : b # c => cli'[b] = cli[b]
    BY <1>7 DEF RetryFetch, Keep, ClaimInv, TypeOK
  <2> QED
    BY <2>1 DEF Identity
<1>8. ASSUME NEW c \in Clis, RetryInsert(c) PROVE FetchedStays'
  <2>1. /\ failed' = failed /\ cli[c].at # "idle"
        /\ \A b \in Clis : /\ cli'[b].stamp = cli[b].stamp /\ cli'[b].fid = cli[b].fid
                           /\ b # c => cli'[b] = cli[b]
    BY <1>8 DEF RetryInsert, ClaimInv, TypeOK, CliState
  <2> QED
    BY <2>1
<1>9. ASSUME NEW c \in Clis, RetryDelete(c) \/ RetryEnds(c) PROVE FetchedStays'
  <2>1. /\ \A f \in Stamps : failed'[f] # None => failed'[f] = failed[f]
        /\ \A b \in Clis : cli'[b].at # "idle" => cli'[b] = cli[b]
    BY <1>9 DEF RetryDelete, RetryEnds, RetryCrash, RetryFails, CliDone, CliIdle, ClaimInv, TypeOK
  <2> QED
    BY <2>1
<1> QED
  BY <1>2, <1>3, <1>4, <1>5, <1>6, <1>7, <1>8, <1>9
     DEF Next, PopStep, ProcessStep, WorkerFault, RetryStep, RetryFault, Local, RetryEnds

\* A step that makes no token of a job row.
LEMMA JobFrame ==
  ASSUME NEW i, NEW m, JobToken(i, m)',
         Present(i)' /\ jobs'[i].msg = m => Present(i) /\ jobs[i].msg = m,
         \A v \in Workers : InHand(v)' /\ job'[v].id = i /\ job'[v].msg = m =>
           \/ InHand(v) /\ job[v].id = i /\ job[v].msg = m
           \/ Present(i) /\ jobs[i].msg = m,
         \A v \in Workers : pc[v] = "recorded" /\ job[v].id = i =>
           pc'[v] = "recorded" /\ job'[v].id = i
  PROVE  JobToken(i, m)
  BY DEF JobToken

\* A step that makes no token of a failed row.
LEMMA FailFrame ==
  ASSUME NEW s, NEW m, FailToken(s, m)',
         \A f \in Stamps : failed'[f] # None /\ failed'[f].stamp = s => failed'[f] = failed[f],
         \A c \in Clis : cli'[c].at = "fetched" /\ cli'[c].stamp = s /\ cli'[c].msg = m =>
           \/ cli[c].at = "fetched" /\ cli[c].stamp = s /\ cli[c].msg = m
           \/ \E f \in Stamps : failed[f] # None /\ failed[f].stamp = s /\ failed[f].msg = m,
         \A c \in Clis : cli[c].at = "inserted" /\ cli[c].stamp = s =>
           cli'[c].at = "inserted" /\ cli'[c].stamp = s
  PROVE  FailToken(s, m)
  BY DEF FailToken

\* A step that makes no token at all.
NoNewToken == \A m \in Msgs : \A i \in Stamps :
  (JobToken(i, m)' => JobToken(i, m)) /\ (FailToken(i, m)' => FailToken(i, m))

LEMMA CalmStays == ASSUME ClaimInv, [Next]_vars, Calm' PROVE Calm
<1>1. overrun \subseteq overrun' /\ (Quiet' => Quiet)
  BY HandledChange, QuietStays DEF ClaimInv
<1> QED
  BY <1>1 DEF Calm

LEMMA QueueMakesNoToken ==
  ASSUME ClaimInv, LossInv, Calm', Calm,
         \/ UNCHANGED vars \/ Tick \/ Flush \/ Clear
         \/ \E w \in Workers : \/ Local(w) \/ Select(w) \/ Reserve(w) \/ DeleteHandled(w) \/ Release(w)
                               \/ DeleteFailed(w)
  PROVE  NoNewToken
<1> USE DEF tables, workers, history, NoFault, GoTo, Drop
<1> SUFFICES ASSUME NEW m \in Msgs, NEW i \in Stamps
             PROVE  (JobToken(i, m)' => JobToken(i, m)) /\ (FailToken(i, m)' => FailToken(i, m))
  BY DEF NoNewToken
<1>1. (\A f \in Stamps : failed'[f] \in {failed[f], None}) /\ cli' = cli =>
        (FailToken(i, m)' => FailToken(i, m))
  <2> SUFFICES ASSUME \A f \in Stamps : failed'[f] \in {failed[f], None}, cli' = cli, FailToken(i, m)'
               PROVE  FailToken(i, m)
    OBVIOUS
  <2>1. \A f \in Stamps : failed'[f] # None => failed'[f] = failed[f]
    OBVIOUS
  <2> QED
    BY <2>1, FailFrame
<1>2. CASE UNCHANGED vars
  <2>1. jobs' = jobs /\ pc' = pc /\ job' = job /\ failed' = failed /\ cli' = cli
    BY <1>2 DEF vars
  <2> QED
    BY <1>1, <2>1, JobFrame DEF InHand, Holding, Present
<1>3. CASE Tick
  <2>1. Present(i)' => Present(i) /\ jobs'[i].msg = jobs[i].msg
    BY <1>3, TickedRow DEF Present
  <2>2. pc' = pc /\ job' = job /\ failed' = failed /\ cli' = cli
    BY <1>3 DEF Tick
  <2> QED
    BY <1>1, <2>1, <2>2, JobFrame DEF InHand, Holding
<1>4. CASE Flush
  <2>1. /\ jobs' = jobs /\ pc' = pc /\ job' = job /\ cli' = cli
        /\ \A f \in Stamps : failed'[f] = None
    BY <1>4 DEF Flush
  <2> QED
    BY <1>1, <2>1, JobFrame DEF InHand, Holding, Present
<1>5. CASE Clear
  <2>1. jobs'[i] = None /\ pc' = pc /\ job' = job /\ failed' = failed /\ cli' = cli
    BY <1>5 DEF Clear
  <2> QED
    BY <1>1, <2>1, JobFrame DEF InHand, Holding, Present
<1>6. ASSUME NEW w \in Workers, Local(w)
      PROVE  (JobToken(i, m)' => JobToken(i, m)) /\ (FailToken(i, m)' => FailToken(i, m))
  <2>1. jobs' = jobs /\ failed' = failed /\ cli' = cli
    BY <1>6, LocalFrame DEF ClaimInv
  <2>2. \A v \in Workers : /\ InHand(v)' => InHand(v) /\ job'[v] = job[v]
                           /\ pc[v] = "recorded" => pc'[v] = "recorded" /\ job'[v] = job[v]
    BY <1>6, QuietLocal DEF Calm
  <2> QED
    BY <1>1, <2>1, <2>2, JobFrame DEF Present
<1>7. ASSUME NEW w \in Workers, Select(w)
      PROVE  (JobToken(i, m)' => JobToken(i, m)) /\ (FailToken(i, m)' => FailToken(i, m))
  <2>1. PICK j \in Stamps : /\ Present(j) /\ job'[w].id = j /\ job'[w].msg = jobs[j].msg
                            /\ \A v \in Workers : v # w => job'[v] = job[v]
    BY <1>7, SelectedRow DEF Claimable
  <2>2. /\ jobs' = jobs /\ pc[w] = "polled" /\ failed' = failed /\ cli' = cli
        /\ \A v \in Workers : v # w => pc'[v] = pc[v]
    BY <1>7 DEF Select, ClaimInv, TypeOK
  <2>3. \A v \in Workers : InHand(v)' /\ job'[v].id = i /\ job'[v].msg = m =>
           \/ InHand(v) /\ job[v].id = i /\ job[v].msg = m
           \/ Present(i) /\ jobs[i].msg = m
    BY <2>1, <2>2 DEF InHand, Holding
  <2>4. \A v \in Workers : pc[v] = "recorded" => pc'[v] = "recorded" /\ job'[v] = job[v]
    BY <2>1, <2>2
  <2> QED
    BY <1>1, <2>2, <2>3, <2>4, JobFrame DEF Present
<1>8. ASSUME NEW w \in Workers, Reserve(w)
      PROVE  (JobToken(i, m)' => JobToken(i, m)) /\ (FailToken(i, m)' => FailToken(i, m))
  <2>1. /\ Present(i)' => Present(i) /\ jobs'[i].msg = jobs[i].msg
        /\ \A v \in Workers : job'[v].id = job[v].id /\ job'[v].msg = job[v].msg
    BY <1>8, ReservedRow DEF Present
  <2>2. /\ pc[w] = "locked" /\ failed' = failed /\ cli' = cli
        /\ \A v \in Workers : v # w => pc'[v] = pc[v]
    BY <1>8 DEF Reserve, ClaimInv, TypeOK
  <2> QED
    BY <1>1, <2>1, <2>2, JobFrame DEF InHand, Holding
<1>9. ASSUME NEW w \in Workers, Release(w)
      PROVE  (JobToken(i, m)' => JobToken(i, m)) /\ (FailToken(i, m)' => FailToken(i, m))
  <2>1. Present(i)' => Present(i) /\ jobs'[i].msg = jobs[i].msg
    BY <1>9, ReleasedRow DEF Present
  <2>2. /\ pc[w] = "deciding" /\ pc'[w] = "idle" /\ failed' = failed /\ cli' = cli
        /\ \A v \in Workers : v # w => pc'[v] = pc[v] /\ job'[v] = job[v]
    BY <1>9 DEF Release, ClaimInv, TypeOK
  <2> QED
    BY <1>1, <2>1, <2>2, JobFrame DEF InHand, Holding
<1>10. ASSUME NEW w \in Workers, DeleteHandled(w) \/ DeleteFailed(w)
       PROVE  (JobToken(i, m)' => JobToken(i, m)) /\ (FailToken(i, m)' => FailToken(i, m))
  <2>1. Holding(w) /\ DeleteRow(w)
    BY <1>10 DEF DeleteHandled, DeleteFailed, Holding
  <2>2. /\ jobs'[job[w].id] = None
        /\ \A j \in Stamps : j # job[w].id => jobs'[j] = jobs[j]
    BY <2>1, DeletedRow
  <2>3. /\ pc'[w] = "idle" /\ failed' = failed /\ cli' = cli
        /\ \A v \in Workers : v # w => pc'[v] = pc[v] /\ job'[v] = job[v]
    BY <1>10 DEF DeleteHandled, DeleteFailed, DeleteRow, ClaimInv, TypeOK
  <2>4. CASE job[w].id = i
    <3>1. \A v \in Workers : InHand(v) /\ job[v].id = i => v = w
      BY <2>1, <2>4 DEF ClaimInv, Exclusive, InHand, Calm
    <3>2. ~JobToken(i, m)'
      BY <2>2, <2>3, <2>4, <3>1 DEF JobToken, Present, InHand, Holding
    <3> QED
      BY <1>1, <2>3, <3>2
  <2>5. CASE job[w].id # i
    BY <1>1, <2>2, <2>3, <2>5, JobFrame DEF Present, InHand, Holding
  <2> QED
    BY <2>4, <2>5
<1> QED
  BY <1>2, <1>3, <1>4, <1>5, <1>6, <1>7, <1>8, <1>9, <1>10

LEMMA RetryMakesNoToken ==
  ASSUME ClaimInv, LossInv, FetchedStays, Calm', Calm, NEW c \in Clis,
         (\E f \in Stamps : RetryFetch(c, f)) \/ RetryDelete(c) \/ RetryEnds(c)
  PROVE  NoNewToken
<1> USE DEF tables, workers, history, NoFault
<1>1. jobs' = jobs /\ pc' = pc /\ job' = job
  BY DEF RetryFetch, RetryDelete, RetryEnds, RetryCrash, RetryFails
<1>2. \A m \in Msgs : \A i \in Stamps : JobToken(i, m)' => JobToken(i, m)
  BY <1>1, JobFrame DEF InHand, Holding, Present
<1> SUFFICES ASSUME NEW m \in Msgs, NEW s \in Stamps, FailToken(s, m)'
             PROVE  FailToken(s, m)
  BY <1>2 DEF NoNewToken
<1>3. ASSUME NEW g \in Stamps, RetryFetch(c, g) PROVE FailToken(s, m)
  <2>1. /\ failed' = failed /\ failed[g] # None
        /\ cli'[c].msg = failed[g].msg /\ cli'[c].stamp = failed[g].stamp
        /\ cli[c].at = "idle" /\ \A b \in Clis : b # c => cli'[b] = cli[b]
    BY <1>3 DEF RetryFetch, Keep, ClaimInv, TypeOK
  <2>2. \A b \in Clis : cli'[b].at = "fetched" /\ cli'[b].stamp = s /\ cli'[b].msg = m =>
           \/ cli[b].at = "fetched" /\ cli[b].stamp = s /\ cli[b].msg = m
           \/ \E f \in Stamps : failed[f] # None /\ failed[f].stamp = s /\ failed[f].msg = m
    BY <2>1
  <2>3. \A b \in Clis : cli[b].at = "inserted" => cli'[b] = cli[b]
    BY <2>1
  <2> QED
    BY <2>1, <2>2, <2>3, FailFrame
<1>4. CASE RetryDelete(c)
  <2>1. /\ cli[c].at = "inserted" /\ cli'[c].at = "idle" /\ failed'[cli[c].fid] = None
        /\ \A f \in Stamps : failed'[f] # None => failed'[f] = failed[f]
    BY <1>4 DEF RetryDelete, CliDone, CliIdle, ClaimInv, TypeOK, Fresh
  <2>2. \A b \in Clis : b = c
    BY DEF Calm
  <2>3. cli[c].stamp # s
    <3> SUFFICES ASSUME cli[c].stamp = s PROVE FALSE
      OBVIOUS
    <3>1. PICK f \in Stamps : failed'[f] # None /\ failed'[f].stamp = s
      BY <2>1, <2>2 DEF FailToken
    <3>2. f = cli[c].fid
      BY <2>1, <3>1 DEF FetchedStays
    <3> QED
      BY <2>1, <3>1, <3>2
  <2> QED
    BY <2>1, <2>2, <2>3, FailFrame
<1>5. CASE RetryEnds(c)
  BY <1>5, NoFaults DEF RetryEnds, RetryCrash, RetryFails, Calm, ClaimInv
<1> QED
  BY <1>3, <1>4, <1>5
\* An insert makes a token of the row it inserts, and of no other.
LEMMA InsertToken ==
  ASSUME ClaimInv, NEW n \in Msgs, NEW d \in Int, InsertJob(n, d), pc' = pc, job' = job,
         NEW m \in Msgs, NEW i \in Stamps, JobToken(i, m)'
  PROVE  JobToken(i, m) \/ (i = nextStamp /\ m = n)
<1>1. jobs'[nextStamp].msg = n /\ \A j \in Stamps : j # nextStamp => jobs'[j] = jobs[j]
  BY InsertedRow DEF ClaimInv
<1>2. CASE i = nextStamp
  <2>1. \A v \in Workers : InHand(v) => job[v].id # nextStamp
    BY ClaimIds DEF ClaimInv, Claims, InHand
  <2>2. \A v \in Workers : InHand(v)' => InHand(v)
    BY DEF InHand, Holding
  <2> QED
    BY <1>1, <1>2, <2>1, <2>2 DEF JobToken
<1>3. CASE i # nextStamp
  <2>1. jobs'[i] = jobs[i]
    BY <1>1, <1>3
  <2> QED
    BY <2>1, JobFrame DEF Present, InHand, Holding
<1> QED
  BY <1>2, <1>3

\* What has a token was dispatched.
LEMMA TokenKnown ==
  ASSUME ClaimInv, Known, NEW m \in Msgs, NEW i \in Stamps, JobToken(i, m) \/ FailToken(i, m)
  PROVE  m \in dispatched
  BY DEF JobToken, FailToken, Known, ClaimInv, Claims, InHand

LEMMA OneTokenStep == ClaimInv /\ LossInv /\ CopyInv /\ [Next]_vars => OneToken'
<1> SUFFICES ASSUME ClaimInv, LossInv, CopyInv, [Next]_vars, Calm', NEW m \in Msgs
             PROVE  /\ \A i, j \in Stamps : JobToken(i, m)' /\ JobToken(j, m)' => i = j
                    /\ \A s, t \in Stamps : FailToken(s, m)' /\ FailToken(t, m)' => s = t
                    /\ \A i, s \in Stamps : ~(JobToken(i, m)' /\ FailToken(s, m)')
  BY DEF OneToken
<1> DEFINE One == /\ \A i, j \in Stamps : JobToken(i, m)' /\ JobToken(j, m)' => i = j
                  /\ \A s, t \in Stamps : FailToken(s, m)' /\ FailToken(t, m)' => s = t
                  /\ \A i, s \in Stamps : ~(JobToken(i, m)' /\ FailToken(s, m)')
<1>1. Calm
  BY CalmStays
<1>2. /\ \A i, j \in Stamps : JobToken(i, m) /\ JobToken(j, m) => i = j
      /\ \A s, t \in Stamps : FailToken(s, m) /\ FailToken(t, m) => s = t
      /\ \A i, s \in Stamps : ~(JobToken(i, m) /\ FailToken(s, m))
  BY <1>1 DEF CopyInv, OneToken
<1>3. ASSUME NoNewToken PROVE One
  BY <1>2, <1>3 DEF NoNewToken
<1>4. CASE \/ UNCHANGED vars \/ Tick \/ Flush \/ Clear
           \/ \E w \in Workers : \/ Local(w) \/ Select(w) \/ Reserve(w) \/ DeleteHandled(w) \/ Release(w)
                                 \/ DeleteFailed(w)
  BY <1>1, <1>3, <1>4, QueueMakesNoToken
<1>5. ASSUME NEW c \in Clis, (\E f \in Stamps : RetryFetch(c, f)) \/ RetryDelete(c) \/ RetryEnds(c)
      PROVE  One
  BY <1>1, <1>3, <1>5, RetryMakesNoToken DEF CopyInv
<1>6. ASSUME NEW n \in Msgs, DispatchFails(n) PROVE One
  BY <1>6, NoFaults DEF DispatchFails, Calm, ClaimInv
<1>7. ASSUME NEW n \in Msgs, NEW d \in Delays, Dispatch(n, d) PROVE One
  <2>1. InsertJob(n, d) /\ d \in Int /\ n \notin dispatched
    BY <1>7, DelaysInt DEF Dispatch
  <2>2. pc' = pc /\ job' = job /\ failed' = failed /\ cli' = cli
    BY <1>7 DEF Dispatch, workers
  <2>3. \A i \in Stamps : JobToken(i, m)' => JobToken(i, m) \/ (i = nextStamp /\ m = n)
    BY <2>1, <2>2, InsertToken
  <2>4. \A s \in Stamps : FailToken(s, m)' => FailToken(s, m)
    BY <2>2, FailFrame
  <2>5. m = n => \A i \in Stamps : ~JobToken(i, m) /\ ~FailToken(i, m)
    BY <2>1, TokenKnown DEF CopyInv
  <2> QED
    BY <1>2, <2>3, <2>4, <2>5
<1>8. ASSUME NEW c \in Clis, RetryInsert(c) PROVE One
  <2>1. /\ cli[c].msg \in Msgs /\ cli[c].stamp \in Stamps /\ cli[c].at = "fetched"
        /\ InsertJob(cli[c].msg, 0)
    BY <1>8 DEF RetryInsert, ClaimInv, Fresh
  <2>2. /\ pc' = pc /\ job' = job /\ failed' = failed
        /\ cli'[c].at = "inserted" /\ cli'[c].stamp = cli[c].stamp
    BY <1>8 DEF RetryInsert, workers, ClaimInv, TypeOK, CliState
  <2>3. \A b \in Clis : b = c
    BY <1>1 DEF Calm
  <2>4. \A i \in Stamps : JobToken(i, m)' => JobToken(i, m) \/ (i = nextStamp /\ m = cli[c].msg)
    BY <2>1, <2>2, InsertToken
  <2>5. \A s \in Stamps : FailToken(s, m)' => FailToken(s, m) /\ s # cli[c].stamp
    BY <2>1, <2>2, <2>3 DEF FailToken
  <2>6. FailToken(cli[c].stamp, cli[c].msg)
    BY <2>1, <2>3 DEF FailToken
  <2>7. CASE m = cli[c].msg
    BY <1>2, <2>1, <2>4, <2>5, <2>6, <2>7
  <2>8. CASE m # cli[c].msg
    BY <1>2, <2>4, <2>5, <2>8
  <2> QED
    BY <2>7, <2>8
<1>9. ASSUME NEW w \in Workers, RecordFailure(w) PROVE One
  <2>1. /\ job[w] # None /\ nextStamp \in Stamps /\ nextFailed \in Stamps
        /\ failed'[nextFailed].msg = job[w].msg /\ failed'[nextFailed].stamp = nextStamp
        /\ \A f \in Stamps : f # nextFailed => failed'[f] = failed[f]
    BY <1>9, RecordedRow
  <2>2. /\ jobs' = jobs /\ job' = job /\ cli' = cli /\ pc[w] = "deciding" /\ pc'[w] = "recorded"
        /\ \A v \in Workers : v # w => pc'[v] = pc[v]
    BY <1>9 DEF RecordFailure, GoTo, ClaimInv, TypeOK
  <2>3. job[w].id \in Stamps /\ job[w].msg \in Msgs
    BY <2>1, ClaimIds
  <2>4. \A v \in Workers : InHand(v) /\ job[v].id = job[w].id => v = w
    BY <1>1, <2>2 DEF ClaimInv, Exclusive, InHand, Calm, Holding
  <2>5. \A v \in Workers : InHand(v)' <=> InHand(v)
    BY <2>2 DEF InHand, Holding
  <2>6. \A i \in Stamps : JobToken(i, m)' => JobToken(i, m) /\ i # job[w].id
    <3> SUFFICES ASSUME NEW i \in Stamps, JobToken(i, m)' PROVE JobToken(i, m) /\ i # job[w].id
      OBVIOUS
    <3>1. i # job[w].id
      BY <2>2 DEF JobToken
    <3> QED
      BY <2>2, <2>5, <3>1, JobFrame DEF Present
  <2>7. \A s \in Stamps : FailToken(s, m)' => FailToken(s, m) \/ (s = nextStamp /\ m = job[w].msg)
    <3> SUFFICES ASSUME NEW s \in Stamps, FailToken(s, m)', ~(s = nextStamp /\ m = job[w].msg)
                 PROVE  FailToken(s, m)
      OBVIOUS
    <3>1. ASSUME NEW f \in Stamps, failed'[f] # None, failed'[f].stamp = s, failed'[f].msg = m
          PROVE  failed[f] # None /\ failed[f].stamp = s /\ failed[f].msg = m
      BY <2>1, <3>1
    <3> QED
      BY <2>2, <3>1 DEF FailToken
  <2>8. JobToken(job[w].id, job[w].msg)
    BY <2>2, <2>4 DEF JobToken, InHand, Holding
  <2>9. CASE m = job[w].msg
    BY <1>2, <2>3, <2>6, <2>7, <2>8, <2>9
  <2>10. CASE m # job[w].msg
    BY <1>2, <2>6, <2>7, <2>10
  <2> QED
    BY <2>9, <2>10
<1> QED
  BY <1>4, <1>5, <1>6, <1>7, <1>8, <1>9
     DEF Next, PopStep, ProcessStep, WorkerFault, RetryStep, RetryFault, Local, RetryEnds

LEMMA CopyInit == Init => CopyInv
  BY DEF Init, CopyInv, Known, FetchedStays, OneToken, JobToken, FailToken, Present, InHand, Holding, CliIdle

LEMMA CopiesHold == Spec => [](ClaimInv /\ LossInv /\ CopyInv)
<1>1. Init => ClaimInv /\ LossInv /\ CopyInv
  BY ClaimInit, LossInit, CopyInit
<1>2. ClaimInv /\ LossInv /\ CopyInv /\ [Next]_vars => (ClaimInv /\ LossInv /\ CopyInv)'
  <2> SUFFICES ASSUME ClaimInv, LossInv, CopyInv, [Next]_vars PROVE (ClaimInv /\ LossInv /\ CopyInv)'
    OBVIOUS
  <2>1. ClaimInv'
    BY ClaimStep
  <2>2. LossInv'
    BY IdentityStep, CoveredStep DEF LossInv
  <2>3. Known' /\ FetchedStays' /\ OneToken'
    BY KnownStep, StaysStep, OneTokenStep DEF CopyInv, LossInv
  <2> QED
    BY <2>1, <2>2, <2>3 DEF CopyInv
<1> QED
  BY <1>1, <1>2, PTL DEF Spec
-----------------------------------------------------------------------------
(* From tokens to the number of copies: a copy without a token is the row    *)
(* some move is about to delete, and a move deletes one row.                 *)

\* A set with at most one element has no two elements that differ.
LEMMA AtMostOne ==
  ASSUME NEW S, IsFiniteSet(S), Cardinality(S) <= 1, NEW a \in S, NEW b \in S
  PROVE  a = b
<1> SUFFICES ASSUME a # b PROVE FALSE
  OBVIOUS
<1>1. IsFiniteSet({a}) /\ Cardinality({a}) = 1
  BY FS_Singleton
<1>2. Cardinality({a} \cup {b}) = 2
  BY <1>1, FS_AddElement
<1>3. Cardinality({a} \cup {b}) <= Cardinality(S)
  BY FS_Subset
<1>4. Cardinality(S) \in Nat
  BY FS_CardinalityType
<1> QED
  BY <1>2, <1>3, <1>4

\* A set that a finite set's image covers but for one element is at most one larger.
LEMMA OneMore ==
  ASSUME NEW M, IsFiniteSet(M), NEW S, NEW h, h = [x \in M |-> h[x]],
         \A a, b \in S : (\A x \in M : h[x] # a /\ h[x] # b) => a = b
  PROVE  Cardinality(S) <= 1 + Cardinality(M)
<1> DEFINE D == {h[x] : x \in M}
<1>1. IsFiniteSet(D) /\ Cardinality(D) <= Cardinality(M)
  <2>1. h \in [M -> D]
    OBVIOUS
  <2>2. h \in Surjection(M, D)
    BY <2>1 DEF Surjection
  <2> QED
    BY <2>2, FS_Surjection
<1>2. \A a, b \in S \ D : a = b
  OBVIOUS
<1> HIDE DEF D
<1>3. Cardinality(D) \in Nat /\ Cardinality(M) \in Nat
  BY <1>1, FS_CardinalityType
<1>4. CASE S \subseteq D
  <2>1. IsFiniteSet(S) /\ Cardinality(S) <= Cardinality(D)
    BY <1>1, <1>4, FS_Subset
  <2>2. Cardinality(S) \in Nat
    BY <2>1, FS_CardinalityType
  <2> QED
    BY <1>1, <1>3, <2>1, <2>2
<1>5. ASSUME NEW a \in S, a \notin D PROVE Cardinality(S) <= 1 + Cardinality(M)
  <2>1. S \subseteq D \cup {a}
    BY <1>2, <1>5
  <2>2. IsFiniteSet(D \cup {a}) /\ Cardinality(D \cup {a}) = Cardinality(D) + 1
    BY <1>1, <1>5, FS_AddElement
  <2>3. IsFiniteSet(S) /\ Cardinality(S) <= Cardinality(D \cup {a})
    BY <2>1, <2>2, FS_Subset
  <2>4. Cardinality(S) \in Nat
    BY <2>3, FS_CardinalityType
  <2> QED
    BY <1>1, <1>3, <2>2, <2>3, <2>4
<1> QED
  BY <1>4, <1>5

LEMMA MovesFinite == \A m \in Msgs : IsFiniteSet(Moves(m))
<1> SUFFICES ASSUME NEW m \in Msgs PROVE IsFiniteSet(Moves(m))
  OBVIOUS
<1>1. IsFiniteSet(Workers \cup Clis)
  BY ProcessAssumption, FS_Union
<1>2. Moves(m) \subseteq Workers \cup Clis
  BY DEF Moves
<1> QED
  BY <1>1, <1>2, FS_Subset

LEMMA TokensCount == ClaimInv /\ LossInv /\ CopyInv => SingleCopyWhenQuiet
<1> SUFFICES ASSUME ClaimInv, LossInv, CopyInv, Quiet, overrun = {}, Cardinality(Clis) <= 1,
                    NEW m \in Msgs
             PROVE  Cardinality(Copies(m)) <= 1 + Cardinality(Moves(m))
  BY DEF SingleCopyWhenQuiet
<1>1. Calm
  BY AtMostOne, ProcessAssumption DEF Calm
<1>2. /\ \A i, j \in Stamps : JobToken(i, m) /\ JobToken(j, m) => i = j
      /\ \A s, t \in Stamps : FailToken(s, m) /\ FailToken(t, m) => s = t
      /\ \A i, s \in Stamps : ~(JobToken(i, m) /\ FailToken(s, m))
  BY <1>1 DEF CopyInv, OneToken
<1> DEFINE Doomed(x) == IF x \in Workers THEN <<"job", job[x].id>> ELSE <<"failed", cli[x].fid>>
           h == [x \in Moves(m) |-> Doomed(x)]
\* A row in the queue that no worker is about to delete has the token.
<1>3. ASSUME NEW i \in Stamps, Present(i), jobs[i].msg = m,
             \A x \in Moves(m) : h[x] # <<"job", i>>
      PROVE  JobToken(i, m)
  <2>1. ASSUME NEW w \in Workers, pc[w] = "recorded", job[w].id = i PROVE FALSE
    <3>1. job[w].msg = m
      BY <1>3, <2>1 DEF LossInv, Identity, ClaimInv, Claims, Holding
    <3>2. w \in Moves(m)
      BY <2>1, <3>1 DEF Moves
    <3>3. h[w] = <<"job", i>>
      BY <2>1, <3>2
    <3> QED
      BY <1>3, <3>2, <3>3
  <2> QED
    BY <1>3, <2>1 DEF JobToken
\* A failed row that no operator is about to delete has the token.
<1>4. ASSUME NEW f \in Stamps, failed[f] # None, failed[f].msg = m,
             \A x \in Moves(m) : h[x] # <<"failed", f>>
      PROVE  FailToken(failed[f].stamp, m)
  <2>1. ASSUME NEW c \in Clis, cli[c].at = "inserted", cli[c].stamp = failed[f].stamp PROVE FALSE
    <3>1. cli[c].msg = m /\ cli[c].fid = f
      BY <1>4, <2>1 DEF LossInv, Identity, CopyInv, FetchedStays
    <3>2. c \in Moves(m) /\ c \notin Workers
      BY <2>1, <3>1, ProcessAssumption DEF Moves
    <3>3. h[c] = <<"failed", f>>
      BY <3>1, <3>2
    <3> QED
      BY <1>4, <3>2, <3>3
  <2> QED
    BY <1>4, <2>1 DEF FailToken
<1>5. \A f \in Stamps : failed[f] # None => failed[f].stamp \in Stamps
  BY DEF ClaimInv, TypeOK, FRow
<1>6. \A f, g \in Stamps : failed[f] # None /\ failed[g] # None /\ failed[f].stamp = failed[g].stamp => f = g
  BY DEF LossInv, Identity
<1>7. h = [x \in Moves(m) |-> h[x]]
  OBVIOUS
<1> HIDE DEF h
<1>8. ASSUME NEW a \in Copies(m), NEW b \in Copies(m), \A x \in Moves(m) : h[x] # a /\ h[x] # b
      PROVE  a = b
  <2>1. CASE a[1] = "job" /\ b[1] = "job"
    <3>1. PICK i \in Stamps : Present(i) /\ jobs[i].msg = m /\ a = <<"job", i>>
      BY <2>1 DEF Copies
    <3>2. PICK j \in Stamps : Present(j) /\ jobs[j].msg = m /\ b = <<"job", j>>
      BY <2>1 DEF Copies
    <3> QED
      BY <1>2, <1>3, <1>8, <3>1, <3>2
  <2>2. ASSUME NEW x \in {a, b}, NEW y \in {a, b}, x[1] = "job", y[1] = "failed" PROVE FALSE
    <3>1. PICK i \in Stamps : Present(i) /\ jobs[i].msg = m /\ x = <<"job", i>>
      BY <2>2 DEF Copies
    <3>2. PICK f \in Stamps : failed[f] # None /\ failed[f].msg = m /\ y = <<"failed", f>>
      BY <2>2 DEF Copies
    <3>3. JobToken(i, m) /\ FailToken(failed[f].stamp, m)
      BY <1>3, <1>4, <1>8, <3>1, <3>2
    <3> QED
      BY <1>2, <1>5, <3>2, <3>3
  <2>3. CASE a[1] = "failed" /\ b[1] = "failed"
    <3>1. PICK f \in Stamps : failed[f] # None /\ failed[f].msg = m /\ a = <<"failed", f>>
      BY <2>3 DEF Copies
    <3>2. PICK g \in Stamps : failed[g] # None /\ failed[g].msg = m /\ b = <<"failed", g>>
      BY <2>3 DEF Copies
    <3>3. FailToken(failed[f].stamp, m) /\ FailToken(failed[g].stamp, m)
      BY <1>4, <1>8, <3>1, <3>2
    <3> QED
      BY <1>2, <1>5, <1>6, <3>1, <3>2, <3>3
  <2>4. a[1] \in {"job", "failed"} /\ b[1] \in {"job", "failed"}
    BY DEF Copies
  <2> QED
    BY <2>1, <2>2, <2>3, <2>4
<1> QED
  BY <1>7, <1>8, MovesFinite, OneMore

\* Without overruns, faults and crashes, and with one operator at a time, a message has one
\* copy and one more for every move under way, and one record for each row that failed,
\* however many workers move rows between the tables (Worker::markAsFailed, Worker::retry).
THEOREM NothingIsMovedTwice == Spec => []OneCopyWhenQuiet
<1>1. ClaimInv /\ ResultInv => OneFailureRecordWhenQuiet
  BY DEF ResultInv
<1>2. ClaimInv /\ LossInv /\ CopyInv => SingleCopyWhenQuiet
  BY TokensCount
<1>3. OneFailureRecordWhenQuiet /\ SingleCopyWhenQuiet => OneCopyWhenQuiet
  BY DEF OneCopyWhenQuiet
<1> QED
  BY <1>1, <1>2, <1>3, ResultsHold, CopiesHold, PTL
=============================================================================
