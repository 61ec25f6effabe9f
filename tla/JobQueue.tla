------------------------------ MODULE JobQueue ------------------------------
(***************************************************************************)
(* The database queue of systems/Core/Queue: Dispatcher::dispatch inserts  *)
(* rows into the jobs table, any number of `queue:work` processes claim,   *)
(* run, release, delete or bury them, and operators run queue:retry,       *)
(* queue:flush and queue:clear beside them.                                *)
(*                                                                         *)
(* Time.  Every DATETIME column is kept as its distance from the current   *)
(* second: `reserved` is how long ago reserved_at was, `lead` is how far   *)
(* ahead available_at is (negative once it has passed).  Tick moves all of *)
(* them by one; they saturate where no comparison of the code can tell the *)
(* difference any more, so that time itself needs no bound.                *)
(*                                                                         *)
(* Row ids are random 128-bit strings in the code.  Here one counter gives *)
(* rows of both tables a creation stamp: it names job rows, and tells a    *)
(* failed row from a later one that got the same AUTO_INCREMENT id.        *)
(***************************************************************************)
EXTENDS Integers, FiniteSets

CONSTANTS
  Workers,      \* the queue:work processes
  Clis,         \* operator processes running queue:retry
  Msgs,         \* the Job objects the application dispatches
  None,         \* SQL NULL, an absent row, an empty local
  Kind,         \* [Msgs -> PayloadKinds]
  MsgTries,     \* [Msgs -> Nat \cup {None}]: the $tries of the job
  WorkerTries,  \* --tries of the workers
  RetryAfter,   \* connections.database.retry_after
  Backoff,      \* the 5 seconds of Worker::release
  Delays,       \* the delays jobs are dispatched with
  Slack,        \* bound: seconds from pop()'s date() to its commit
  Past,         \* bound: how long an overdue available_at keeps its order
  AttemptsCap,  \* the largest attempts the TINYINT UNSIGNED column holds
  MaxInserts,   \* bound: rows ever inserted into the two tables
  MaxFaults,    \* bound: statements the database makes fail
  MaxCrashes,   \* bound: processes killed
  Macros,       \* the macros the deployment registers on the connection
  Commands      \* the operator commands in use

PayloadKinds == {"valid", "badclass", "undecodable"}

ASSUME TimeAssumption ==
  /\ RetryAfter \in Nat \ {0} /\ Backoff \in Nat
  /\ Delays \subseteq Nat
  /\ Slack \in Nat /\ Slack < RetryAfter
  /\ Past \in Nat /\ Slack <= Past

ASSUME JobAssumption ==
  /\ Kind \in [Msgs -> PayloadKinds]
  /\ MsgTries \in [Msgs -> Nat \cup {None}]
  /\ WorkerTries \in Nat
  /\ AttemptsCap \in Nat \ {0}
  /\ MaxInserts \in Nat /\ MaxFaults \in Nat /\ MaxCrashes \in Nat

\* The processes are finitely many, and a worker is no operator.
ASSUME ProcessAssumption ==
  IsFiniteSet(Workers) /\ IsFiniteSet(Clis) /\ Workers \cap Clis = {}

\* NULL is none of the values a column, a local or a row can hold.
ASSUME NoneAssumption ==
  /\ None \notin Nat
  /\ None \notin [msg: Msgs, attempts: Nat, reserved: Nat \cup {None}, lead: Int]
  /\ None \notin [msg: Msgs, stamp: Nat, origin: Nat]
  /\ None \notin [id: Nat, msg: Msgs, attempts: Nat]

VARIABLES
  jobs,        \* table system_jobs: stamp -> row or None
  failed,      \* table system_failed_jobs: AUTO_INCREMENT id -> row or None
  nextStamp,   \* stamp of the next row inserted anywhere
  nextFailed,  \* AUTO_INCREMENT of system_failed_jobs
  pc,          \* where each worker is
  job,         \* $jobRow of each worker
  lag,         \* seconds since the worker's pop() read the clock
  held,        \* seconds since the reserved_at the worker wrote
  cli,         \* each operator process: its step and what it fetched
  dispatched,  \* messages dispatch() was called for
  done,        \* messages whose handle() returned
  excused,     \* messages whose loss has a recorded cause
  overrun,     \* job rows some worker kept beyond RetryAfter
  handled,     \* job rows whose handle() returned
  rehandled,   \* job rows whose handle() returned more than once
  faults, crashes

tables  == <<jobs, failed, nextStamp, nextFailed>>
workers == <<pc, job, lag, held>>
history == <<dispatched, done, excused, overrun, handled, rehandled>>
vars    == <<tables, workers, cli, history, faults, crashes>>

Stamps == 1..MaxInserts
LeastOf(a, b) == IF a <= b THEN a ELSE b
Oldest == RetryAfter + Slack

Row  == [msg: Msgs, attempts: 0..AttemptsCap,
         reserved: (0..Oldest) \cup {None}, lead: Int]
FRow == [msg: Msgs, stamp: Stamps, origin: Stamps]
Claim == [id: Stamps, msg: Msgs, attempts: 0..AttemptsCap]
PCs  == {"down", "idle", "polled", "locked", "claimed", "running", "handled",
         "hook", "deciding", "recorded"}
CliState == [at: {"idle", "fetched", "inserted"}, fid: Stamps \cup {None},
             msg: Msgs \cup {None}, stamp: Stamps \cup {None}]
CliIdle == [at |-> "idle", fid |-> None, msg |-> None, stamp |-> None]

TypeOK ==
  /\ jobs \in [Stamps -> Row \cup {None}]
  /\ failed \in [Stamps -> FRow \cup {None}]
  /\ nextStamp \in 1..(MaxInserts + 1)
  /\ nextFailed \in 1..(MaxInserts + 1)
  /\ pc \in [Workers -> PCs]
  /\ job \in [Workers -> Claim \cup {None}]
  /\ lag \in [Workers -> 0..Slack]
  /\ held \in [Workers -> 0..RetryAfter]
  /\ cli \in [Clis -> CliState]
  /\ dispatched \subseteq Msgs /\ done \subseteq Msgs /\ excused \subseteq Msgs
  /\ overrun \subseteq Stamps /\ handled \subseteq Stamps
  /\ rehandled \subseteq Stamps
  /\ faults \in 0..MaxFaults /\ crashes \in 0..MaxCrashes

Init ==
  /\ jobs = [i \in Stamps |-> None] /\ failed = [f \in Stamps |-> None]
  /\ nextStamp = 1 /\ nextFailed = 1
  /\ pc = [w \in Workers |-> "down"] /\ job = [w \in Workers |-> None]
  /\ lag = [w \in Workers |-> 0] /\ held = [w \in Workers |-> 0]
  /\ cli = [c \in Clis |-> CliIdle]
  /\ dispatched = {} /\ done = {} /\ excused = {}
  /\ overrun = {} /\ handled = {} /\ rehandled = {}
  /\ faults = 0 /\ crashes = 0

-----------------------------------------------------------------------------
(* Reading the state. *)

Present(i) == jobs[i] # None

\* The worker has committed a claim and has not finished with the job.
Holding(w) == pc[w] \in {"claimed", "running", "handled", "hook", "deciding", "recorded"}
Holds(w, i) == Holding(w) /\ job[w].id = i

\* The row is locked by the open transaction of some pop().
Locked(i) == \E w \in Workers : pc[w] = "locked" /\ job[w].id = i

\* Mutant: reservations expire one second early.
ExpiresEarly(i, l) ==
  /\ Present(i)
  /\ jobs[i].reserved = None \/ jobs[i].reserved - l >= RetryAfter - 1
  /\ jobs[i].lead + l <= 0

\* Mutant: only rows that were never reserved, or were released, are claimed.
NeverExpires(i, l) == Present(i) /\ jobs[i].reserved = None /\ jobs[i].lead + l <= 0

\* The WHERE clause of pop(), for a worker that read the clock l seconds ago.
Claimable(i, l) ==
  /\ Present(i)
  /\ jobs[i].reserved = None \/ jobs[i].reserved - l >= RetryAfter
  /\ jobs[i].lead + l <= 0

\* Mutant: a plain SELECT also returns rows another transaction is reserving.
IgnoresLocks(l) == {i \in Stamps : Claimable(i, l)}

\* FOR UPDATE SKIP LOCKED passes over rows another transaction has locked.
Candidates(l) == {i \in Stamps : Claimable(i, l) /\ ~Locked(i)}

\* $payload['tries'] ?? $maxTries
Tries(m) == IF MsgTries[m] = None THEN WorkerTries ELSE MsgTries[m]
Exhausted(w) == job[w].attempts >= Tries(job[w].msg)

Fault == faults < MaxFaults /\ faults' = faults + 1 /\ UNCHANGED crashes
NoFault == UNCHANGED <<faults, crashes>>

-----------------------------------------------------------------------------
(* The clock. *)

Aged(r) ==
  [r EXCEPT !.reserved = IF @ = None THEN None ELSE LeastOf(@ + 1, Oldest),
            !.lead = IF @ - 1 < -Past THEN -Past ELSE @ - 1]

Tick ==
  /\ \A w \in Workers : pc[w] \in {"polled", "locked"} => lag[w] < Slack
  /\ jobs' = [i \in Stamps |-> IF Present(i) THEN Aged(jobs[i]) ELSE None]
  /\ lag' = [w \in Workers |->
               IF pc[w] \in {"polled", "locked"} THEN lag[w] + 1 ELSE lag[w]]
  /\ held' = [w \in Workers |->
                IF Holding(w) THEN LeastOf(held[w] + 1, RetryAfter) ELSE held[w]]
  /\ overrun' = overrun \cup
       {job[w].id : w \in {v \in Workers : Holding(v) /\ held[v] + 1 >= RetryAfter}}
  /\ UNCHANGED <<failed, nextStamp, nextFailed, pc, job, cli, dispatched, done,
                 excused, handled, rehandled>>
  /\ NoFault

-----------------------------------------------------------------------------
(* Dispatcher::dispatch with the database driver. *)

InsertJob(m, d) ==
  /\ nextStamp <= MaxInserts
  /\ nextStamp' = nextStamp + 1
  /\ jobs' = [jobs EXCEPT ![nextStamp] =
                [msg |-> m, attempts |-> 0, reserved |-> None, lead |-> d]]

Dispatch(m, d) ==
  /\ m \notin dispatched
  /\ InsertJob(m, d)
  /\ dispatched' = dispatched \cup {m}
  /\ UNCHANGED <<failed, nextFailed, workers, cli, done, excused, overrun,
                 handled, rehandled>>
  /\ NoFault

\* The insert throws: it is logged and the caller gets null instead of an id.
DispatchFails(m) ==
  /\ m \notin dispatched
  /\ Fault
  /\ dispatched' = dispatched \cup {m} /\ excused' = excused \cup {m}
  /\ UNCHANGED <<tables, workers, cli, done, overrun, handled, rehandled>>

-----------------------------------------------------------------------------
(* Worker::work and Worker::pop. *)

GoTo(w, l) == pc' = [pc EXCEPT ![w] = l]
Drop(w) == job' = [job EXCEPT ![w] = None]

\* The constructor runs Dispatcher::ensureTable, which needs rawQuery().
Start(w) ==
  /\ pc[w] = "down" /\ "rawQuery" \in Macros
  /\ GoTo(w, "idle")
  /\ UNCHANGED <<tables, job, lag, held, cli, history>> /\ NoFault

\* SIGTERM or SIGINT noticed at the head of the loop, or --once is over.
Quit(w) ==
  /\ pc[w] = "idle"
  /\ GoTo(w, "down")
  /\ UNCHANGED <<tables, job, lag, held, cli, history>> /\ NoFault

\* pop() computes $now and $expiredReservation before its transaction.
ReadClock(w) ==
  /\ pc[w] = "idle"
  /\ GoTo(w, "polled") /\ lag' = [lag EXCEPT ![w] = 0]
  /\ UNCHANGED <<tables, job, held, cli, history>> /\ NoFault

\* The SELECT ... ORDER BY available_at ASC LIMIT 1 locks the row it returns.
Select(w) ==
  /\ pc[w] = "polled"
  /\ \E i \in Candidates(lag[w]) :
       /\ \A j \in Candidates(lag[w]) : jobs[i].lead <= jobs[j].lead
       /\ job' = [job EXCEPT ![w] = [id |-> i, msg |-> jobs[i].msg,
                                     attempts |-> jobs[i].attempts]]
  /\ GoTo(w, "locked")
  /\ UNCHANGED <<tables, lag, held, cli, history>> /\ NoFault

\* No row: pop() returns null and the loop sleeps.
FindNothing(w) ==
  /\ pc[w] = "polled" /\ Candidates(lag[w]) = {}
  /\ GoTo(w, "idle")
  /\ UNCHANGED <<tables, job, lag, held, cli, history>> /\ NoFault

\* Mutant: attempts may leave the range of the column.
ReservesBeyondCap(w) ==
  /\ pc[w] = "locked" /\ "raw" \in Macros
  /\ jobs' = [jobs EXCEPT ![job[w].id].reserved = lag[w],
                          ![job[w].id].attempts = @ + 1]
  /\ job' = [job EXCEPT ![w].attempts = @ + 1]
  /\ held' = [held EXCEPT ![w] = lag[w]]
  /\ GoTo(w, "claimed")
  /\ UNCHANGED <<failed, nextStamp, nextFailed, lag, cli, history>> /\ NoFault

\* The UPDATE that reserves the row, and the commit that releases the lock.
Reserve(w) ==
  /\ pc[w] = "locked" /\ "raw" \in Macros
  /\ job[w].attempts < AttemptsCap
  /\ jobs' = [jobs EXCEPT ![job[w].id].reserved = lag[w],
                          ![job[w].id].attempts = @ + 1]
  /\ job' = [job EXCEPT ![w].attempts = @ + 1]
  /\ held' = [held EXCEPT ![w] = lag[w]]
  /\ GoTo(w, "claimed")
  /\ UNCHANGED <<failed, nextStamp, nextFailed, lag, cli, history>> /\ NoFault

\* raw() is no method of the connection, or attempts + 1 is out of the range of
\* the column: the transaction rolls back, pop() logs and returns null.
ReserveRejected(w) ==
  /\ pc[w] = "locked"
  /\ "raw" \notin Macros \/ job[w].attempts >= AttemptsCap
  /\ GoTo(w, "idle") /\ Drop(w)
  /\ UNCHANGED <<tables, lag, held, cli, history>> /\ NoFault

\* Any other statement of pop() throws: rolled back, logged, null.
PopFault(w) ==
  /\ pc[w] \in {"polled", "locked"}
  /\ Fault
  /\ GoTo(w, "idle") /\ Drop(w)
  /\ UNCHANGED <<tables, lag, held, cli, history>>

-----------------------------------------------------------------------------
(* Worker::process. *)

\* An undecodable payload throws outside the try: work() and the process end,
\* the row stays reserved.
DecodeFails(w) ==
  /\ pc[w] = "claimed" /\ Kind[job[w].msg] = "undecodable"
  /\ GoTo(w, "down") /\ Drop(w)
  /\ UNCHANGED <<tables, lag, held, cli, history>> /\ NoFault

\* Job::fromPayload restores the job, or throws inside the try if its class is gone:
\* then there is no instance to call failed() on.
Restored(m) == IF Kind[m] = "badclass" THEN "deciding" ELSE "running"

StartHandle(w) ==
  /\ pc[w] = "claimed" /\ Kind[job[w].msg] # "undecodable"
  /\ GoTo(w, Restored(job[w].msg))
  /\ UNCHANGED <<tables, job, lag, held, cli, history>> /\ NoFault

\* handle() ends when it likes, whatever --timeout says: the SIGALRM handler runs
\* only where the process calls pcntl_signal_dispatch, which is the head of the loop.
HandleReturns(w) ==
  /\ pc[w] = "running"
  /\ GoTo(w, "handled")
  /\ done' = done \cup {job[w].msg}
  /\ handled' = handled \cup {job[w].id}
  /\ rehandled' = IF job[w].id \in handled THEN rehandled \cup {job[w].id} ELSE rehandled
  /\ UNCHANGED <<tables, job, lag, held, cli, dispatched, excused, overrun>>
  /\ NoFault

HandleThrows(w) ==
  /\ pc[w] = "running"
  /\ GoTo(w, "hook")
  /\ UNCHANGED <<tables, job, lag, held, cli, history>> /\ NoFault

\* DELETE ... WHERE id = ?, whoever holds the reservation now.
DeleteRow(w) ==
  /\ ~Locked(job[w].id)
  /\ jobs' = [jobs EXCEPT ![job[w].id] = None]
  /\ UNCHANGED <<failed, nextStamp, nextFailed>>

DeleteHandled(w) ==
  /\ pc[w] = "handled"
  /\ DeleteRow(w)
  /\ GoTo(w, "idle") /\ Drop(w)
  /\ UNCHANGED <<lag, held, cli, history>> /\ NoFault

\* The delete is inside the try: its failure counts as a failure of the job.
DeleteHandledFails(w) ==
  /\ pc[w] = "handled"
  /\ Fault
  /\ GoTo(w, "hook")
  /\ UNCHANGED <<tables, job, lag, held, cli, history>>

\* failed() is called for every throwable, and what it throws is ignored.
CallFailed(w) ==
  /\ pc[w] = "hook"
  /\ GoTo(w, "deciding")
  /\ UNCHANGED <<tables, job, lag, held, cli, history>> /\ NoFault

\* Worker::release: UPDATE ... WHERE id = ?, a no-op when the row is gone.
Release(w) ==
  /\ pc[w] = "deciding" /\ ~Exhausted(w)
  /\ ~Locked(job[w].id)
  /\ jobs' = IF Present(job[w].id)
             THEN [jobs EXCEPT ![job[w].id].reserved = None, ![job[w].id].lead = Backoff]
             ELSE jobs
  /\ GoTo(w, "idle") /\ Drop(w)
  /\ UNCHANGED <<failed, nextStamp, nextFailed, lag, held, cli, history>>
  /\ NoFault

\* The statement of release() throws inside the catch: the process ends.
ReleaseFails(w) ==
  /\ pc[w] = "deciding" /\ ~Exhausted(w)
  /\ Fault
  /\ GoTo(w, "down") /\ Drop(w)
  /\ UNCHANGED <<tables, lag, held, cli, history>>

\* Worker::markAsFailed, first half.
RecordFailure(w) ==
  /\ pc[w] = "deciding" /\ Exhausted(w)
  /\ nextStamp <= MaxInserts
  /\ failed' = [failed EXCEPT ![nextFailed] =
                  [msg |-> job[w].msg, stamp |-> nextStamp, origin |-> job[w].id]]
  /\ nextFailed' = nextFailed + 1 /\ nextStamp' = nextStamp + 1
  /\ GoTo(w, "recorded")
  /\ UNCHANGED <<jobs, job, lag, held, cli, history>> /\ NoFault

\* The insert throws: logged, and the job is deleted all the same.
RecordFailureFails(w) ==
  /\ pc[w] = "deciding" /\ Exhausted(w)
  /\ Fault
  /\ GoTo(w, "recorded")
  /\ excused' = excused \cup {job[w].msg}
  /\ UNCHANGED <<tables, job, lag, held, cli, dispatched, done, overrun,
                 handled, rehandled>>

\* Worker::markAsFailed, second half.
DeleteFailed(w) ==
  /\ pc[w] = "recorded"
  /\ DeleteRow(w)
  /\ GoTo(w, "idle") /\ Drop(w)
  /\ UNCHANGED <<lag, held, cli, history>> /\ NoFault

\* The delete throws inside the catch: the process ends.
DeleteFailedFails(w) ==
  /\ pc[w] = "recorded"
  /\ Fault
  /\ GoTo(w, "down") /\ Drop(w)
  /\ UNCHANGED <<tables, lag, held, cli, history>>

\* kill -9, out of memory, a lost connection: an open transaction rolls back.
Crash(w) ==
  /\ pc[w] # "down" /\ crashes < MaxCrashes
  /\ crashes' = crashes + 1 /\ UNCHANGED faults
  /\ GoTo(w, "down") /\ Drop(w)
  /\ UNCHANGED <<tables, lag, held, cli, history>>

-----------------------------------------------------------------------------
(* Worker::retry, flush and clear, each in an operator process.  retryAll    *)
(* is retry for every id of one listing.                                     *)

Keep(c, at, f) ==
  cli' = [cli EXCEPT ![c] = [at |-> at, fid |-> f, msg |-> failed[f].msg,
                             stamp |-> failed[f].stamp]]
CliDone(c) == cli' = [cli EXCEPT ![c] = CliIdle]

\* Mutant: the failed row is deleted before the job is pushed back.
DeletesOnFetch(c, f) ==
  /\ "retry" \in Commands /\ "rawQuery" \in Macros
  /\ cli[c].at = "idle" /\ failed[f] # None
  /\ Keep(c, "fetched", f)
  /\ failed' = [failed EXCEPT ![f] = None]
  /\ UNCHANGED <<jobs, nextStamp, nextFailed, workers, history>> /\ NoFault

RetryFetch(c, f) ==
  /\ "retry" \in Commands /\ "rawQuery" \in Macros
  /\ cli[c].at = "idle" /\ failed[f] # None
  /\ Keep(c, "fetched", f)
  /\ UNCHANGED <<tables, workers, history>> /\ NoFault

RetryInsert(c) ==
  /\ cli[c].at = "fetched"
  /\ InsertJob(cli[c].msg, 0)
  /\ cli' = [cli EXCEPT ![c].at = "inserted"]
  /\ UNCHANGED <<failed, nextFailed, workers, history>> /\ NoFault

\* Mutant: the failed row survives its retry.
KeepsRetriedRow(c) ==
  /\ cli[c].at = "inserted"
  /\ CliDone(c)
  /\ UNCHANGED <<tables, workers, history>> /\ NoFault

\* The delete goes by id; a row that only reuses the id of the one fetched
\* goes with it.
RetryDelete(c) ==
  /\ cli[c].at = "inserted"
  /\ LET f == cli[c].fid IN
       /\ failed' = [failed EXCEPT ![f] = None]
       /\ excused' = IF failed[f] # None /\ failed[f].stamp # cli[c].stamp
                     THEN excused \cup {failed[f].msg} ELSE excused
  /\ CliDone(c)
  /\ UNCHANGED <<jobs, nextStamp, nextFailed, workers, dispatched, done, overrun,
                 handled, rehandled>>
  /\ NoFault

\* The process dies between two steps of retry().
RetryCrash(c) ==
  /\ cli[c].at # "idle" /\ crashes < MaxCrashes
  /\ crashes' = crashes + 1 /\ UNCHANGED faults
  /\ CliDone(c)
  /\ UNCHANGED <<tables, workers, history>>

\* The insert or the delete throws: caught, retry() returns false.
RetryFails(c) ==
  /\ cli[c].at # "idle"
  /\ Fault
  /\ CliDone(c)
  /\ UNCHANGED <<tables, workers, history>>

\* TRUNCATE TABLE: the table is empty and its AUTO_INCREMENT starts again.
Flush ==
  /\ "flush" \in Commands /\ "rawQuery" \in Macros
  /\ excused' = excused \cup {failed[f].msg : f \in {g \in Stamps : failed[g] # None}}
  /\ failed' = [f \in Stamps |-> None] /\ nextFailed' = 1
  /\ UNCHANGED <<jobs, nextStamp, workers, cli, dispatched, done, overrun,
                 handled, rehandled>>
  /\ NoFault

\* DELETE ... WHERE queue = ?, pending and reserved rows alike.
Clear ==
  /\ "clear" \in Commands /\ "rawQuery" \in Macros
  /\ \A i \in Stamps : ~Locked(i)
  /\ excused' = excused \cup {jobs[i].msg : i \in {j \in Stamps : Present(j)}}
  /\ jobs' = [i \in Stamps |-> None]
  /\ UNCHANGED <<failed, nextStamp, nextFailed, workers, cli, dispatched, done,
                 overrun, handled, rehandled>>
  /\ NoFault

-----------------------------------------------------------------------------
PopStep(w) ==
  \/ ReadClock(w) \/ Select(w) \/ FindNothing(w)
  \/ Reserve(w) \/ ReserveRejected(w)

ProcessStep(w) ==
  \/ DecodeFails(w) \/ StartHandle(w)
  \/ HandleReturns(w) \/ HandleThrows(w) \/ CallFailed(w)
  \/ DeleteHandled(w) \/ Release(w) \/ RecordFailure(w) \/ DeleteFailed(w)

WorkerFault(w) ==
  \/ PopFault(w) \/ DeleteHandledFails(w) \/ ReleaseFails(w)
  \/ RecordFailureFails(w) \/ DeleteFailedFails(w) \/ Crash(w)

RetryStep(c) ==
  \/ \E f \in Stamps : RetryFetch(c, f)
  \/ RetryInsert(c) \/ RetryDelete(c)
RetryFault(c) == RetryCrash(c) \/ RetryFails(c)

Next ==
  \/ Tick
  \/ \E m \in Msgs : (\E d \in Delays : Dispatch(m, d)) \/ DispatchFails(m)
  \/ \E w \in Workers : Start(w) \/ Quit(w) \/ PopStep(w) \/ ProcessStep(w) \/ WorkerFault(w)
  \/ \E c \in Clis : RetryStep(c) \/ RetryFault(c)
  \/ Flush \/ Clear

Spec == Init /\ [][Next]_vars

\* The clock runs (the guard of Tick only bounds the seconds inside a pop(), hence
\* strong fairness), a worker that is up is scheduled, and handle() ends.
\* Nothing obliges anyone to dispatch, to start or stop a worker, or to run an
\* operator command to its end.
Fairness ==
  /\ SF_vars(Tick)
  /\ \A w \in Workers : WF_vars(PopStep(w)) /\ WF_vars(ProcessStep(w))

FairSpec == Spec /\ Fairness

\* As above, under a process supervisor that restarts every worker that ends.
SupervisedSpec == FairSpec /\ \A w \in Workers : WF_vars(Start(w))

-----------------------------------------------------------------------------
(* Properties. *)

InJobs(m) == \E i \in Stamps : Present(i) /\ jobs[i].msg = m
InFailed(m) == \E f \in Stamps : failed[f] # None /\ failed[f].msg = m
Quiet == faults = 0 /\ crashes = 0

\* No job is lost silently: a dispatched message is in the jobs table or in the
\* failed table, or its handle() returned, or its loss has one of the causes the
\* code accepts: a failed insert it only logs, queue:clear, queue:flush, or a
\* retry that deletes an id reused after a flush (Dispatcher::dispatchToDatabase,
\* Worker::process, markAsFailed, retry).
NoSilentLoss ==
  \A m \in dispatched : InJobs(m) \/ InFailed(m) \/ m \in done \/ m \in excused

\* Two processes work on one job row only after some worker kept that row for
\* RetryAfter seconds (the claim of Worker::pop).
SharedOnlyAfterOverrun ==
  \A w, v \in Workers : \A i \in Stamps :
    Holds(w, i) /\ Holds(v, i) /\ w # v => i \in overrun

\* A job row is handled to the end twice only after an overrun, a failed
\* statement or a crash: a job that is merely retried never succeeds twice.
HandledOnceWhenQuiet == Quiet => rehandled \subseteq overrun

\* One job row leaves two records in the failed table only after an overrun, a
\* failed statement or a crash between the two halves of markAsFailed.
OneFailureRecordWhenQuiet ==
  Quiet => \A f, g \in Stamps :
    /\ f # g /\ failed[f] # None /\ failed[g] # None
    /\ failed[f].origin = failed[g].origin
    => failed[f].origin \in overrun

\* Without overruns, faults and crashes, and with one operator at a time, a
\* message has one copy in the two tables, and one more for every move between
\* them that has inserted and not yet deleted (markAsFailed, retry).
Moves(m) == {w \in Workers : pc[w] = "recorded" /\ job[w].msg = m} \cup
            {c \in Clis : cli[c].at = "inserted" /\ cli[c].msg = m}
Copies(m) == {<<"job", i>> : i \in {j \in Stamps : Present(j) /\ jobs[j].msg = m}} \cup
             {<<"failed", f>> : f \in {g \in Stamps : failed[g] # None /\ failed[g].msg = m}}
SingleCopyWhenQuiet ==
  Quiet /\ overrun = {} /\ Cardinality(Clis) <= 1 =>
    \A m \in Msgs : Cardinality(Copies(m)) <= 1 + Cardinality(Moves(m))

\* The two of them: no statement of a move is done twice or left out.
OneCopyWhenQuiet == OneFailureRecordWhenQuiet /\ SingleCopyWhenQuiet

\* As long as one worker eventually stays up, a queued message is eventually
\* handled or recorded as failed: Worker::work keeps looping, and release() and
\* the expiry of reservations put every unfinished row back within reach.
Resolved(m) == m \in done \/ m \in excused \/ InFailed(m)
QueuedIsResolved ==
  (\E w \in Workers : <>[](pc[w] # "down")) =>
    \A m \in Msgs : m \in dispatched ~> Resolved(m)

\* Worker.php:8 "Processes jobs from the database queue": under a supervised
\* worker, a valid queued job is eventually started.
StartsQueuedJobs ==
  \A m \in Msgs : m \in dispatched /\ Kind[m] = "valid" ~>
    m \in excused \/ \E w \in Workers : pc[w] = "running" /\ job[w].msg = m
=============================================================================
