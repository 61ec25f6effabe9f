----------------------------- MODULE MCBackground -----------------------------
(* Processes that share rows or files and keep at it, with the fairness of their      *)
(* loops: two queue workers with one job, which runs or whose class is gone, two       *)
(* schedulers with one guarded event, a runner with four tasks, and two API clients    *)
(* that rotate the tokens of one user. None of them touches the state of another, so a *)
(* behaviour is about one of them: part says which.                                    *)
EXTENDS TokenRotation, Sequences

CONSTANTS
  Null, w1, w2, m1, backup, r1, r2,
  NumTasks, MaxConcurrentTasks, ProcessTimeout   \* of TaskRunner

\* setMaxConcurrentTasks() refuses less than 1; the timeout is a number of seconds.
ASSUME BackgroundAssumption ==
  NumTasks \in Nat /\ MaxConcurrentTasks \in Nat \ {0} /\ ProcessTimeout \in Nat

VARIABLES
  part,
  jobs, failed, nextStamp, nextFailed, stage, job, lag, held, cli, dispatched, done, excused,
  overrun, handled, rehandled, errors, deaths,
  path, age, owner, at, todo, handle, since, aborted, background, down, outlived, mishaps,
  started, phase, patient, running, polled, alive, killed, ages, waited, young, missed

Runs == INSTANCE JobQueue WITH
  Workers <- {w1, w2}, Clis <- {}, Msgs <- {m1}, Kind <- [m \in {m1} |-> "valid"],
  MsgTries <- [m \in {m1} |-> Null], WorkerTries <- 2, RetryAfter <- 2, Backoff <- 1, Delays <- {0},
  Slack <- 1, Past <- 1, AttemptsCap <- 4, MaxInserts <- 3, MaxFaults <- 0, MaxCrashes <- 1,
  Macros <- {"raw", "rawQuery"}, Commands <- {},
  None <- Null, pc <- stage, faults <- errors, crashes <- deaths
Gone == INSTANCE JobQueue WITH
  Workers <- {w1, w2}, Clis <- {}, Msgs <- {m1}, Kind <- [m \in {m1} |-> "badclass"],
  MsgTries <- [m \in {m1} |-> Null], WorkerTries <- 2, RetryAfter <- 2, Backoff <- 1, Delays <- {0},
  Slack <- 1, Past <- 1, AttemptsCap <- 4, MaxInserts <- 3, MaxFaults <- 0, MaxCrashes <- 1,
  Macros <- {"raw", "rawQuery"}, Commands <- {},
  None <- Null, pc <- stage, faults <- errors, crashes <- deaths
Schedulers == INSTANCE Scheduler WITH
  Runners <- {r1, r2}, Commands <- {backup},
  Events <- << [cmd |-> backup, overlap |-> TRUE, expires |-> 2, evenDown |-> FALSE, background |-> FALSE] >>,
  Inodes <- {1, 2}, MaxBackground <- 0, MaxFaults <- 2,
  None <- Null, pc <- at, faults <- mishaps
Tasks == INSTANCE TaskRunner WITH age <- ages

tokenVars == vars
queueVars == <<jobs, failed, nextStamp, nextFailed, stage, job, lag, held, cli, dispatched, done,
               excused, overrun, handled, rehandled, errors, deaths>>
schedulerVars == <<path, age, owner, at, todo, handle, since, aborted, background, down, outlived,
                   mishaps>>
taskVars == <<started, phase, patient, running, polled, alive, killed, ages, waited, young, missed>>

BackgroundInit ==
  /\ part \in {"tokens", "runs", "gone", "schedulers", "tasks"}
  /\ Init /\ Runs!Init /\ Schedulers!Init /\ Tasks!Init

BackgroundNext ==
  /\ UNCHANGED part
  /\ \/ part = "tokens" /\ Next /\ UNCHANGED <<queueVars, schedulerVars, taskVars>>
     \/ part = "runs" /\ Runs!Next /\ UNCHANGED <<tokenVars, schedulerVars, taskVars>>
     \/ part = "gone" /\ Gone!Next /\ UNCHANGED <<tokenVars, schedulerVars, taskVars>>
     \/ part = "schedulers" /\ Schedulers!Next /\ UNCHANGED <<tokenVars, queueVars, taskVars>>
     \/ part = "tasks" /\ Tasks!Next /\ UNCHANGED <<tokenVars, queueVars, schedulerVars>>

\* A step of a worker, whichever job there is.
PopStep(w) == \/ part = "runs" /\ Runs!PopStep(w)
              \/ part = "gone" /\ Gone!PopStep(w)
ProcessStep(w) == \/ part = "runs" /\ Runs!ProcessStep(w)
                  \/ part = "gone" /\ Gone!ProcessStep(w)

\* The fairness of each part, for the behaviours that are about it.
Fairness ==
  /\ SF_queueVars(part \in {"runs", "gone"} /\ Runs!Tick)
  /\ \A w \in {w1, w2} : WF_queueVars(PopStep(w)) /\ WF_queueVars(ProcessStep(w))
  /\ WF_schedulerVars(part = "schedulers" /\ Schedulers!Tick)
  /\ \A r \in {r1, r2} :
       /\ WF_schedulerVars(part = "schedulers" /\ Schedulers!PassStep(r))
       /\ SF_schedulerVars(part = "schedulers" /\ Schedulers!StartPass(r, {1}))
  /\ WF_taskVars(part = "tasks" /\ Tasks!Step) /\ WF_taskVars(part = "tasks" /\ Tasks!Tick)

BackgroundSpec ==
  /\ BackgroundInit
  /\ [][BackgroundNext]_<<part, tokenVars, queueVars, schedulerVars, taskVars>>
  /\ Fairness

(* ------------------------------ properties ------------------------------- *)
\* A message that was dispatched is handled or recorded as failed, as long as one
\* worker stays up: also the message of a job whose class is gone.
QueuedIsResolved == Runs!QueuedIsResolved

\* The event of a killed scheduler runs again, once its lock has expired, as long as
\* the site does not stay in maintenance.
StaleLockExpires ==
  <>[](part = "schedulers" /\ ~down) =>
    []<>(\E r \in {r1, r2} : at[r] = "running" /\ Schedulers!Cmd(r) = backup)

\* Few children run at a time, and none is left behind.
ChildrenAreSound == Tasks!ChildrenAreSound

\* A run of tasks ends although children hang.
RunEnds == part = "tasks" => Tasks!RunEnds
===============================================================================
