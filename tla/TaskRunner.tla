----------------------------- MODULE TaskRunner -----------------------------
(***************************************************************************)
(* One run() of Components\TaskRunner: the tasks are started as child      *)
(* processes in chunks of maxConcurrentTasks, and each chunk is waited for *)
(* by polling.  There are two ways of waiting: only with resolveDeadlock   *)
(* is a child that is too old terminated, and the wait itself limited.     *)
(*                                                                         *)
(* Tasks are numbered in the order they were added, and a child has the    *)
(* number of its task.  Times are seconds; above the timeout they are      *)
(* alike.                                                                  *)
(***************************************************************************)
EXTENDS Naturals, FiniteSets

CONSTANTS
  NumTasks,           \* tasks that were added
  MaxConcurrentTasks,
  ProcessTimeout

VARIABLES
  started, \* tasks that have been taken: the first so many
  phase,   \* "start", "wait" or "done"
  patient, \* in "wait": without resolveDeadlock
  running, \* runningTasks
  polled,  \* those of them this pass over them has polled
  alive,   \* history: children that have not exited
  killed,  \* history: children that were terminated
  age,     \* seconds since each child was started
  waited,  \* seconds since the wait began
  young,   \* history: those this pass has found young enough
  missed   \* history: a wait has given up on one of those

vars == <<started, phase, patient, running, polled, alive, killed, age, waited, young, missed>>

Tasks == 1..NumTasks
Late == ProcessTimeout + 1

TypeOK ==
  /\ started \in 0..NumTasks /\ phase \in {"start", "wait", "done"} /\ patient \in BOOLEAN
  /\ running \subseteq 1..started /\ polled \subseteq running
  /\ alive \subseteq 1..started /\ killed \subseteq 1..started
  /\ age \in [Tasks -> 0..Late] /\ waited \in 0..Late
  /\ young \subseteq polled /\ missed \in BOOLEAN

Init ==
  /\ started = 0 /\ phase = "start" /\ patient = FALSE
  /\ running = {} /\ polled = {} /\ alive = {} /\ killed = {}
  /\ age = [t \in Tasks |-> 0] /\ waited = 0
  /\ young = {} /\ missed = FALSE

-----------------------------------------------------------------------------
\* array_chunk(): a chunk ends after maxConcurrentTasks tasks, or with the last one.
EndsAChunk(n) == n = NumTasks \/ n % MaxConcurrentTasks = 0

Wait(p) ==
  /\ phase' = "wait" /\ patient' = p /\ polled' = {} /\ young' = {} /\ waited' = 0

\* Mutant: what is left of an earlier chunk is not counted.
HasRoom == TRUE

Room == Cardinality(running) < MaxConcurrentTasks

\* executeTask(): the child is started, or the path is rejected or proc_open() fails and
\* the task is passed over.
Take(t) ==
  /\ started' = t
  /\ \/ /\ running' = running \cup {t} /\ alive' = alive \cup {t}
        /\ age' = [age EXCEPT ![t] = 0]
     \/ UNCHANGED <<running, alive, age>>

\* executeChunkOfTasks(): after the last task of the chunk comes the wait.
Execute ==
  /\ phase = "start" /\ started < NumTasks /\ Room
  /\ Take(started + 1)
  /\ IF EndsAChunk(started') THEN Wait(FALSE)
     ELSE UNCHANGED <<phase, patient, polled, waited, young>>
  /\ UNCHANGED <<killed, missed>>

\* Children are left of an earlier chunk: the wait for room is without resolveDeadlock.
WaitForRoom ==
  /\ phase = "start" /\ started < NumTasks /\ ~Room
  /\ Wait(TRUE)
  /\ UNCHANGED <<started, running, alive, killed, age, missed>>

\* The log directory cannot be made: the exception ends run().
Throws ==
  /\ phase = "start" /\ started < NumTasks /\ Room
  /\ phase' = "done"
  /\ UNCHANGED <<started, patient, running, polled, alive, killed, age, waited, young, missed>>

\* Mutant: the age of a child is looked at in neither way of waiting.
NeverTooOld(t) == FALSE

\* A child that is older than the timeout, where that counts.
TooOld(t) == age[t] > ProcessTimeout /\ ~patient

\* waitForRunningTasks(): the next child has exited, or is terminated, or goes on.
Poll ==
  /\ phase = "wait"
  /\ \E t \in running \ polled :
       /\ \A u \in running \ polled : t <= u
       /\ IF t \notin alive \/ TooOld(t)
          THEN running' = running \ {t} /\ UNCHANGED <<polled, young>>
          ELSE /\ polled' = polled \cup {t}
               /\ young' = IF age[t] > ProcessTimeout THEN young ELSE young \cup {t}
               /\ UNCHANGED running
       /\ killed' = IF t \in alive /\ TooOld(t) THEN killed \cup {t} ELSE killed
  /\ UNCHANGED <<started, phase, patient, alive, age, waited, missed>>

\* The pass is over, but not the wait.
Again ==
  /\ phase = "wait" /\ running # {} /\ polled = running
  /\ patient \/ waited <= ProcessTimeout
  /\ polled' = {} /\ young' = {}
  /\ UNCHANGED <<started, phase, patient, running, alive, killed, age, waited, missed>>

\* Who waited: the task that waits for room, or run(), which goes on to the next chunk, and
\* after the last one waits until nobody is left.
Return ==
  IF started < NumTasks THEN phase' = "start" /\ UNCHANGED <<patient, waited>>
  ELSE IF running = {} THEN phase' = "done" /\ UNCHANGED <<patient, waited>>
  ELSE UNCHANGED <<phase, patient>> /\ waited' = 0

\* The wait is over: nobody is left, or it is limited and was too long.
Waited ==
  /\ phase = "wait" /\ polled = running
  /\ running = {} \/ (~patient /\ waited > ProcessTimeout)
  /\ polled' = {} /\ young' = {} /\ missed' = (missed \/ young # {})
  /\ Return
  /\ UNCHANGED <<started, running, alive, killed, age>>

\* A child exits; one that was terminated may take its time.
Exit(t) ==
  /\ t \in alive /\ alive' = alive \ {t}
  /\ UNCHANGED <<started, phase, patient, running, polled, killed, age, waited, young, missed>>

\* A second passes.
Tick ==
  /\ age' = [t \in Tasks |-> IF t \in running /\ age[t] < Late THEN age[t] + 1 ELSE age[t]]
  /\ waited' = IF phase = "wait" /\ waited < Late THEN waited + 1 ELSE waited
  /\ UNCHANGED <<started, phase, patient, running, polled, alive, killed, young, missed>>

-----------------------------------------------------------------------------
Step == Execute \/ WaitForRoom \/ Throws \/ Poll \/ Again \/ Waited
Next == Step \/ Tick \/ \E t \in alive : Exit(t)

Spec == Init /\ [][Next]_vars
\* The runner goes on and the clock runs; a child may hang for ever.
FairSpec == Spec /\ WF_vars(Step) /\ WF_vars(Tick)

-----------------------------------------------------------------------------
(* Properties. *)

\* No more than maxConcurrentTasks children run at a time, apart from those that were
\* told to end: also when a wait has given up on children of an earlier chunk
\* (TaskRunner::executeChunkOfTasks "Ensure maximum concurrent tasks limit").
FewAtOnce == Cardinality(alive \ killed) <= MaxConcurrentTasks

\* When all tasks have been run, none is left behind: every child has exited or was told
\* to (TaskRunner::run "Wait until all processes are done").
NoneIsLeft == phase = "done" /\ started = NumTasks => alive \subseteq killed

\* A run comes to its end although children hang, unless a wait has given up on a child
\* that reached the timeout between its poll and the end of the same pass: it stays in
\* runningTasks, and the wait for room has no limit (TaskRunner::waitForRunningTasks).
RunEnds == <>(phase = "done" \/ missed)
\* The children are what the runner takes them for: few at a time, none of them left behind,
\* and the state has its shape (TaskRunner::run).
ChildrenAreSound == TypeOK /\ FewAtOnce /\ NoneIsLeft
=============================================================================
