------------------------------ MODULE Scheduler ------------------------------
(***************************************************************************)
(* The task scheduler of systems/Core/Console: any number of processes run *)
(* `schedule:run` (or the minute loop of `schedule:work`), each walking    *)
(* through its due events in Schedule::runDueEvents.  Events registered    *)
(* withoutOverlapping() take turns through a lock file per command, which  *)
(* holds the time it was taken and goes stale after a number of minutes.   *)
(*                                                                         *)
(* The lock file is modelled as the file system has it: the path names an  *)
(* inode, an open handle keeps its inode when the path is unlinked, and    *)
(* flock() locks the inode.  A timestamp is kept as its age in minutes,    *)
(* which saturates at the longest expiry of any event.                     *)
(***************************************************************************)
EXTENDS Integers, Sequences, FiniteSetsExt

CONSTANTS
  Runners,     \* the scheduler processes
  Commands,    \* command lines: the lock path is derived from the command
  Events,      \* the registered events, in order: a sequence of records
               \* [cmd, overlap, expires, evenDown, background]
  Inodes,      \* bound: inodes alive at a time
  None,
  MaxBackground, \* bound: background processes of one command
  MaxFaults    \* bound: lock files that cannot be opened, hooks that throw, kills

\* overlap says that withoutOverlapping() was called.  It takes any number of minutes; with
\* none every timestamp is stale, and the lock excludes nobody.
EventTypes == [cmd : Commands, overlap : BOOLEAN, expires : Nat \ {0},
               evenDown : BOOLEAN, background : BOOLEAN]
ASSUME EventAssumption == Events \in Seq(EventTypes) /\ Events # << >>

ASSUME BoundAssumption == MaxBackground \in Nat /\ MaxFaults \in Nat

ASSUME NoneAssumption == None \notin Inodes /\ None \notin Runners /\ None \notin Nat

VARIABLES
  path,     \* the lock file of each command: an inode or None
  age,      \* contents of each inode: minutes since the time in it, or None
  owner,    \* the flock of each inode: a runner or None
  pc,       \* where each runner is
  todo,     \* events left of its pass, the first of them the current one
  handle,   \* its open lock file
  since,    \* minutes since it wrote its timestamp
  aborted,  \* its pass is being left by an exception
  background, \* background processes of each command
  down,     \* storage/framework/down exists
  outlived, \* commands whose exclusion was undone by time (see Tick)
  faults

lockFiles == <<path, age, owner>>
runners == <<pc, todo, handle, since, aborted>>
vars == <<lockFiles, runners, background, down, outlived, faults>>

PCs == {"idle", "next", "opened", "flocked", "running", "after", "failed", "release"}
Longest == Max({Events[n].expires : n \in DOMAIN Events})
EventIds == DOMAIN Events

TypeOK ==
  /\ path \in [Commands -> Inodes \cup {None}]
  /\ age \in [Inodes -> (0..Longest) \cup {None}]
  /\ owner \in [Inodes -> Runners \cup {None}]
  /\ pc \in [Runners -> PCs]
  /\ todo \in [Runners -> SUBSET EventIds]
  /\ handle \in [Runners -> Inodes \cup {None}]
  /\ since \in [Runners -> 0..Longest]
  /\ aborted \in [Runners -> BOOLEAN]
  /\ background \in [Commands -> 0..MaxBackground]
  /\ down \in BOOLEAN
  /\ outlived \subseteq Commands
  /\ faults \in 0..MaxFaults

Init ==
  /\ path = [k \in Commands |-> None]
  /\ age = [i \in Inodes |-> None] /\ owner = [i \in Inodes |-> None]
  /\ pc = [r \in Runners |-> "idle"] /\ todo = [r \in Runners |-> {}]
  /\ handle = [r \in Runners |-> None] /\ since = [r \in Runners |-> 0]
  /\ aborted = [r \in Runners |-> FALSE]
  /\ background = [k \in Commands |-> 0] /\ down = FALSE
  /\ outlived = {} /\ faults = 0

-----------------------------------------------------------------------------
Current(r) == Events[Min(todo[r])]
Cmd(r) == Current(r).cmd
Inside(r) == pc[r] \in {"running", "after", "failed", "release"}
Guarded(r) == Inside(r) /\ Current(r).overlap  \* runs under its lock file
Opening(r) == pc[r] \in {"opened", "flocked"}

\* The shortest expiry any event gives the lock of a command.
Limit(k) == Min({Events[n].expires : n \in {e \in EventIds : Events[e].cmd = k}})

Free == {i \in Inodes : /\ \A k \in Commands : path[k] # i
                        /\ \A r \in Runners : handle[r] # i}

GoTo(r, l) == pc' = [pc EXCEPT ![r] = l]
Close(r) == handle' = [handle EXCEPT ![r] = None]
NoFault == UNCHANGED faults
Fault == faults < MaxFaults /\ faults' = faults + 1

\* The event is answered with "skipped" and the pass goes on.
Skip(r) == todo' = [todo EXCEPT ![r] = @ \ {Min(@)}] /\ GoTo(r, "next")

-----------------------------------------------------------------------------
\* A minute passes.  A command is marked once a run has lasted as long as its
\* lock, or the timestamp of a lock already released expires before a process that
\* had opened the file looked at it.
Older(n) == IF n = Longest THEN n ELSE n + 1
Tick ==
  /\ age' = [i \in Inodes |-> IF age[i] = None \/ i \in Free THEN None ELSE Older(age[i])]
  /\ since' = [r \in Runners |-> IF Guarded(r) THEN Older(since[r]) ELSE since[r]]
  /\ outlived' = outlived
       \cup {Cmd(r) : r \in {q \in Runners : Guarded(q) /\ Older(since[q]) >= Limit(Cmd(q))}}
       \cup {Cmd(r) : r \in {q \in Runners :
               /\ Opening(q) /\ handle[q] # path[Cmd(q)] /\ age[handle[q]] # None
               /\ Older(age[handle[q]]) >= Limit(Cmd(q))}}
  /\ UNCHANGED <<path, owner, pc, todo, handle, aborted, background, down>>
  /\ NoFault

\* An operator runs `down` or `up`.
Maintain ==
  /\ down' = ~down
  /\ UNCHANGED <<lockFiles, runners, background, outlived>> /\ NoFault

\* Kernel::runSchedule: the events of D are due and pass their filters.
StartPass(r, D) ==
  /\ pc[r] = "idle" /\ D # {}
  /\ todo' = [todo EXCEPT ![r] = D]
  /\ GoTo(r, "next")
  /\ UNCHANGED <<lockFiles, handle, since, aborted, background, down, outlived>>
  /\ NoFault

EndPass(r) ==
  /\ pc[r] = "next" /\ todo[r] = {}
  /\ GoTo(r, "idle")
  /\ UNCHANGED <<lockFiles, todo, handle, since, aborted, background, down, outlived>>
  /\ NoFault

Held(r) == down /\ ~Current(r).evenDown
SkipDown(r) ==
  /\ pc[r] = "next" /\ todo[r] # {} /\ Held(r)
  /\ Skip(r)
  /\ UNCHANGED <<lockFiles, handle, since, aborted, background, down, outlived>>
  /\ NoFault

\* Without withoutOverlapping(), acquireLock() returns true at once.
Unguarded(r) ==
  /\ pc[r] = "next" /\ todo[r] # {} /\ ~Held(r) /\ ~Current(r).overlap
  /\ GoTo(r, "running")
  /\ UNCHANGED <<lockFiles, todo, handle, since, aborted, background, down, outlived>>
  /\ NoFault

\* fopen($lockFile, 'c+b') opens the file of the path, or creates an empty one.
Open(r) ==
  /\ pc[r] = "next" /\ todo[r] # {} /\ ~Held(r) /\ Current(r).overlap
  /\ \E i \in Inodes :
       /\ IF path[Cmd(r)] # None THEN i = path[Cmd(r)] /\ UNCHANGED <<path, age>>
          ELSE /\ i \in Free
               /\ path' = [path EXCEPT ![Cmd(r)] = i]
               /\ age' = [age EXCEPT ![i] = None]
       /\ handle' = [handle EXCEPT ![r] = i]
  /\ GoTo(r, "opened")
  /\ UNCHANGED <<owner, todo, since, aborted, background, down, outlived>>
  /\ NoFault

OpenFails(r) ==
  /\ pc[r] = "next" /\ todo[r] # {} /\ ~Held(r) /\ Current(r).overlap
  /\ Fault
  /\ Skip(r)
  /\ UNCHANGED <<lockFiles, handle, since, aborted, background, down, outlived>>

\* flock(LOCK_EX | LOCK_NB)
Flock(r) ==
  /\ pc[r] = "opened" /\ owner[handle[r]] = None
  /\ owner' = [owner EXCEPT ![handle[r]] = r]
  /\ GoTo(r, "flocked")
  /\ UNCHANGED <<path, age, todo, handle, since, aborted, background, down, outlived>>
  /\ NoFault

FlockBusy(r) ==
  /\ pc[r] = "opened" /\ owner[handle[r]] # None
  /\ Close(r) /\ Skip(r)
  /\ UNCHANGED <<lockFiles, since, aborted, background, down, outlived>> /\ NoFault

\* Mutant: the timestamp is not looked at.
NeverTaken(r) == FALSE

\* Mutant: a lock is never given up as stale.
AnyTimestamp(r) == age[handle[r]] # None

\* time() - $lockTime < $this->expiresAt * 60
Taken(r) == age[handle[r]] # None /\ age[handle[r]] < Current(r).expires

\* Mutant: a process that was refused the lock releases it all the same.
UnlinksOnSkip(r) ==
  /\ pc[r] = "flocked" /\ Taken(r)
  /\ owner' = [owner EXCEPT ![handle[r]] = None]
  /\ path' = [path EXCEPT ![Cmd(r)] = None]
  /\ Close(r) /\ Skip(r)
  /\ UNCHANGED <<age, since, aborted, background, down, outlived>> /\ NoFault

\* The timestamp is fresh: unlock, close, skip.
Overlapping(r) ==
  /\ pc[r] = "flocked" /\ Taken(r)
  /\ owner' = [owner EXCEPT ![handle[r]] = None]
  /\ Close(r) /\ Skip(r)
  /\ UNCHANGED <<path, age, since, aborted, background, down, outlived>> /\ NoFault

\* No timestamp, or a stale one: write a fresh one, unlock, close, run.
Acquire(r) ==
  /\ pc[r] = "flocked" /\ ~Taken(r)
  /\ age' = [age EXCEPT ![handle[r]] = 0]
  /\ owner' = [owner EXCEPT ![handle[r]] = None]
  /\ Close(r)
  /\ since' = [since EXCEPT ![r] = 0]
  /\ GoTo(r, "running")
  /\ UNCHANGED <<path, todo, aborted, background, down, outlived>> /\ NoFault

-----------------------------------------------------------------------------
\* The before hook, the closure or handler and the output flush all return.
Succeed(r) ==
  /\ pc[r] = "running" /\ ~Current(r).background
  /\ GoTo(r, "after")
  /\ UNCHANGED <<lockFiles, todo, handle, since, aborted, background, down, outlived>>
  /\ NoFault

\* runCommandInBackground: exec() returns while the command runs on.
Spawn(r) ==
  /\ pc[r] = "running" /\ Current(r).background
  /\ background[Cmd(r)] < MaxBackground
  /\ background' = [background EXCEPT ![Cmd(r)] = @ + 1]
  /\ GoTo(r, "after")
  /\ UNCHANGED <<lockFiles, todo, handle, since, aborted, down, outlived>> /\ NoFault

BackgroundEnds(k) ==
  /\ background[k] > 0
  /\ background' = [background EXCEPT ![k] = @ - 1]
  /\ UNCHANGED <<lockFiles, runners, down, outlived>> /\ NoFault

\* Anything in the try throws, a non-zero exit code and the success hooks included.
Throw(r) ==
  /\ pc[r] \in {"running", "after"}
  /\ GoTo(r, "failed")
  /\ UNCHANGED <<lockFiles, todo, handle, since, aborted, background, down, outlived>>
  /\ NoFault

\* The hooks of the outcome return, and the event is answered.
Answer(r) ==
  /\ pc[r] \in {"after", "failed"}
  /\ GoTo(r, "release")
  /\ UNCHANGED <<lockFiles, todo, handle, since, aborted, background, down, outlived>>
  /\ NoFault

\* A hook throws inside the catch: the exception leaves runDueEvents after the
\* finally, and this event and the rest of the pass go unanswered.
HookThrows(r) ==
  /\ pc[r] = "failed"
  /\ Fault
  /\ aborted' = [aborted EXCEPT ![r] = TRUE]
  /\ GoTo(r, "release")
  /\ UNCHANGED <<lockFiles, todo, handle, since, background, down, outlived>>

\* ScheduleEvent::releaseLock in the finally: unlink(path), whatever is there now.
Release(r) ==
  /\ pc[r] = "release"
  /\ path' = IF Current(r).overlap THEN [path EXCEPT ![Cmd(r)] = None] ELSE path
  /\ todo' = [todo EXCEPT ![r] = IF aborted[r] THEN {} ELSE @ \ {Min(@)}]
  /\ aborted' = [aborted EXCEPT ![r] = FALSE]
  /\ GoTo(r, IF aborted[r] THEN "idle" ELSE "next")
  /\ since' = [since EXCEPT ![r] = 0]
  /\ UNCHANGED <<age, owner, handle, background, down, outlived>> /\ NoFault

\* The process is killed: its flock goes with it, the lock file stays.
Crash(r) ==
  /\ pc[r] # "idle"
  /\ Fault
  /\ owner' = [i \in Inodes |-> IF owner[i] = r THEN None ELSE owner[i]]
  /\ Close(r) /\ GoTo(r, "idle")
  /\ todo' = [todo EXCEPT ![r] = {}]
  /\ aborted' = [aborted EXCEPT ![r] = FALSE]
  /\ since' = [since EXCEPT ![r] = 0]
  /\ UNCHANGED <<path, age, background, down, outlived>>

-----------------------------------------------------------------------------
LockStep(r) == Open(r) \/ Flock(r) \/ FlockBusy(r) \/ Overlapping(r) \/ Acquire(r)
RunStep(r) == Unguarded(r) \/ Succeed(r) \/ Spawn(r) \/ Throw(r) \/ Answer(r) \/ Release(r)
PassStep(r) == SkipDown(r) \/ EndPass(r) \/ LockStep(r) \/ RunStep(r)

Next ==
  \/ Tick \/ Maintain
  \/ \E k \in Commands : BackgroundEnds(k)
  \/ \E r \in Runners :
       \/ \E D \in SUBSET EventIds : StartPass(r, D)
       \/ PassStep(r) \/ OpenFails(r) \/ HookThrows(r) \/ Crash(r)

Spec == Init /\ [][Next]_vars

\* The clock runs, a pass that has begun goes on (events end), background
\* processes end, and cron or schedule:work starts passes in which every event is
\* due again and again.
Fairness ==
  /\ WF_vars(Tick)
  /\ \A k \in Commands : WF_vars(BackgroundEnds(k))
  /\ \A r \in Runners : WF_vars(PassStep(r)) /\ SF_vars(StartPass(r, EventIds))

FairSpec == Spec /\ Fairness

-----------------------------------------------------------------------------
(* Properties. *)

\* Two guarded runs of one command overlap only after some run of it outlasted
\* its lock, or a process slept from fopen() to flock() until a timestamp expired
\* (ScheduleEvent::acquireLock, releaseLock).
OverlapNeedsExpiry ==
  \A q, r \in Runners : q # r /\ Guarded(q) /\ Guarded(r) /\ Cmd(q) = Cmd(r) =>
    Cmd(r) \in outlived

\* While a guarded run is inside its expiry its lock file is there, with the time
\* of that run in it: nobody else unlinked or overwrote it.
RunKeepsItsLock ==
  \A r \in Runners : Guarded(r) /\ Cmd(r) \notin outlived =>
    path[Cmd(r)] # None /\ age[path[Cmd(r)]] = since[r]

\* A lock that a killed process left behind does not stop its command for good: as
\* long as the site does not stay in maintenance, every command runs again.
StaleLockExpires ==
  <>[](~down) => \A k \in {Events[n].cmd : n \in EventIds} :
    []<>(\E r \in Runners : pc[r] = "running" /\ Cmd(r) = k)

\* The locks are what the runs take them for: every run has its own, and the state its shape
\* (ScheduleEvent::acquireLock, releaseLock).
LocksAreSound == TypeOK /\ RunKeepsItsLock
=============================================================================
