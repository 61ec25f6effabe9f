------------------------------ MODULE FileCache ------------------------------
(***************************************************************************)
(* One key of the file cache: FileStore of systems/Core/Cache with the     *)
(* compound operations CacheManager builds from it, called by any number   *)
(* of processes.  Keys have files of their own and never interact.         *)
(*                                                                         *)
(* The path of the key names an inode; a handle keeps its inode when the   *)
(* path is unlinked, and flock() locks the inode.  An entry is a value and *)
(* the seconds it has left: 0 is expired, Forever is the expiry "0" of the *)
(* payload.  A file that is created or truncated and not yet written is    *)
(* Empty.                                                                  *)
(***************************************************************************)
EXTENDS Integers, FiniteSets

CONSTANTS
  Procs,     \* the processes that use the cache
  Ops,       \* [Procs -> SUBSET OpNames]: the calls each one makes
  Values,    \* what put(), add() and remember() store
  Ttls,      \* the lifetimes they store it with
  Inodes,    \* bound: inodes alive at a time
  None,      \* the default of get(), an absent file, no handle
  Empty,     \* the contents of an empty file
  Forever,
  MaxCalls,  \* bound: calls made altogether
  MaxCrashes \* bound: processes killed

Reads == {"get", "pull"}
OpNames == {"get", "put", "add", "increment", "forget", "pull", "remember"}
MaxTtl == CHOOSE t \in {0} \cup (Ttls \ {Forever}) : \A u \in Ttls \ {Forever} : u <= t
MaxValue == CHOOSE v \in Values : \A u \in Values : u <= v
Numbers == 0..(MaxValue + MaxCalls)
Lives == (0..MaxTtl) \cup {Forever}
Entries == [val: Numbers, ttl: Lives]

ASSUME CacheAssumption ==
  /\ Ops \in [Procs -> SUBSET OpNames]
  /\ Values \subseteq Nat /\ \E v \in Values : \A u \in Values : u <= v
  /\ Ttls \subseteq (Nat \ {0}) \cup {Forever} /\ Forever \notin Nat
  /\ \E t \in {0} \cup (Ttls \ {Forever}) : \A u \in Ttls \ {Forever} : u <= t
  /\ None \notin Nat /\ None \notin Inodes /\ None \notin Procs /\ None \notin OpNames
  /\ Empty \notin Entries /\ None \notin Entries /\ Empty # None
  /\ MaxCalls \in Nat /\ MaxCrashes \in Nat

VARIABLES
  path,   \* the inode the path of the key names, or None
  file,   \* contents of the inodes
  flock,  \* holder of the lock of each inode, or None
  op,     \* the call each process is in, or None; a read that has returned stays
  pc,     \* where it is in it; "idle" when it has returned
  handle, \* its open file
  buf,    \* the entry it is about to write
  ret,    \* the value its read has returned, or None (what other calls return is not kept)
  seen,   \* history: values (None: no value) the key has shown since its read began
  tally,  \* history: the value that all writes so far add up to
  removed, \* history: forget() or pull() removed the file, or a process was killed
  reclaimed, \* history: someone unlinked the file, finding its entry expired or gone
  lasting,   \* history: the last write was for ever
  winners,   \* history: processes whose add() returned true
  clobbered, \* history: the unlocked write of an add() hit someone else's
  calls, crashes

store == <<path, file, flock>>
procs == <<op, pc, handle, buf, ret>>
history == <<tally, removed, reclaimed, lasting, winners, clobbered>>
vars == <<store, procs, seen, history, calls, crashes>>

PCs == {"idle", "lookup", "read", "expired", "recheck", "reexpired", "open", "lock", "write",
        "look", "probe", "unlink", "create", "fill", "callback", "drop"}

TypeOK ==
  /\ path \in Inodes \cup {None}
  /\ file \in [Inodes -> Entries \cup {Empty}]
  /\ flock \in [Inodes -> Procs \cup {None}]
  /\ op \in [Procs -> OpNames \cup {None}] /\ pc \in [Procs -> PCs]
  /\ handle \in [Procs -> Inodes \cup {None}]
  /\ buf \in [Procs -> Entries \cup {None}]
  /\ ret \in [Procs -> Numbers \cup {None}]
  /\ seen \in [Procs -> SUBSET (Numbers \cup {None})]
  /\ \A p \in Procs : op[p] \notin Reads => ret[p] = None /\ seen[p] = {}
  /\ tally \in Numbers /\ removed \in BOOLEAN /\ reclaimed \in BOOLEAN /\ lasting \in BOOLEAN
  /\ winners \subseteq Procs /\ clobbered \in BOOLEAN
  /\ calls \in 0..MaxCalls /\ crashes \in 0..MaxCrashes

Init ==
  /\ path = None /\ file = [i \in Inodes |-> Empty] /\ flock = [i \in Inodes |-> None]
  /\ op = [p \in Procs |-> None] /\ pc = [p \in Procs |-> "idle"]
  /\ handle = [p \in Procs |-> None] /\ buf = [p \in Procs |-> None]
  /\ ret = [p \in Procs |-> None] /\ seen = [p \in Procs |-> {}]
  /\ tally = 0 /\ removed = FALSE /\ reclaimed = FALSE /\ lasting = FALSE
  /\ winners = {} /\ clobbered = FALSE
  /\ calls = 0 /\ crashes = 0

-----------------------------------------------------------------------------

Live(e) == e # Empty /\ e.ttl # 0

\* What a get() that runs in one piece would return now.
Shown == IF path = None \/ ~Live(file[path]) THEN None ELSE file[path].val

Free == {i \in Inodes : i # path /\ \A p \in Procs : handle[p] # i}

\* Inodes are alike: a new file takes the least one.
Fresh == {i \in Free : \A j \in Free : i <= j}

GoTo(p, l) == pc' = [pc EXCEPT ![p] = l]
Leave(p) ==
  /\ GoTo(p, "idle")
  /\ handle' = [handle EXCEPT ![p] = None] /\ buf' = [buf EXCEPT ![p] = None]
Return(p, x) ==
  /\ Leave(p)
  /\ op' = [op EXCEPT ![p] = IF @ \in Reads THEN @ ELSE None]
  /\ ret' = [ret EXCEPT ![p] = IF op[p] \in Reads THEN x ELSE None]

\* Every process between two steps of a call sees what the key shows after this one.
Watch == seen' = [p \in Procs |-> IF op'[p] \notin Reads THEN {}
                                  ELSE IF pc[p] # "idle" THEN seen[p] \cup {Shown'}
                                  ELSE IF pc'[p] # "idle" THEN {Shown, Shown'}
                                  ELSE seen[p]]

\* A second passes.
Sooner(t) == IF t \in {0, Forever, None} THEN t ELSE t - 1
Spent(e) == IF e \in {Empty, None} THEN e ELSE [e EXCEPT !.ttl = Sooner(@)]
Tick ==
  /\ MaxTtl > 0
  /\ file' = [i \in Inodes |-> IF i \in Free THEN Empty ELSE Spent(file[i])]
  /\ buf' = [p \in Procs |-> Spent(buf[p])]
  /\ UNCHANGED <<path, flock, op, pc, handle, ret, tally, removed, reclaimed, lasting, winners,
                 clobbered, calls, crashes>>

First(o) ==
  CASE o \in {"get", "pull", "remember"} -> "lookup"
    [] o \in {"put", "increment"} -> "open"
    [] o = "add" -> "look"
    [] o = "forget" -> "drop"

\* A call begins; put() and increment() open in the next step, put() with its
\* payload made.
Call(p, o) ==
  /\ pc[p] = "idle" /\ calls < MaxCalls /\ o \in Ops[p]
  /\ calls' = calls + 1
  /\ op' = [op EXCEPT ![p] = o] /\ ret' = [ret EXCEPT ![p] = None] /\ GoTo(p, First(o))
  /\ IF o = "put" THEN \E v \in Values, t \in Ttls : buf' = [buf EXCEPT ![p] = [val |-> v, ttl |-> t]]
     ELSE UNCHANGED buf
  /\ UNCHANGED <<store, handle, history, crashes>>

-----------------------------------------------------------------------------
(* FileStore::get, and what its callers do with the result.                  *)

\* get() passes it on, pull() after a forget(); remember() calls get() again when
\* has() was true, and its callback when not.
Got(p, x) ==
  CASE op[p] = "remember" /\ pc[p] \in {"recheck", "reexpired"} -> Return(p, x)
    [] op[p] = "remember" /\ pc[p] \notin {"recheck", "reexpired"} ->
         GoTo(p, IF x = None THEN "callback" ELSE "recheck") /\ UNCHANGED <<op, handle, buf, ret>>
    [] op[p] = "pull" ->
         GoTo(p, "drop") /\ ret' = [ret EXCEPT ![p] = x] /\ UNCHANGED <<op, handle, buf>>
    [] OTHER -> Return(p, x)

Lookup(p) ==
  /\ pc[p] = "lookup"
  /\ IF path = None THEN Got(p, None)
     ELSE GoTo(p, "read") /\ UNCHANGED <<op, handle, buf, ret>>
  /\ UNCHANGED <<store, history, calls, crashes>>

\* Mutant: the expiry is not looked at.
ReadsExpired(p) ==
  /\ pc[p] \in {"read", "recheck"}
  /\ Got(p, IF path = None \/ file[path] = Empty THEN None ELSE file[path].val)
  /\ UNCHANGED <<store, history, calls, crashes>>

\* file_get_contents() takes no lock; the file may be gone, or empty.  The second
\* get() of remember() starts here too: an absent file is None either way.
Read(p) ==
  /\ pc[p] \in {"read", "recheck"}
  /\ IF path # None /\ file[path] # Empty /\ file[path].ttl = 0
     THEN GoTo(p, IF pc[p] = "read" THEN "expired" ELSE "reexpired") /\ UNCHANGED <<op, handle, buf, ret>>
     ELSE Got(p, Shown)
  /\ UNCHANGED <<store, history, calls, crashes>>

\* The expired entry is forgotten: unlink() takes whatever the path names by now.
ForgetExpired(p) ==
  /\ pc[p] \in {"expired", "reexpired"}
  /\ path' = None
  /\ reclaimed' = TRUE
  /\ Got(p, None)
  /\ UNCHANGED <<file, flock, tally, removed, lasting, winners, clobbered, calls, crashes>>

\* forget(), and the forget() of pull().
Drop(p) ==
  /\ pc[p] = "drop"
  /\ path' = None
  /\ removed' = TRUE
  /\ Return(p, IF op[p] = "pull" THEN ret[p] ELSE None)
  /\ UNCHANGED <<file, flock, tally, reclaimed, lasting, winners, clobbered, calls, crashes>>

\* remember() without a hit: the callback, then put().
Callback(p) ==
  /\ pc[p] = "callback"
  /\ \E v \in Values, t \in Ttls : buf' = [buf EXCEPT ![p] = [val |-> v, ttl |-> t]]
  /\ GoTo(p, "open")
  /\ UNCHANGED <<store, op, handle, ret, history, calls, crashes>>

-----------------------------------------------------------------------------
(* put() and increment().                                                    *)

\* file_put_contents(LOCK_EX) and fopen('c+b') open or create, and truncate nothing.
Open(p) ==
  /\ pc[p] = "open"
  /\ \E i \in Inodes :
       /\ IF path # None THEN i = path /\ UNCHANGED <<path, file>>
          ELSE /\ i \in Fresh /\ path' = i
               /\ file' = [file EXCEPT ![i] = Empty]
       /\ handle' = [handle EXCEPT ![p] = i]
  /\ GoTo(p, "lock")
  /\ UNCHANGED <<flock, op, buf, ret, history, calls, crashes>>

\* Mutant: the file is read without waiting for the lock.
Unlocked(p) == handle[p] \in Inodes

Lockable(p) == flock[handle[p]] = None

\* put() truncates under the lock.
LockPut(p) ==
  /\ pc[p] = "lock" /\ op[p] # "increment" /\ Lockable(p)
  /\ flock' = [flock EXCEPT ![handle[p]] = p]
  /\ file' = [file EXCEPT ![handle[p]] = Empty]
  /\ GoTo(p, "write")
  /\ UNCHANGED <<path, op, handle, buf, ret, history, calls, crashes>>

\* increment(): an expired entry counts as 0, and its expiry is written back.
Counted(e) ==
  IF e = Empty THEN [val |-> 1, ttl |-> Forever]
  ELSE [val |-> (IF Live(e) THEN e.val ELSE 0) + 1, ttl |-> e.ttl]
\* increment() reads under the lock, adds one and truncates.
LockIncrement(p) ==
  /\ pc[p] = "lock" /\ op[p] = "increment" /\ Lockable(p)
  /\ flock' = [flock EXCEPT ![handle[p]] = p]
  /\ buf' = [buf EXCEPT ![p] = Counted(file[handle[p]])]
  /\ file' = [file EXCEPT ![handle[p]] = Empty]
  /\ tally' = IF file[handle[p]] # Empty /\ ~Live(file[handle[p]]) THEN 0 ELSE tally
  /\ GoTo(p, "write")
  /\ UNCHANGED <<path, op, handle, ret, removed, reclaimed, lasting, winners, clobbered, calls,
                 crashes>>

\* The payload is written, the lock released.
Write(p) ==
  /\ pc[p] = "write"
  /\ file' = [file EXCEPT ![handle[p]] = buf[p]]
  /\ flock' = [flock EXCEPT ![handle[p]] = None]
  /\ tally' = IF op[p] = "increment" THEN tally + 1 ELSE buf[p].val
  /\ lasting' = (buf[p].ttl = Forever)
  /\ Return(p, None)
  /\ UNCHANGED <<path, removed, reclaimed, winners, clobbered, calls, crashes>>

-----------------------------------------------------------------------------
(* add().                                                                    *)

\* is_file(): without a file, create one.
Look(p) ==
  /\ pc[p] = "look"
  /\ GoTo(p, IF path = None THEN "create" ELSE "probe")
  /\ UNCHANGED <<op, handle, buf, ret, store, history, calls, crashes>>

\* A live entry, or an empty file (its expiry reads as 0): refused.  An expired entry, or
\* none any more: unlink and create.
Probe(p) ==
  /\ pc[p] = "probe"
  /\ IF path # None /\ (file[path] = Empty \/ Live(file[path]))
     THEN Return(p, None)
     ELSE GoTo(p, "unlink") /\ UNCHANGED <<op, handle, buf, ret>>
  /\ UNCHANGED <<store, history, calls, crashes>>

Unlink(p) ==
  /\ pc[p] = "unlink"
  /\ path' = None /\ reclaimed' = (reclaimed \/ path # None)
  /\ GoTo(p, "create")
  /\ UNCHANGED <<file, flock, op, handle, buf, ret, tally, removed, lasting,
                 winners, clobbered, calls, crashes>>

\* fopen('xb'): this call has won once it has created the file.
Create(p) ==
  /\ pc[p] = "create" /\ path = None
  /\ \E i \in Fresh :
       /\ path' = i /\ file' = [file EXCEPT ![i] = Empty]
       /\ handle' = [handle EXCEPT ![p] = i]
  /\ \E v \in Values, t \in Ttls :
       /\ buf' = [buf EXCEPT ![p] = [val |-> v, ttl |-> t]]
       /\ tally' = v /\ lasting' = (t = Forever)
  /\ winners' = winners \cup {p}
  /\ GoTo(p, "fill")
  /\ UNCHANGED <<flock, op, ret, removed, reclaimed, clobbered, calls, crashes>>

CreateRefused(p) ==
  /\ pc[p] = "create" /\ path # None
  /\ Return(p, None)
  /\ UNCHANGED <<store, history, calls, crashes>>

\* The payload is written without a lock.
Fill(p) ==
  /\ pc[p] = "fill"
  /\ file' = [file EXCEPT ![handle[p]] = buf[p]]
  /\ clobbered' = (clobbered \/ file[handle[p]] # Empty \/ flock[handle[p]] # None)
  /\ Return(p, None)
  /\ UNCHANGED <<path, flock, tally, removed, reclaimed, lasting, winners, calls, crashes>>

\* The process is killed; its lock goes with it.
Crash(p) ==
  /\ pc[p] # "idle" /\ crashes < MaxCrashes
  /\ crashes' = crashes + 1 /\ removed' = TRUE
  /\ flock' = [i \in Inodes |-> IF flock[i] = p THEN None ELSE flock[i]]
  /\ Leave(p)
  /\ op' = [op EXCEPT ![p] = None] /\ ret' = [ret EXCEPT ![p] = None]
  /\ UNCHANGED <<path, file, tally, reclaimed, lasting, winners, clobbered, calls>>

-----------------------------------------------------------------------------
Step(p) ==
  \/ Lookup(p) \/ Read(p) \/ ForgetExpired(p) \/ Drop(p) \/ Callback(p)
  \/ Open(p) \/ LockPut(p) \/ LockIncrement(p) \/ Write(p)
  \/ Look(p) \/ Probe(p) \/ Unlink(p) \/ Create(p) \/ CreateRefused(p) \/ Fill(p)

Next ==
  /\ \/ Tick
     \/ \E p \in Procs : Step(p) \/ Crash(p) \/ \E o \in OpNames : Call(p, o)
  /\ Watch

Spec == Init /\ [][Next]_vars
\* A process that has begun a call goes on with it.
FairSpec == Spec /\ \A p \in Procs : WF_vars(Step(p) /\ Watch)

-----------------------------------------------------------------------------
(* Properties. *)

Settled == \A p \in Procs : pc[p] \notin {"write", "fill"}

\* A get() or pull() returns a value the key showed at some moment of the call, and
\* nothing only if at some moment it showed nothing: it was absent, expired, or just
\* being written (FileStore::get).
ReadsWhatWasThere ==
  \A p \in Procs : op[p] \in {"get", "pull"} /\ pc[p] = "idle" => ret[p] \in seen[p]

\* Nobody took the file away, or wrote to it without the lock: no forget(), no expired
\* entry was unlinked, no add() was still filling the file it had created.
Untouched == ~removed /\ ~reclaimed /\ ~clobbered

\* Then writes are not lost: between two of them, the key shows the last put() or add()
\* and the increments since (FileStore::increment "keep concurrent increments atomic").
UpdatesAreNotLost ==
  Untouched /\ path # None /\ Settled => file[path] = Empty \/ file[path].val = tally

\* Then what was stored for ever is there, in the middle of any calls (FileStore::forever
\* "Store an item forever").
ForeverStays == Untouched /\ lasting /\ Settled => Shown # None

\* Without a removal only one add() succeeds, however many run at once (FileStore::add
\* "only one caller wins").
AddIsExclusive == ~removed /\ ~reclaimed => Cardinality(winners) <= 1

\* Every call returns: no waiting for a lock that is never released.
CallsReturn == \A p \in Procs : pc[p] # "idle" ~> pc[p] = "idle"
\* What was written is kept, once and for as long as it was meant to, and the state has its
\* shape (FileStore::put, add, increment, forever).
EntriesAreSound == TypeOK /\ UpdatesAreNotLost /\ ForeverStays /\ AddIsExclusive
=============================================================================
