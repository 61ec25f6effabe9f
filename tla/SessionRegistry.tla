---------------------------- MODULE SessionRegistry ----------------------------
(***************************************************************************)
(* The session-concurrency registry of one user: Auth's list of the        *)
(* sessions of that user, kept in the cache, changed under a lock file and *)
(* read without it.                                                        *)
(*                                                                         *)
(* A device is a browser with one cookie; PHP locks the session file for   *)
(* the whole of a request, so a device has one request at a time.  Session *)
(* ids are numbered as they are generated; 0 is no session.  The           *)
(* timestamps that choose whom a login evicts and when an entry lapses are *)
(* left open: any entry may be the oldest.                                 *)
(***************************************************************************)
EXTENDS Integers, FiniteSets

CONSTANTS
  Devices,
  Configs,     \* the configurations of 'session_concurrency' in auth.php, records
               \* [max, deny, evict, failOpen, rotation]
  Kinds,       \* the requests devices make, a subset of AllKinds
  None,
  MaxSids,     \* bound: session ids generated
  MaxRequests, \* bound: requests begun
  MaxFaults,   \* bound: times the lock file cannot be opened
  MaxLapses    \* bound: entries that pass their 'ttl'

AllKinds == {"page", "login", "logout", "revoke", "others"}

ASSUME SessionAssumption ==
  /\ Configs \subseteq [max: Nat, deny: BOOLEAN, evict: BOOLEAN, failOpen: BOOLEAN,
                         rotation: BOOLEAN]
  /\ Kinds \subseteq AllKinds
  /\ None \notin Devices \cup {"in", "out"}
  /\ \A S \in SUBSET (1..MaxSids) : None # S
  /\ {MaxSids, MaxRequests, MaxFaults, MaxLapses} \subseteq Nat

VARIABLES
  config,    \* the configuration of the deployment, which does not change
  registry,  \* session ids in the cache entry
  lock,      \* the device whose request holds the lock file, or None
  buf,       \* the registry that request is writing, or None
  cookie,    \* session id of each browser
  on,        \* its session has the user id and the logged-in flag
  req,       \* its request, or its last one
  pc,        \* "idle", "check", or the registry change it is about to make
  target,    \* the session a revoke request names
  outcome,   \* the check let it "in", or "out", or it has not been made: None
  taken,     \* history: sessions that a request or their ttl took out
  banned,    \* history: those taken out while no check of them was under way
  revived,   \* history: sessions that a check put back
  barred,    \* history: devices whose session was taken out before their request began
  sids, requests, faults, lapses

store == <<registry, lock, buf>>
device == <<cookie, on, req, pc, target, outcome>>
history == <<taken, banned, revived, barred>>
bounds == <<sids, requests, faults, lapses>>
vars == <<config, store, device, history, bounds>>

MaxDevices == config.max         \* 'max_devices', 0 = no limit
Deny == config.deny              \* 'deny_new_login_when_limit_reached'
EvictOldest == config.evict      \* 'invalidate_oldest'
FailOpen == config.failOpen      \* 'fail_open_if_cache_unavailable'
Rotation == config.rotation      \* 'sess_regenerate_destroy': ids change every few minutes

Sids == 1..MaxSids
Changes == {"merge", "register", "unregister", "revoke", "others"}

TypeOK ==
  /\ config \in Configs
  /\ registry \subseteq Sids /\ lock \in Devices \cup {None} /\ buf \in (SUBSET Sids) \cup {None}
  /\ cookie \in [Devices -> Sids \cup {0}] /\ on \in [Devices -> BOOLEAN]
  /\ req \in [Devices -> AllKinds \cup {None}]
  /\ pc \in [Devices -> {"idle", "check"} \cup Changes]
  /\ target \in [Devices -> Sids \cup {0}] /\ outcome \in [Devices -> {"in", "out", None}]
  /\ taken \subseteq Sids /\ banned \subseteq taken /\ revived \subseteq Sids
  /\ barred \subseteq Devices
  /\ sids \in 0..MaxSids /\ requests \in 0..MaxRequests
  /\ faults \in 0..MaxFaults /\ lapses \in 0..MaxLapses
  /\ \A d \in Devices : lock = d => pc[d] \in Changes

Init ==
  /\ config \in Configs
  /\ registry = {} /\ lock = None /\ buf = None
  /\ cookie = [d \in Devices |-> 0] /\ on = [d \in Devices |-> FALSE]
  /\ req = [d \in Devices |-> None] /\ pc = [d \in Devices |-> "idle"]
  /\ target = [d \in Devices |-> 0] /\ outcome = [d \in Devices |-> None]
  /\ taken = {} /\ banned = {} /\ revived = {} /\ barred = {}
  /\ sids = 0 /\ requests = 0 /\ faults = 0 /\ lapses = 0

-----------------------------------------------------------------------------
(* What the unlocked read of a check finds: put() has truncated the file before it *)
(* writes; an empty registry is forgotten in one step.                             *)
Visible == IF buf \in {None, {}} THEN registry ELSE {}

GoTo(d, l) == pc' = [pc EXCEPT ![d] = l]
Decide(d, o) == outcome' = [outcome EXCEPT ![d] = o]

\* Sessions whose check has found them and not yet written them back.
UnderCheck == {cookie[d] : d \in {e \in Devices : pc[e] = "merge"}}

\* The history of a step that removes S from the registry and puts R back.
History(S, R) ==
  /\ taken' = taken \cup S
  /\ banned' = banned \cup (S \ UnderCheck)
  /\ revived' = (revived \ S) \cup R

\* A request of a logged-in device begins: the check comes first.
Begin(d, k) ==
  /\ pc[d] = "idle" /\ requests < MaxRequests /\ k \in Kinds \ {"login"} /\ on[d]
  /\ requests' = requests + 1
  /\ req' = [req EXCEPT ![d] = k]
  /\ IF k = "revoke" THEN \E s \in 1..sids : target' = [target EXCEPT ![d] = s]
     ELSE UNCHANGED target
  /\ barred' = IF cookie[d] \in taken THEN barred \cup {d} ELSE barred \ {d}
  /\ GoTo(d, IF k = "logout" THEN "unregister" ELSE "check")
  /\ Decide(d, None)
  /\ UNCHANGED <<store, cookie, on, taken, banned, revived, sids, faults, lapses>>

\* login(): a new session id; the entry of the old one stays in the registry.
BeginLogin(d) ==
  /\ pc[d] = "idle" /\ requests < MaxRequests /\ "login" \in Kinds /\ sids < MaxSids
  /\ requests' = requests + 1 /\ sids' = sids + 1
  /\ req' = [req EXCEPT ![d] = "login"]
  /\ cookie' = [cookie EXCEPT ![d] = sids + 1] /\ on' = [on EXCEPT ![d] = TRUE]
  /\ GoTo(d, "register") /\ Decide(d, None)
  /\ barred' = barred \ {d}
  /\ UNCHANGED <<store, target, taken, banned, revived, faults, lapses>>

\* The start of a request gives the session a new id.
Rotate(d) ==
  /\ Rotation /\ pc[d] = "idle" /\ on[d] /\ sids < MaxSids
  /\ sids' = sids + 1
  /\ cookie' = [cookie EXCEPT ![d] = sids + 1]
  /\ UNCHANGED <<store, on, req, pc, target, outcome, history, requests, faults, lapses>>

-----------------------------------------------------------------------------
(* validateSessionConcurrency                                                *)

\* What a request does once the check has let it in.
Proceed(d) == GoTo(d, IF req[d] \in {"revoke", "others"} THEN req[d] ELSE "idle")

\* An empty registry decides like an unavailable cache.
CheckEmpty(d) ==
  /\ pc[d] = "check" /\ Visible = {}
  /\ IF FailOpen THEN Proceed(d) /\ Decide(d, "in")
     ELSE GoTo(d, "idle") /\ Decide(d, "out")
  /\ UNCHANGED <<store, cookie, on, req, target, history, bounds>>

\* A session that is not listed is logged out.
CheckUnlisted(d) ==
  /\ pc[d] = "check" /\ Visible # {} /\ cookie[d] \notin Visible
  /\ GoTo(d, "unregister") /\ Decide(d, "out")
  /\ UNCHANGED <<store, cookie, on, req, target, history, bounds>>

\* Mutant: the session is listed without looking whether it is.
ListsAnyone(d) ==
  /\ pc[d] = "check" /\ Visible # {}
  /\ GoTo(d, "merge") /\ Decide(d, "in")
  /\ UNCHANGED <<store, cookie, on, req, target, history, bounds>>

CheckListed(d) ==
  /\ pc[d] = "check" /\ cookie[d] \in Visible
  /\ GoTo(d, "merge") /\ Decide(d, "in")
  /\ UNCHANGED <<store, cookie, on, req, target, history, bounds>>

-----------------------------------------------------------------------------
(* synchronizeSessionRegistry                                                *)

Full == MaxDevices > 0 /\ Cardinality(registry) >= MaxDevices

\* Mutant: one entry is evicted, however many there are.
EvictsOne ==
  IF Full /\ EvictOldest THEN {V \in SUBSET registry : Cardinality(V) = 1} ELSE {{}}

\* Whom a login evicts: the oldest, until there is room for one.
Victims ==
  IF Full /\ EvictOldest
  THEN {V \in SUBSET registry : Cardinality(registry \ V) = MaxDevices - 1}
  ELSE {{}}

\* What the request of d takes out of the registry it has read under the lock.
Outs(d) ==
  CASE pc[d] = "register" -> Victims
    [] pc[d] = "unregister" -> {{cookie[d]} \cap registry}
    [] pc[d] = "revoke" -> {{target[d]} \cap registry}
    [] pc[d] = "others" -> {IF cookie[d] \in registry THEN registry \ {cookie[d]} ELSE {}}
    [] OTHER -> {{}}

LockFree == lock = None

Denied(d) == pc[d] = "register" /\ Deny /\ Full

\* Lock, read, compute, and truncate the cache file.
LockAndCompute(d) ==
  /\ pc[d] \in Changes /\ LockFree /\ ~Denied(d)
  /\ lock' = d
  /\ \E out \in Outs(d) :
       buf' = (registry \ out) \cup
                {s \in {cookie[d]} : pc[d] \in {"merge", "register"}}
  /\ UNCHANGED <<registry, device, history, bounds>>

\* What follows a change that was written, or could not be made.  A logout goes on
\* to clear the session; a revoked session that is one's own is logged out.
After(d, done) ==
  CASE pc[d] = "merge" -> Proceed(d) /\ UNCHANGED <<on, outcome>>
    [] pc[d] = "register" /\ (done \/ FailOpen) ->
         GoTo(d, "idle") /\ Decide(d, "in") /\ UNCHANGED on
    [] pc[d] = "register" /\ ~done /\ ~FailOpen ->
         GoTo(d, "unregister") /\ Decide(d, "out") /\ UNCHANGED on
    [] pc[d] = "revoke" /\ done /\ target[d] = cookie[d] /\ cookie[d] \in registry ->
         GoTo(d, "unregister") /\ UNCHANGED <<on, outcome>>
    [] pc[d] = "unregister" ->
         GoTo(d, "idle") /\ on' = [on EXCEPT ![d] = FALSE] /\ UNCHANGED outcome
    [] OTHER -> GoTo(d, "idle") /\ UNCHANGED <<on, outcome>>

\* Mutant: a check writes the whole registry it read before it had the lock.
ForgetsLogins(d) ==
  /\ lock = d
  /\ registry' = IF pc[d] = "merge" THEN {cookie[d]} ELSE buf
  /\ lock' = None /\ buf' = None
  /\ After(d, TRUE)
  /\ UNCHANGED <<cookie, req, target, history, bounds>>

Write(d) ==
  /\ lock = d /\ buf # None
  /\ registry' = buf
  /\ lock' = None /\ buf' = None
  /\ After(d, TRUE)
  /\ History(registry \ buf, IF pc[d] = "merge" THEN buf \ registry ELSE {})
  /\ UNCHANGED <<cookie, req, target, barred, bounds>>

\* Mutant: the new session is logged out before the lock is released.
LogsOutUnderLock(d) ==
  /\ Denied(d) /\ LockFree
  /\ lock' = d
  /\ GoTo(d, "unregister") /\ Decide(d, "out")
  /\ UNCHANGED <<registry, buf, cookie, on, req, target, history, bounds>>

\* The limit is reached: the exception leaves the registry alone, and the new session
\* is logged out.
DenyLogin(d) ==
  /\ Denied(d) /\ LockFree
  /\ GoTo(d, "unregister") /\ Decide(d, "out")
  /\ UNCHANGED <<store, cookie, on, req, target, history, bounds>>

\* The lock file cannot be opened.
LockFails(d) ==
  /\ pc[d] \in Changes /\ lock # d /\ faults < MaxFaults
  /\ faults' = faults + 1
  /\ After(d, FALSE)
  /\ UNCHANGED <<store, cookie, req, target, history, sids, requests, lapses>>

\* An entry passes its ttl: every read drops it from now on.
Lapse(s) ==
  /\ LockFree /\ s \in registry /\ lapses < MaxLapses
  /\ \A d \in Devices : cookie[d] = s => pc[d] = "idle"
  /\ lapses' = lapses + 1
  /\ registry' = registry \ {s}
  /\ History({s}, {})
  /\ UNCHANGED <<lock, buf, device, barred, sids, requests, faults>>

-----------------------------------------------------------------------------
Step(d) ==
  \/ CheckEmpty(d) \/ CheckUnlisted(d) \/ CheckListed(d)
  \/ LockAndCompute(d) \/ Write(d) \/ DenyLogin(d)

Next ==
  /\ UNCHANGED config
  /\ \/ \E d \in Devices :
          Step(d) \/ LockFails(d) \/ BeginLogin(d) \/ Rotate(d) \/ \E k \in Kinds : Begin(d, k)
     \/ \E s \in Sids : Lapse(s)

Spec == Init /\ [][Next]_vars
\* A request that has begun goes on.
FairSpec == Spec /\ \A d \in Devices : WF_vars(Step(d) /\ UNCHANGED config)

-----------------------------------------------------------------------------
(* Properties. *)

\* A session that was evicted, revoked or logged out while no check of it was under
\* way does not come back (the registry is only changed under the lock).
RevokedStaysOut == banned \cap registry = {}

\* No more sessions are listed than max_devices, not counting those a check has put
\* back (registerSessionForUser).
LimitHolds ==
  MaxDevices > 0 /\ (Deny \/ EvictOldest) => Cardinality(registry \ revived) <= MaxDevices

\* Between its requests, a logged-in session that nobody took out is listed, as long as
\* session ids do not rotate and the lock file can be opened ("List active browser
\* sessions from the session-concurrency registry").
ActiveIsListed ==
  ~Rotation /\ faults = 0 => \A d \in Devices :
    on[d] /\ pc[d] = "idle" /\ cookie[d] \notin taken => cookie[d] \in registry

\* "Previous device session is invalidated and will be logged out on next request": a
\* request of a session that was taken out before it began is not let in.
TakenOutIsRefused == \A d \in Devices : d \in barred => outcome[d] # "in"

\* Every request comes to its end.
RequestsFinish == \A d \in Devices : pc[d] # "idle" ~> pc[d] = "idle"
\* The registry is what the sessions take it for: it lists them, and the state has its shape
\* (Auth::registerSessionForUser).
RegistryIsSound == TypeOK /\ ActiveIsListed
=============================================================================
