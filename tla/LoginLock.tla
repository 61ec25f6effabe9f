----------------------------- MODULE LoginLock -----------------------------
(***************************************************************************)
(* The login policy: Auth::attempt of concurrent requests over the table   *)
(* system_login_attempt.  An attempt reads the failures of its identifier, *)
(* then those of its address, checks the password, and then inserts a      *)
(* failure, or deletes those of the user, of the identifier and of the     *)
(* address, one statement each.  Nothing holds the table in between.       *)
(*                                                                         *)
(* A failure has the seconds since it was registered; as old as decay and  *)
(* lockout together it locks nobody any more, and is left out.             *)
(***************************************************************************)
EXTENDS Naturals, FiniteSets

CONSTANTS
  Requests,    \* the login requests that run at once
  Logins,      \* what they are made with: [who: identifier, ip: address]
  UserOf,      \* [identifiers -> users], None for an unknown one
  MaxAttempts, Decay, Lockout, \* max_attempts, decay_seconds, lockout_seconds
  None,
  MaxFailures, \* bound: rows that are not yet left out
  MaxFaults    \* bound: statements that fail, and requests that are killed

VARIABLES
  failures,  \* rows [who, ip, age, nth]: nth tells those of a second apart
  pc, login, \* where each request is, and with which login
  locked,    \* whether its identifier was found locked
  since,     \* history: seconds since it began to delete
  faults

vars == <<failures, pc, login, locked, since, faults>>

Window == Decay + Lockout
Busy == {r \in Requests : pc[r] # "idle"}
Deletes == {"user", "who", "address"}
Failure == {f \in [who : {l.who : l \in Logins}, ip : {l.ip : l \in Logins},
                   age : 0..(Window - 1), nth : 1..MaxFailures] :
              [who |-> f.who, ip |-> f.ip] \in Logins}

TypeOK ==
  /\ failures \subseteq Failure /\ Cardinality(failures) <= MaxFailures
  /\ pc \in [Requests -> {"idle", "ip", "verify", "record"} \cup Deletes]
  /\ login \in [Requests -> Logins \cup {None}] /\ locked \in [Requests -> BOOLEAN]
  /\ \A r \in Requests : (login[r] = None) = (r \notin Busy)
  /\ since \in [Requests -> 0..Window] /\ faults \in 0..MaxFaults

Init ==
  /\ failures = {}
  /\ pc = [r \in Requests |-> "idle"] /\ login = [r \in Requests |-> None]
  /\ locked = [r \in Requests |-> FALSE] /\ since = [r \in Requests |-> 0]
  /\ faults = 0

-----------------------------------------------------------------------------
GoTo(r, l) == pc' = [pc EXCEPT ![r] = l] /\ UNCHANGED login
\* The request is answered.
End(r) == pc' = [pc EXCEPT ![r] = "idle"] /\ login' = [login EXCEPT ![r] = None]

\* recentLoginAttemptTimestampsForScope(): the rows of an identifier or an address.
OfWho(l) == {f \in failures : f.who = l.who}
OfAddress(l) == {f \in failures : f.ip = l.ip}

\* resolveLockStateForTimestamps(): max_attempts failures within decay_seconds of each
\* other lock until lockout_seconds after the last of them.
Locks(b) ==
  \E f \in b :
     /\ f.age < Lockout
     /\ Cardinality({g \in b : g.age \in f.age..(f.age + Decay)}) >= MaxAttempts

\* canAttemptWithLoginPolicy() reads the failures of the identifier ...
CheckWho(r, l) ==
  /\ pc[r] = "idle" /\ Cardinality(failures) + Cardinality(Busy) < MaxFailures
  /\ pc' = [pc EXCEPT ![r] = "ip"] /\ login' = [login EXCEPT ![r] = l]
  /\ locked' = [locked EXCEPT ![r] = Locks(OfWho(l))]
  /\ UNCHANGED <<failures, since, faults>>

\* A failure of this request is registered.
Row(r) ==
  LET alike == {f \in failures : f.who = login[r].who /\ f.ip = login[r].ip /\ f.age = 0}
  IN  [who |-> login[r].who, ip |-> login[r].ip, age |-> 0, nth |-> Cardinality(alike) + 1]

\* Mutant: an attempt that is refused is registered as a failure.
RefusesIntoTheTable(r) ==
  /\ pc[r] = "ip"
  /\ locked' = [locked EXCEPT ![r] = FALSE]
  /\ IF locked[r] \/ Locks(OfAddress(login[r]))
     THEN End(r) /\ failures' = failures \cup {Row(r)}
     ELSE GoTo(r, "verify") /\ UNCHANGED failures
  /\ UNCHANGED <<since, faults>>

\* ... and those of the address; one of them locked is enough to refuse.
CheckAddress(r) ==
  /\ pc[r] = "ip"
  /\ locked' = [locked EXCEPT ![r] = FALSE]
  /\ IF locked[r] \/ Locks(OfAddress(login[r])) THEN End(r) ELSE GoTo(r, "verify")
  /\ UNCHANGED <<failures, since, faults>>

\* A query that throws finds no failures: that of the address, or that of the identifier.
CheckFails(r) ==
  /\ pc[r] = "ip" /\ faults < MaxFaults
  /\ faults' = faults + 1 /\ locked' = [locked EXCEPT ![r] = FALSE]
  /\ IF locked[r] THEN UNCHANGED <<pc, login>> ELSE GoTo(r, "verify")
  /\ UNCHANGED <<failures, since>>

\* attempt() loads the user and checks status and password; only a known one can be right.
Verify(r) ==
  /\ pc[r] = "verify"
  /\ \/ GoTo(r, "record")
     \/ UserOf[login[r].who] # None /\ GoTo(r, "user")
  /\ UNCHANGED <<failures, locked, since, faults>>

\* registerLoginFailure() ...
Record(r) ==
  /\ pc[r] = "record"
  /\ failures' = failures \cup {Row(r)} /\ End(r)
  /\ UNCHANGED <<locked, since, faults>>
\* ... whose insert may throw, and nobody hears of it.
RecordFails(r) ==
  /\ pc[r] = "record" /\ faults < MaxFaults
  /\ faults' = faults + 1 /\ End(r)
  /\ UNCHANGED <<failures, locked, since>>

\* deleteLoginFailureRecords(): three deletes.
Forget(rows) == failures' = failures \ rows

\* Mutant: only the failures of the identifier that was used are deleted.
KeepsTheOthers(r) ==
  /\ pc[r] = "user"
  /\ GoTo(r, "who") /\ UNCHANGED <<failures, locked, since, faults>>

DeleteOfUser(r) ==
  /\ pc[r] = "user"
  /\ Forget({f \in failures : UserOf[f.who] = UserOf[login[r].who]})
  /\ GoTo(r, "who") /\ UNCHANGED <<locked, since, faults>>
DeleteOfWho(r) ==
  /\ pc[r] = "who"
  /\ Forget({f \in failures : f.who = login[r].who})
  /\ GoTo(r, "address") /\ UNCHANGED <<locked, since, faults>>
DeleteOfAddress(r) ==
  /\ pc[r] = "address"
  /\ Forget({f \in failures : f.ip = login[r].ip})
  /\ End(r) /\ since' = [since EXCEPT ![r] = 0] /\ UNCHANGED <<locked, faults>>

\* A delete throws: the others are left out, and the user is in all the same.
DeleteFails(r) ==
  /\ pc[r] \in Deletes /\ faults < MaxFaults
  /\ faults' = faults + 1 /\ End(r) /\ since' = [since EXCEPT ![r] = 0]
  /\ UNCHANGED <<failures, locked>>

\* The request is killed.
Kill(r) ==
  /\ pc[r] # "idle" /\ faults < MaxFaults
  /\ faults' = faults + 1 /\ End(r)
  /\ locked' = [locked EXCEPT ![r] = FALSE] /\ since' = [since EXCEPT ![r] = 0]
  /\ UNCHANGED failures

\* A second passes; what is too old to lock is left out.
Aged(f) == [f EXCEPT !.age = @ + 1]
Tick ==
  /\ failures' = {Aged(f) : f \in {g \in failures : g.age + 1 < Window}}
  /\ since' = [r \in Requests |-> IF pc[r] \in Deletes /\ since[r] < Window
                                  THEN since[r] + 1 ELSE since[r]]
  /\ UNCHANGED <<pc, login, locked, faults>>

Step(r) ==
  \/ CheckAddress(r) \/ Verify(r) \/ Record(r)
  \/ DeleteOfUser(r) \/ DeleteOfWho(r) \/ DeleteOfAddress(r)

Next ==
  \/ Tick
  \/ \E r \in Requests :
       \/ \E l \in Logins : CheckWho(r, l)
       \/ Step(r) \/ CheckFails(r) \/ RecordFails(r) \/ DeleteFails(r) \/ Kill(r)

Spec == Init /\ [][Next]_vars
\* The clock runs, and a request that has begun goes on.
FairSpec == Spec /\ WF_vars(Tick) /\ \A r \in Requests : WF_vars(Step(r))

-----------------------------------------------------------------------------
(* Properties. *)

\* Parallel attempts all pass the same count.  Still, in decay_seconds an identifier, and
\* an address, get no more failures than max_attempts, and one for each other request that
\* runs at once, provided a lock outlasts the seconds its failures are counted in
\* (Auth::resolveLockStateForTimestamps; 900 and 600 by default).
FewGetThrough ==
  faults = 0 /\ Decay < Lockout => \A l \in Logins :
     /\ Cardinality({f \in OfWho(l) : f.age <= Decay}) < MaxAttempts + Cardinality(Requests)
     /\ Cardinality({f \in OfAddress(l) : f.age <= Decay}) < MaxAttempts + Cardinality(Requests)

\* Who has signed in starts from zero: no failure from before is left of the user, under
\* any identifier, nor of the address, whatever other requests do between the three
\* deletes (Auth::clearLoginFailures).
SuccessForgives ==
  [][\A r \in Requests : pc[r] = "address" /\ pc'[r] = "idle" /\ faults' = 0 =>
       \A f \in failures' : f.age > since[r] =>
          UserOf[f.who] # UserOf[login[r].who] /\ f.ip # login[r].ip]_vars

\* A lock ends, also when attempts go on all the time: those it refuses do not prolong it
\* (LoginPolicy::denyLockedAttempt, "retry_after").
LocksEnd == []<>(\E r \in Requests : pc[r] = "ip") => []<>(\E r \in Requests : pc[r] = "verify")
=============================================================================
