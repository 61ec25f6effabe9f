------------------------------ MODULE MCRequests ------------------------------
(* What web requests that run at once share, on small instances: a key of the file  *)
(* cache, a counter of the rate limiter and the failures of the login policy. None of *)
(* the three touches the state of another, so a behaviour is about one of them: part  *)
(* says which.                                                                        *)
EXTENDS FileCache, TLC

CONSTANTS
  MaxHits, HitDecay, MaxMisses,                                      \* of RateLimit
  Logins, UserOf, MaxAttempts, Decay, Lockout, MaxFailures, MaxFaults, \* of LoginLock
  p1, p2, mail, name, ghost, home, office, user                      \* on the small instance

\* None is a value of its own, and finitely many requests run at once; both limits let
\* something pass (the code takes at least 1) and count for some time; a login is an identifier
\* at an address.
ASSUME RequestsAssumption ==
  /\ IsFiniteSet(Procs) /\ None \notin Procs \cup Logins
  /\ None \notin {"passed", "refused"} /\ None \notin [attempts : Nat, reset_at : Nat]
  /\ {MaxHits, HitDecay, MaxAttempts, Decay, Lockout} \subseteq Nat \ {0}
  /\ {MaxMisses, MaxFailures, MaxFaults} \subseteq Nat
  /\ \A l \in Logins : l = [who |-> l.who, ip |-> l.ip]

AllDo(S) == [p \in Procs |-> S]
Everything == AllDo(OpNames)

VARIABLES
  part,
  counter, holder, stage, state, verdict, hits, before, passes, overlap, misses,
  failures, place, login, locked, since, errors

Limit == INSTANCE RateLimit WITH
  Clients <- Procs, MaxAttempts <- MaxHits, Decay <- HitDecay, MaxFaults <- MaxMisses,
  file <- counter, lock <- holder, pc <- stage, faults <- misses
Lock == INSTANCE LoginLock WITH
  Requests <- Procs, pc <- place, faults <- errors

\* A user with two names, one of them used from an address that guesses at a third.
MCLogins == {[who |-> mail, ip |-> home], [who |-> name, ip |-> office], [who |-> ghost, ip |-> home]}
MCUserOf == mail :> user @@ name :> user @@ ghost :> None

cacheVars == vars
limitVars == <<counter, holder, stage, state, verdict, hits, before, passes, overlap, misses>>
lockVars == <<failures, place, login, locked, since, errors>>

RequestsInit ==
  /\ part \in {"cache", "limit", "lock"}
  /\ Init /\ Limit!Init /\ Lock!Init

RequestsNext ==
  /\ UNCHANGED part
  /\ \/ part = "cache" /\ Next /\ UNCHANGED <<limitVars, lockVars>>
     \/ part = "limit" /\ Limit!Next /\ UNCHANGED <<cacheVars, lockVars>>
     \/ part = "lock" /\ Lock!Next /\ UNCHANGED <<cacheVars, limitVars>>

\* The fairness of each part, for the behaviours that are about it.
Fairness ==
  /\ \A p \in Procs : WF_cacheVars(part = "cache" /\ Step(p) /\ Watch)
  /\ WF_limitVars(part = "limit" /\ Limit!Tick)
  /\ \A r \in Procs : WF_limitVars(part = "limit" /\ Limit!Step(r))
  /\ WF_lockVars(part = "lock" /\ Lock!Tick)
  /\ \A r \in Procs : WF_lockVars(part = "lock" /\ Lock!Step(r))

RequestsSpec ==
  /\ RequestsInit /\ [][RequestsNext]_<<part, cacheVars, limitVars, lockVars>>
  /\ Fairness

(* ------------------------------ properties ------------------------------- *)
\* A client of the throttle is refused only after more hits than the limit, few requests
\* pass in a window, and parallel logins get few failures past a lock.
LimitsAreSound ==
  /\ Limit!TypeOK /\ Lock!TypeOK
  /\ Limit!RefusedForCause /\ Limit!FewPass
  /\ Lock!FewGetThrough

\* A login that succeeds leaves no older failure behind.
SuccessForgives == Lock!SuccessForgives

\* The throttle and the lock let the client in again, whatever it keeps trying, and every
\* call of the cache returns.
WaitingEnds ==
  /\ CallsReturn
  /\ part = "limit" => Limit!RefusalsEnd
  /\ part = "lock" => Lock!LocksEnd
==============================================================================
