------------------------ MODULE SessionRegistryProofs ------------------------
(***************************************************************************)
(* The session registry keeps who is out out, and the number of sessions   *)
(* in bounds, for any number of devices, sessions, requests and faults and *)
(* every configuration of the deployment.                                  *)
(***************************************************************************)
EXTENDS SessionRegistry, FiniteSetTheorems, TLAPS

-----------------------------------------------------------------------------
(* The inductive invariant.                                                  *)

\* Session ids are handed out in order, and a browser has its own.
Numbered ==
  /\ registry \cup taken \cup revived \subseteq 1..sids
  /\ buf # None => buf \subseteq 1..sids
  /\ \A d \in Devices : cookie[d] <= sids /\ target[d] <= sids
  /\ \A d \in Devices : on[d] \/ pc[d] # "idle" => cookie[d] # 0
  /\ \A d, e \in Devices : cookie[d] = cookie[e] /\ cookie[d] # 0 => d = e

\* The session of a login under way is in nobody's list yet.
NewIsUnlisted ==
  \A d \in Devices : pc[d] = "register" =>
    /\ cookie[d] \notin registry \cup taken
    /\ lock # d /\ buf # None => cookie[d] \notin buf

\* What the holder of the lock is about to write is what it computed: nobody changes the
\* registry, the browser or the request in between.
Computed ==
  /\ lock = None <=> buf = None
  /\ \A d \in Devices : lock = d =>
       /\ pc[d] \in Changes /\ ~Denied(d)
       /\ \E out \in Outs(d) :
            buf = (registry \ out) \cup {s \in {cookie[d]} : pc[d] \in {"merge", "register"}}

\* A check under way has found its session listed, and not banned.
CheckedIsNotBanned == banned \cap UnderCheck = {}

\* RegistryIsSound between requests is one of every moment a session is on, but for the end
\* of it: logging out, being refused, and logging in.
OnIsListed ==
  ~Rotation /\ faults = 0 => \A d \in Devices :
    on[d] /\ pc[d] \notin {"register", "unregister"} /\ cookie[d] \notin taken => cookie[d] \in registry

IInv == /\ TypeOK /\ Numbered /\ NewIsUnlisted /\ Computed /\ CheckedIsNotBanned
        /\ OnIsListed /\ RevokedStaysOut /\ LimitHolds

LEMMA Bounds ==
  /\ MaxSids \in Nat /\ MaxRequests \in Nat /\ MaxFaults \in Nat /\ MaxLapses \in Nat
  /\ None \notin Devices /\ None # "in" /\ None # "out" /\ None \notin SUBSET Sids
BY SessionAssumption DEF Sids

LEMMA InitIsSound == Init => IInv
<1> SUFFICES ASSUME Init PROVE IInv
  OBVIOUS
<1> USE DEF Init
<1>1. TypeOK
  <2>1. 0 \in 0..MaxSids /\ 0 \in 0..MaxRequests /\ 0 \in 0..MaxFaults /\ 0 \in 0..MaxLapses
    BY Bounds
  <2>2. \A d \in Devices : lock # d
    BY Bounds
  <2> QED
    BY <2>1, <2>2 DEF TypeOK
<1>2. Numbered
  BY SessionAssumption DEF Numbered
<1>3. NewIsUnlisted /\ Computed /\ CheckedIsNotBanned /\ OnIsListed /\ RevokedStaysOut
  BY SessionAssumption DEF NewIsUnlisted, Computed, CheckedIsNotBanned, OnIsListed, RevokedStaysOut
<1>4. LimitHolds
  <2>1. registry \ revived = {} /\ config.max \in Nat
    BY SessionAssumption
  <2>2. Cardinality({}) = 0
    BY FS_EmptySet
  <2> QED
    BY <2>1, <2>2 DEF LimitHolds, MaxDevices
<1> QED
  BY <1>1, <1>2, <1>3, <1>4 DEF IInv

-----------------------------------------------------------------------------
(* Steps that leave the registry and its history alone.                      *)

\* d goes on, does not hold the lock, and neither logs in nor comes back from being refused.
Local(d) ==
  /\ store' = store /\ config' = config /\ cookie' = cookie /\ sids' = sids
  /\ taken' = taken /\ banned' = banned /\ revived' = revived
  /\ lock # d /\ target'[d] <= sids
  /\ \A e \in Devices \ {d} : pc'[e] = pc[e] /\ on'[e] = on[e] /\ target'[e] = target[e]
  /\ pc'[d] # "register"
  /\ pc'[d] = "merge" => cookie[d] \in registry
  /\ pc'[d] # "idle" => pc[d] # "idle" \/ on[d]
  /\ on'[d] => on[d]
  /\ faults' = 0 => faults = 0
  /\ faults' = 0 /\ on'[d] /\ pc'[d] # "unregister" => pc[d] \notin {"register", "unregister"}

LEMMA LocalKeeps ==
  ASSUME IInv, TypeOK', NEW d \in Devices, Local(d)
  PROVE  IInv'
<1> USE DEF IInv, Local, store
<1>1. \A e \in Devices \ {d} : Outs(e)' = Outs(e) /\ (Denied(e)' <=> Denied(e))
  BY DEF Outs, Denied, Victims, Full, MaxDevices, EvictOldest, Deny
<1>2. Numbered'
  BY DEF Numbered
<1>3. NewIsUnlisted'
  BY DEF NewIsUnlisted
<1>4. Computed'
  <2>1. (lock = None <=> buf = None)'
    BY DEF Computed
  <2>2. ASSUME NEW e \in Devices, lock = e
        PROVE  (/\ pc[e] \in Changes /\ ~Denied(e)
                /\ \E out \in Outs(e) :
                     buf = (registry \ out) \cup {s \in {cookie[e]} : pc[e] \in {"merge", "register"}})'
    BY <2>2, <1>1 DEF Computed
  <2> QED
    BY <2>1, <2>2 DEF Computed
<1>5. CheckedIsNotBanned'
  <2>1. ASSUME NEW e \in Devices, pc'[e] = "merge" PROVE cookie[e] \notin banned
    BY <2>1 DEF CheckedIsNotBanned, UnderCheck, RevokedStaysOut
  <2> QED
    BY <2>1 DEF CheckedIsNotBanned, UnderCheck
<1>6. OnIsListed'
  BY DEF OnIsListed, Rotation
<1>7. RevokedStaysOut' /\ LimitHolds'
  BY DEF RevokedStaysOut, LimitHolds, MaxDevices, Deny, EvictOldest
<1> QED
  BY <1>2, <1>3, <1>4, <1>5, <1>6, <1>7


\* What follows a change leaves no device in a check, a login or the change itself.
LEMMA AfterFacts ==
  ASSUME TypeOK, NEW d \in Devices, NEW done \in BOOLEAN, pc[d] \in Changes, After(d, done)
  PROVE  /\ pc' \in [Devices -> {"idle", "check"} \cup Changes]
         /\ on' \in [Devices -> BOOLEAN] /\ outcome' \in [Devices -> {"in", "out", None}]
         /\ \A e \in Devices \ {d} : pc'[e] = pc[e] /\ on'[e] = on[e]
         /\ pc'[d] \in {"idle", "unregister", "revoke", "others"}
         /\ on'[d] => on[d]
         /\ on'[d] /\ pc'[d] # "unregister" => pc[d] # "unregister"
<1> USE DEF TypeOK, Changes, After, GoTo, Decide
<1>1. CASE pc[d] = "merge"
  BY <1>1 DEF Proceed
<1>2. CASE pc[d] = "register"
  BY <1>2
<1>3. CASE pc[d] = "unregister"
  BY <1>3
<1>4. CASE pc[d] = "revoke"
  BY <1>4
<1>5. CASE pc[d] = "others"
  BY <1>5
<1> QED
  BY <1>1, <1>2, <1>3, <1>4, <1>5

LEMMA LocalSteps ==
  ASSUME IInv, UNCHANGED config, NEW d \in Devices,
         CheckEmpty(d) \/ CheckUnlisted(d) \/ CheckListed(d) \/ DenyLogin(d) \/ LockFails(d)
           \/ \E k \in Kinds : Begin(d, k)
  PROVE  TypeOK' /\ Local(d)
<1> USE Bounds DEF IInv, TypeOK, store, history, bounds, GoTo, Decide
<1>1. target[d] <= sids /\ sids \in 0..MaxSids /\ faults \in Nat
  BY DEF Numbered
<1>2. CASE CheckEmpty(d)
  <2>1. TypeOK'
    BY <1>2 DEF CheckEmpty, Proceed, Changes
  <2>2. Local(d)
    BY <1>1, <1>2 DEF CheckEmpty, Proceed, Local, Changes
  <2> QED
    BY <2>1, <2>2
<1>3. CASE CheckUnlisted(d)
  BY <1>1, <1>3 DEF CheckUnlisted, Local, Changes
<1>4. CASE CheckListed(d)
  BY <1>1, <1>4 DEF CheckListed, Visible, Local, Changes
<1>5. CASE DenyLogin(d)
  BY <1>1, <1>5 DEF DenyLogin, Denied, LockFree, Local, Changes
<1>6. CASE LockFails(d)
  <2>1. /\ pc[d] \in Changes /\ lock # d /\ faults' = faults + 1 /\ faults < MaxFaults
        /\ After(d, FALSE)
        /\ UNCHANGED <<store, cookie, req, target, history, sids, requests, lapses>>
    BY <1>6 DEF LockFails
  <2>2. /\ pc' \in [Devices -> {"idle", "check"} \cup Changes]
        /\ on' \in [Devices -> BOOLEAN] /\ outcome' \in [Devices -> {"in", "out", None}]
        /\ \A e \in Devices \ {d} : pc'[e] = pc[e] /\ on'[e] = on[e]
        /\ pc'[d] \in {"idle", "unregister", "revoke", "others"} /\ (on'[d] => on[d])
    BY <2>1, AfterFacts
  <2>3. faults' \in 0..MaxFaults /\ faults' # 0
    BY <1>1, <2>1
  <2>4. TypeOK'
    BY <2>1, <2>2, <2>3
  <2>5. Local(d)
    BY <1>1, <2>1, <2>2, <2>3 DEF Local, Changes
  <2> QED
    BY <2>4, <2>5
<1>7. ASSUME NEW k \in Kinds, Begin(d, k) PROVE TypeOK' /\ Local(d)
  <2>1. k \in AllKinds /\ requests + 1 \in Nat
    BY SessionAssumption
  <2>2. TypeOK'
    BY <1>1, <1>7, <2>1 DEF Begin, Sids, Changes
  <2>3. Local(d)
    BY <1>1, <1>7 DEF Begin, Local, Changes
  <2> QED
    BY <2>2, <2>3
<1> QED
  BY <1>2, <1>3, <1>4, <1>5, <1>6, <1>7

-----------------------------------------------------------------------------
(* A new session id.                                                         *)

LEMMA NewIdKeeps ==
  ASSUME IInv, UNCHANGED config, NEW d \in Devices, BeginLogin(d) \/ Rotate(d)
  PROVE  IInv'
<1> USE DEF IInv, store
<1>1. /\ pc[d] = "idle" /\ sids < MaxSids /\ sids' = sids + 1
      /\ cookie' = [cookie EXCEPT ![d] = sids + 1]
      /\ registry' = registry /\ lock' = lock /\ buf' = buf /\ target' = target /\ faults' = faults
      /\ taken' = taken /\ banned' = banned /\ revived' = revived /\ config' = config
  BY DEF BeginLogin, Rotate, history
<1>2. /\ \A e \in Devices \ {d} : pc'[e] = pc[e] /\ on'[e] = on[e]
      /\ pc'[d] \in {"idle", "register"} /\ (pc'[d] = "idle" => Rotation)
  BY <1>1 DEF BeginLogin, Rotate, GoTo, TypeOK, Changes
<1>3. /\ sids \in Nat /\ sids + 1 \in 1..MaxSids /\ lock # d
      /\ cookie'[d] = sids + 1 /\ \A e \in Devices \ {d} : cookie'[e] = cookie[e]
  BY <1>1, Bounds DEF TypeOK, Changes
<1>4. TypeOK'
  <2>1. CASE BeginLogin(d)
    <3>1. /\ requests' = requests + 1 /\ requests < MaxRequests
          /\ req' = [req EXCEPT ![d] = "login"] /\ on' = [on EXCEPT ![d] = TRUE]
          /\ pc' = [pc EXCEPT ![d] = "register"] /\ outcome' = [outcome EXCEPT ![d] = None]
          /\ barred' = barred \ {d} /\ UNCHANGED lapses
      BY <2>1 DEF BeginLogin, GoTo, Decide
    <3>2. requests' \in 0..MaxRequests /\ sids' \in 0..MaxSids /\ cookie' \in [Devices -> Sids \cup {0}]
      BY <1>1, <1>3, <3>1, Bounds DEF TypeOK, Sids
    <3>3. /\ req' \in [Devices -> AllKinds \cup {None}] /\ on' \in [Devices -> BOOLEAN]
          /\ pc' \in [Devices -> {"idle", "check"} \cup Changes]
          /\ outcome' \in [Devices -> {"in", "out", None}] /\ barred' \subseteq Devices
      BY <3>1 DEF TypeOK, AllKinds, Changes
    <3>4. \A e \in Devices : lock' = e => pc'[e] \in Changes
      BY <1>1, <3>1 DEF TypeOK, Changes
    <3> QED
      BY <1>1, <3>1, <3>2, <3>3, <3>4 DEF TypeOK
  <2>2. CASE Rotate(d)
    <3>1. sids' \in 0..MaxSids /\ cookie' \in [Devices -> Sids \cup {0}]
      BY <1>1, <1>3, Bounds DEF TypeOK, Sids
    <3> QED
      BY <1>1, <2>2, <3>1 DEF TypeOK, Rotate, history
  <2> QED
    BY <2>1, <2>2
<1>5. /\ sids + 1 \notin registry \cup taken \cup revived /\ (buf # None => sids + 1 \notin buf)
      /\ \A e \in Devices : cookie[e] # sids + 1
  BY <1>3 DEF Numbered
<1>6. Numbered'
  <2>1. \A e \in Devices : cookie[e] \in Nat /\ target[e] \in Nat
    BY Bounds DEF TypeOK, Sids
  <2>2. \A e \in Devices : cookie'[e] <= sids + 1 /\ target[e] <= sids + 1
    BY <1>3, <2>1 DEF Numbered
  <2>3. \A e \in Devices : on'[e] \/ pc'[e] # "idle" => cookie'[e] # 0
    BY <1>2, <1>3 DEF Numbered
  <2>4. \A e, f \in Devices : cookie'[e] = cookie'[f] /\ cookie'[e] # 0 => e = f
    BY <1>3, <1>5 DEF Numbered
  <2>5. registry \cup taken \cup revived \subseteq 1..(sids + 1) /\ (buf # None => buf \subseteq 1..(sids + 1))
    BY <1>3 DEF Numbered
  <2> QED
    BY <1>1, <2>2, <2>3, <2>4, <2>5 DEF Numbered
<1>7. NewIsUnlisted'
  BY <1>1, <1>2, <1>3, <1>5 DEF NewIsUnlisted
<1>8. Computed'
  <2>1. \A e \in Devices \ {d} : Outs(e)' = Outs(e) /\ (Denied(e)' <=> Denied(e))
    BY <1>1, <1>2, <1>3 DEF Outs, Denied, Victims, Full, MaxDevices, EvictOldest, Deny
  <2>2. ASSUME NEW e \in Devices, lock = e
        PROVE  (/\ pc[e] \in Changes /\ ~Denied(e)
                /\ \E out \in Outs(e) :
                     buf = (registry \ out) \cup {s \in {cookie[e]} : pc[e] \in {"merge", "register"}})'
    BY <2>2, <2>1, <1>1, <1>2, <1>3 DEF Computed
  <2> QED
    BY <2>2, <1>1 DEF Computed
<1>9. CheckedIsNotBanned'
  <2>1. \A e \in Devices : pc'[e] = "merge" => pc[e] = "merge" /\ cookie'[e] = cookie[e]
    BY <1>2, <1>3
  <2> QED
    BY <1>1, <2>1 DEF CheckedIsNotBanned, UnderCheck
<1>10. OnIsListed'
  BY <1>1, <1>2, <1>3 DEF OnIsListed, Rotation
<1>11. RevokedStaysOut' /\ LimitHolds'
  BY <1>1 DEF RevokedStaysOut, LimitHolds, MaxDevices, Deny, EvictOldest
<1> QED
  BY <1>4, <1>6, <1>7, <1>8, <1>9, <1>10, <1>11

-----------------------------------------------------------------------------
(* Steps on the registry.                                                    *)

LEMMA LockKeeps ==
  ASSUME IInv, UNCHANGED config, NEW d \in Devices, LockAndCompute(d)
  PROVE  IInv'
<1> USE DEF IInv
<1>1. /\ pc[d] \in Changes /\ lock = None /\ ~Denied(d) /\ lock' = d
      /\ registry' = registry /\ UNCHANGED <<config, cookie, on, req, pc, target, outcome>>
      /\ UNCHANGED <<taken, banned, revived, barred, sids, requests, faults, lapses>>
  BY DEF LockAndCompute, LockFree, device, history, bounds
<1>2. PICK out \in Outs(d) :
        buf' = (registry \ out) \cup {s \in {cookie[d]} : pc[d] \in {"merge", "register"}}
  BY DEF LockAndCompute
<1>3. cookie[d] \in 1..sids /\ sids \in 0..MaxSids
  BY <1>1, Bounds DEF TypeOK, Numbered, Changes, Sids
<1>4. buf' \subseteq 1..sids /\ buf' \subseteq Sids /\ buf' # None /\ buf' \subseteq registry \cup {cookie[d]}
  <2>1. buf' \subseteq registry \cup {cookie[d]}
    BY <1>2
  <2>2. registry \subseteq 1..sids /\ 1..sids \subseteq Sids
    BY <1>3, Bounds DEF Numbered, Sids
  <2>3. buf' \in SUBSET Sids
    BY <1>3, <2>1, <2>2
  <2>4. buf' # None
    BY <2>3, Bounds
  <2> QED
    BY <1>3, <2>1, <2>2, <2>3, <2>4
<1>5. TypeOK'
  BY <1>1, <1>4 DEF TypeOK
<1>6. Numbered'
  BY <1>1, <1>4 DEF Numbered
<1>7. NewIsUnlisted'
  <2> SUFFICES ASSUME NEW e \in Devices, pc[e] = "register", e # d
               PROVE  cookie[e] \notin buf'
    BY <1>1 DEF NewIsUnlisted
  <2>1. cookie[e] # cookie[d]
    BY <1>3 DEF Numbered
  <2> QED
    BY <1>4, <2>1 DEF NewIsUnlisted
<1>8. Computed'
  <2>1. Outs(d)' = Outs(d) /\ (Denied(d)' <=> Denied(d))
    BY <1>1 DEF Outs, Denied, Victims, Full, MaxDevices, EvictOldest, Deny
  <2> QED
    BY <2>1, <1>1, <1>2, <1>4, Bounds DEF Computed
<1>9. CheckedIsNotBanned' /\ OnIsListed' /\ RevokedStaysOut' /\ LimitHolds'
  BY <1>1 DEF CheckedIsNotBanned, UnderCheck, OnIsListed, Rotation, RevokedStaysOut, LimitHolds,
    MaxDevices, Deny, EvictOldest
<1> QED
  BY <1>5, <1>6, <1>7, <1>8, <1>9

\* A set of listed sessions that lost some is no larger, and one more fits below a limit.
LEMMA Smaller ==
  ASSUME TypeOK, NEW S \in SUBSET Sids, NEW T \in SUBSET S
  PROVE  /\ IsFiniteSet(S) /\ IsFiniteSet(T)
         /\ Cardinality(S) \in Nat /\ Cardinality(T) \in Nat /\ Cardinality(T) <= Cardinality(S)
<1>1. IsFiniteSet(Sids)
  BY Bounds, FS_Interval DEF Sids
<1>2. IsFiniteSet(S)
  BY <1>1, FS_Subset
<1>3. IsFiniteSet(T) /\ Cardinality(T) <= Cardinality(S)
  BY <1>2, FS_Subset
<1> QED
  BY <1>2, <1>3, FS_CardinalityType

\* What the change under the lock comes to.
LEMMA Change ==
  ASSUME IInv, NEW d \in Devices, lock = d
  PROVE  /\ buf \subseteq registry \cup {cookie[d]} /\ pc[d] \in Changes /\ cookie[d] # 0
         /\ cookie[d] \in buf \ registry => pc[d] \in {"merge", "register"}
         /\ pc[d] = "merge" => buf = registry \cup {cookie[d]}
         /\ pc[d] = "register" =>
              /\ cookie[d] \in buf /\ cookie[d] \notin registry /\ ~(Deny /\ Full)
              /\ \E out \in Victims : buf = (registry \ out) \cup {cookie[d]}
<1> USE DEF IInv
<1>1. PICK out \in Outs(d) :
        buf = (registry \ out) \cup {s \in {cookie[d]} : pc[d] \in {"merge", "register"}}
  BY DEF Computed
<1>2. pc[d] \in Changes /\ ~Denied(d) /\ cookie[d] # 0
  BY DEF Computed, Numbered, Changes
<1>3. CASE pc[d] = "merge"
  BY <1>1, <1>2, <1>3 DEF Outs
<1>4. CASE pc[d] = "register"
  BY <1>1, <1>2, <1>4 DEF Outs, Denied, NewIsUnlisted
<1>5. CASE pc[d] \notin {"merge", "register"}
  BY <1>1, <1>2, <1>5
<1> QED
  BY <1>3, <1>4, <1>5

LEMMA WriteKeeps ==
  ASSUME IInv, UNCHANGED config, NEW d \in Devices, Write(d)
  PROVE  IInv'
<1> USE DEF IInv
<1> DEFINE S == registry \ buf
           R == IF pc[d] = "merge" THEN buf \ registry ELSE {}
<1>1. /\ lock = d /\ buf # None /\ registry' = buf /\ lock' = None /\ buf' = None /\ After(d, TRUE)
      /\ taken' = taken \cup S /\ banned' = banned \cup (S \ UnderCheck) /\ revived' = (revived \ S) \cup R
      /\ UNCHANGED <<config, cookie, req, target, barred, sids, requests, faults, lapses>>
  BY DEF Write, History, bounds
<1>2. /\ buf \subseteq registry \cup {cookie[d]} /\ pc[d] \in Changes /\ cookie[d] # 0
      /\ cookie[d] \in buf \ registry => pc[d] \in {"merge", "register"}
      /\ pc[d] = "merge" => buf = registry \cup {cookie[d]}
      /\ pc[d] = "register" => cookie[d] \in buf /\ cookie[d] \notin registry
  BY <1>1, Change
<1>3. /\ pc' \in [Devices -> {"idle", "check"} \cup Changes]
      /\ on' \in [Devices -> BOOLEAN] /\ outcome' \in [Devices -> {"in", "out", None}]
      /\ \A e \in Devices \ {d} : pc'[e] = pc[e] /\ on'[e] = on[e]
      /\ pc'[d] \in {"idle", "unregister", "revoke", "others"} /\ (on'[d] => on[d])
      /\ on'[d] /\ pc'[d] # "unregister" => pc[d] # "unregister"
  BY <1>1, <1>2, AfterFacts
<1>4. buf \subseteq Sids /\ buf \subseteq 1..sids /\ S \subseteq registry /\ R \subseteq buf
  BY <1>1 DEF TypeOK, Numbered
<1> HIDE DEF S, R
<1>5. TypeOK'
  BY <1>1, <1>3, <1>4, Bounds DEF TypeOK
<1>6. Numbered'
  BY <1>1, <1>2, <1>3, <1>4 DEF Numbered
<1>7. NewIsUnlisted'
  <2> SUFFICES ASSUME NEW e \in Devices, pc'[e] = "register"
               PROVE  cookie[e] \notin buf \cup taken \cup S
    BY <1>1 DEF NewIsUnlisted
  <2>1. e # d /\ pc[e] = "register"
    BY <1>3
  <2> QED
    BY <2>1, <1>1, <1>4 DEF NewIsUnlisted
<1>8. Computed'
  BY <1>1, Bounds DEF Computed
<1>9. CheckedIsNotBanned'
  <2>1. \A e \in Devices : pc'[e] = "merge" => pc[e] = "merge"
    BY <1>3
  <2> QED
    BY <2>1, <1>1 DEF CheckedIsNotBanned, UnderCheck
<1>10. RevokedStaysOut'
  <2> SUFFICES ASSUME NEW x \in buf, x \in banned PROVE FALSE
    BY <1>1 DEF RevokedStaysOut, S
  <2>1. x = cookie[d] /\ x \notin registry
    BY <1>2 DEF RevokedStaysOut
  <2>2. CASE pc[d] = "merge"
    BY <2>1, <2>2 DEF CheckedIsNotBanned, UnderCheck
  <2>3. CASE pc[d] = "register"
    BY <2>1, <2>3 DEF NewIsUnlisted, TypeOK
  <2> QED
    BY <2>1, <2>2, <2>3, <1>2
<1>11. OnIsListed'
  <2> SUFFICES ASSUME ~Rotation, faults = 0, NEW e \in Devices, on'[e],
                      pc'[e] \notin {"register", "unregister"}, cookie[e] \notin taken \cup S
               PROVE  cookie[e] \in buf
    BY <1>1 DEF OnIsListed, Rotation
  <2>1. CASE pc[e] = "register"
    BY <2>1, <1>2, <1>3
  <2>2. CASE pc[e] # "register"
    BY <2>2, <1>3 DEF OnIsListed, S
  <2> QED
    BY <2>1, <2>2
<1>12. LimitHolds'
  <2> DEFINE L == registry \ revived
             M == buf \ ((revived \ S) \cup R)
  <2> SUFFICES ASSUME MaxDevices > 0, Deny \/ EvictOldest PROVE Cardinality(M) <= MaxDevices
    BY <1>1 DEF LimitHolds, MaxDevices, Deny, EvictOldest
  <2>1. Cardinality(L) <= MaxDevices /\ MaxDevices \in Nat
    BY SessionAssumption DEF LimitHolds, TypeOK, MaxDevices
  <2>2. L \subseteq Sids /\ registry \subseteq Sids /\ M \subseteq buf
    BY DEF TypeOK
  <2>3. CASE pc[d] # "register"
    <3>1. M \in SUBSET L
      BY <2>3, <1>2 DEF R, S
    <3> HIDE DEF L, M
    <3>2. Cardinality(M) <= Cardinality(L) /\ Cardinality(M) \in Nat /\ Cardinality(L) \in Nat
      BY <2>2, <3>1, Smaller
    <3> QED
      BY <2>1, <3>2
  <2>4. CASE pc[d] = "register"
    <3>1. PICK out \in Victims : buf = (registry \ out) \cup {cookie[d]}
      BY <2>4, <1>1, Change
    <3>2. ~(Deny /\ Full) /\ cookie[d] \notin registry
      BY <2>4, <1>1, Change
    <3> DEFINE K == registry \ out
    <3>3. K \in SUBSET registry /\ Cardinality(K) \in Nat /\ IsFiniteSet(K) /\ Cardinality(registry) \in Nat
          /\ Cardinality(K) <= Cardinality(registry)
      BY <2>2, Smaller
    <3>4. Cardinality(K) <= MaxDevices - 1
      <4>1. CASE Full
        <5>1. EvictOldest
          BY <4>1, <3>2
        <5>2. out \in {V \in SUBSET registry : Cardinality(registry \ V) = MaxDevices - 1}
          BY <4>1, <5>1, <3>1 DEF Victims
        <5>3. Cardinality(registry \ out) = MaxDevices - 1
          BY <5>2
        <5> QED
          BY <5>3, <2>1
      <4>2. CASE ~Full
        BY <4>2, <3>3, <2>1 DEF Full
      <4> QED
        BY <4>1, <4>2
    <3>5. Cardinality(buf) = Cardinality(K) + 1
      BY <3>1, <3>2, <3>3, FS_AddElement
    <3> HIDE DEF K, M
    <3>6. Cardinality(M) <= Cardinality(buf) /\ Cardinality(M) \in Nat
      BY <2>2, <1>4, Smaller
    <3> QED
      BY <3>3, <3>4, <3>5, <3>6, <2>1
  <2> QED
    BY <2>3, <2>4
<1> QED
  BY <1>5, <1>6, <1>7, <1>8, <1>9, <1>10, <1>11, <1>12

\* An entry lapses while nobody holds the lock and its browser is idle.
LEMMA LapseKeeps ==
  ASSUME IInv, UNCHANGED config, NEW s \in Sids, Lapse(s)
  PROVE  IInv'
<1> USE DEF IInv
<1>1. /\ lock = None /\ s \in registry /\ lapses < MaxLapses /\ lapses' = lapses + 1
      /\ registry' = registry \ {s} /\ taken' = taken \cup {s}
      /\ banned' = banned \cup ({s} \ UnderCheck) /\ revived' = revived \ {s}
      /\ UNCHANGED <<config, lock, buf, cookie, on, req, pc, target, outcome, barred, sids, requests, faults>>
  BY DEF Lapse, History, LockFree, device
<1>2. TypeOK'
  BY <1>1, Bounds DEF TypeOK
<1>3. Numbered' /\ Computed'
  BY <1>1, Bounds DEF Numbered, Computed
<1>4. NewIsUnlisted' /\ CheckedIsNotBanned' /\ OnIsListed' /\ RevokedStaysOut'
  BY <1>1 DEF NewIsUnlisted, CheckedIsNotBanned, UnderCheck, OnIsListed, Rotation, RevokedStaysOut
<1>5. LimitHolds'
  <2> DEFINE L == registry \ revived
             M == (registry \ {s}) \ (revived \ {s})
  <2> SUFFICES ASSUME MaxDevices > 0, Deny \/ EvictOldest PROVE Cardinality(M) <= MaxDevices
    BY <1>1 DEF LimitHolds, MaxDevices, Deny, EvictOldest
  <2>1. Cardinality(L) <= MaxDevices /\ MaxDevices \in Nat
    BY SessionAssumption DEF LimitHolds, TypeOK, MaxDevices
  <2>2. L \in SUBSET Sids /\ M \in SUBSET L
    BY DEF TypeOK
  <2> HIDE DEF L, M
  <2>3. Cardinality(M) <= Cardinality(L) /\ Cardinality(M) \in Nat /\ Cardinality(L) \in Nat
    BY <2>2, Smaller
  <2> QED
    BY <2>1, <2>3
<1> QED
  BY <1>2, <1>3, <1>4, <1>5

-----------------------------------------------------------------------------
(* The theorems.                                                             *)

LEMMA StepsKeep == ASSUME IInv, [Next]_vars PROVE IInv'
<1>1. CASE UNCHANGED vars
  <2>1. /\ UNCHANGED <<config, registry, lock, buf, cookie, on, req, pc, target, outcome>>
        /\ UNCHANGED <<taken, banned, revived, barred, sids, requests, faults, lapses>>
    BY <1>1 DEF vars, store, device, history, bounds
  <2>2. TypeOK'
    BY <2>1 DEF IInv, TypeOK
  <2>3. Numbered' /\ NewIsUnlisted' /\ CheckedIsNotBanned' /\ RevokedStaysOut'
    BY <2>1 DEF IInv, Numbered, NewIsUnlisted, CheckedIsNotBanned, UnderCheck, RevokedStaysOut
  <2>4. Computed'
    <3>1. \A e \in Devices : Outs(e)' = Outs(e) /\ (Denied(e)' <=> Denied(e))
      BY <2>1 DEF Outs, Denied, Victims, Full, MaxDevices, EvictOldest, Deny
    <3> QED
      BY <2>1, <3>1 DEF IInv, Computed
  <2>5. OnIsListed' /\ LimitHolds'
    BY <2>1 DEF IInv, OnIsListed, LimitHolds, MaxDevices, Deny, EvictOldest, Rotation
  <2> QED
    BY <2>2, <2>3, <2>4, <2>5 DEF IInv
<1>2. ASSUME UNCHANGED config, NEW d \in Devices,
             Step(d) \/ LockFails(d) \/ BeginLogin(d) \/ Rotate(d) \/ \E k \in Kinds : Begin(d, k)
      PROVE  IInv'
  <2>1. CASE LockAndCompute(d)
    BY <1>2, <2>1, LockKeeps
  <2>2. CASE Write(d)
    BY <1>2, <2>2, WriteKeeps
  <2>3. CASE BeginLogin(d) \/ Rotate(d)
    BY <1>2, <2>3, NewIdKeeps
  <2>4. CASE ~LockAndCompute(d) /\ ~Write(d) /\ ~BeginLogin(d) /\ ~Rotate(d)
    BY <1>2, <2>4, LocalSteps, LocalKeeps DEF Step
  <2> QED
    BY <2>1, <2>2, <2>3, <2>4
<1>3. ASSUME UNCHANGED config, NEW s \in Sids, Lapse(s) PROVE IInv'
  BY <1>3, LapseKeeps
<1> QED
  BY <1>1, <1>2, <1>3 DEF Next

\* At every moment the registry, the lock and the browsers agree as IInv says
\* (Auth::synchronizeSessionRegistry, validateSessionConcurrency).
THEOREM Invariant == Spec => []IInv
<1>1. Init => IInv
  BY InitIsSound
<1>2. IInv /\ [Next]_vars => IInv'
  BY StepsKeep
<1> QED
  BY <1>1, <1>2, PTL DEF Spec

\* A session that was evicted, revoked or logged out while no check of it was under way
\* does not come back, however requests interleave (Auth::revokeUserSession).
THEOREM RevokedAreOut == Spec => []RevokedStaysOut
<1>1. IInv => RevokedStaysOut
  BY DEF IInv
<1> QED
  BY <1>1, Invariant, PTL

\* No more sessions are listed than max_devices, apart from those a check has put back
\* (Auth::registerSessionForUser).
THEOREM LimitIsKept == Spec => []LimitHolds
<1>1. IInv => LimitHolds
  BY DEF IInv
<1> QED
  BY <1>1, Invariant, PTL

\* A session that is on and was not taken out is listed between its requests
\* (Auth::registerSessionForUser).
THEOREM SessionsAreListed == Spec => []RegistryIsSound
<1>1. IInv => RegistryIsSound
  BY DEF IInv, OnIsListed, RegistryIsSound, ActiveIsListed
<1> QED
  BY <1>1, Invariant, PTL
=============================================================================
