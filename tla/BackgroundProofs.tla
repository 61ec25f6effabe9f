---------------------------- MODULE BackgroundProofs ----------------------------
(***************************************************************************)
(* The rotations of access tokens keep every login, and leave it one       *)
(* token, for every set of requests and all bounds.  The task runner has   *)
(* few children at a time and leaves none behind, for any number of tasks, *)
(* any size of the chunks and any timeout.                                 *)
(***************************************************************************)
EXTENDS MCBackground, FiniteSetTheorems, TLAPS

-----------------------------------------------------------------------------
(* ACCESS TOKENS                                                             *)


-----------------------------------------------------------------------------
(* The inductive invariant.                                                  *)

Rotating(r) == pc[r] \in {"revoke", "undo", "reply"}

\* A rotation that has inserted its replacement keeps it to itself until the reply.
Working ==
  /\ \A r \in Requests : pc[r] # "idle" => mine[r] \in known
  /\ \A r \in Requests : Rotating(r) =>
       /\ new[r] \in Tokens \ known
       /\ parent[new[r]] = mine[r] /\ root[new[r]] = root[mine[r]]
  /\ \A r, q \in Requests : Rotating(r) /\ Rotating(q) /\ new[r] = new[q] => r = q

\* What was replaced has no row, and is replaced once.
Replaced ==
  /\ \A t \in known : parent[t] # None => parent[t] \notin valid
  /\ \A r \in Requests : pc[r] = "reply" => mine[r] \notin valid
  /\ \A r, q \in Requests : pc[r] = "reply" /\ pc[q] = "reply" /\ mine[r] = mine[q] => r = q
  /\ \A r \in Requests, t \in known : pc[r] = "reply" => parent[t] # mine[r]
  /\ OneSuccessor

\* A login has a token that no rotation is about to take back.
Alive ==
  /\ \A t \in Tokens : root[t] \notin ended => \E u \in valid \ Pending : root[u] = root[t]
  /\ \A r \in Requests : pc[r] = "revoke" /\ root[mine[r]] \notin ended => new[r] \in valid

\* Without a rotation that was cut off, it has one of them, until it is ended.
Single == cut = {} =>
  /\ \A t \in valid : t \in known \/ \E r \in Requests : Rotating(r) /\ t = new[r]
  /\ \A a, b \in valid \ Pending : root[a] = root[b] => a = b
  /\ \A t \in valid \ Pending : root[t] \notin ended

RotationInv == TypeOK /\ Working /\ Replaced /\ Alive /\ Single

-----------------------------------------------------------------------------
(* Frames: what an insert leaves alone, and what the local steps do.         *)

LEMMA TypeInit == Init => TypeOK
<1> SUFFICES ASSUME Init PROVE TypeOK
  OBVIOUS
<1>1. Tokens = {1}
  BY DEF Init, Tokens
<1>2. parent \in [{1} -> {1} \cup {None}] /\ root \in [{1} -> {1}]
  BY DEF Init
<1>3. parent \in [Tokens -> Tokens \cup {None}] /\ root \in [Tokens -> Tokens]
  BY <1>1, <1>2
<1>4. valid \subseteq Tokens /\ known \subseteq Tokens /\ ended \subseteq Tokens
  BY <1>1 DEF Init
<1>5. next \in Nat \ {0} /\ cut \subseteq Requests /\ faults \in Nat
  BY DEF Init
<1>6. pc \in [Requests -> {"idle", "create", "revoke", "undo", "reply"}]
  BY DEF Init
<1>7. mine \in [Requests -> Tokens \cup {None}]
  BY DEF Init
<1>8. new \in [Requests -> Tokens \cup {None}]
  BY DEF Init
<1>9. \A r \in Requests : pc[r] = "idle"
  BY DEF Init
<1> QED
  BY <1>3, <1>4, <1>5, <1>6, <1>7, <1>8, <1>9 DEF TypeOK

LEMMA InsertFrame ==
  ASSUME TypeOK, NEW p \in Tokens \cup {None}, Insert(p)
  PROVE  /\ next \notin Tokens /\ next \in Nat \ {0}
         /\ next' = next + 1 /\ Tokens' = Tokens \cup {next}
         /\ valid' = valid \cup {next}
         /\ \A t \in Tokens : parent'[t] = parent[t] /\ root'[t] = root[t]
         /\ parent'[next] = p
         /\ root'[next] = IF p = None THEN next ELSE root[p]
         /\ parent' \in [Tokens' -> Tokens' \cup {None}] /\ root' \in [Tokens' -> Tokens']
<1>1. next \notin Tokens /\ next \in Nat \ {0} /\ next' = next + 1
  BY DEF TypeOK, Tokens, Insert
<1>2. Tokens' = 1..next /\ Tokens' = Tokens \cup {next}
  BY <1>1 DEF Tokens
<1>3. /\ \A t \in Tokens : parent'[t] = parent[t] /\ root'[t] = root[t]
      /\ parent'[next] = p
      /\ root'[next] = IF p = None THEN next ELSE root[p]
  BY <1>1, <1>2 DEF Insert
<1>4. parent \in [Tokens -> Tokens \cup {None}] /\ root \in [Tokens -> Tokens]
  BY DEF TypeOK
<1>5. parent' \in [Tokens' -> Tokens' \cup {None}]
  BY <1>1, <1>2, <1>4 DEF Insert
<1>6. p # None => root[p] \in Tokens
  BY <1>4
<1>7. root' \in [Tokens' -> Tokens']
  BY <1>1, <1>2, <1>4, <1>6 DEF Insert
<1> QED
  BY <1>1, <1>2, <1>3, <1>5, <1>7 DEF Insert

\* Steps that touch no row: they move one request, which becomes idle or tries to undo.
Local(r) == CreateFails(r) \/ RevokeFails(r) \/ End(r)

LEMMA LocalFrame ==
  ASSUME TypeOK, NEW r \in Requests, Local(r)
  PROVE  /\ UNCHANGED <<valid, next, known, mine, new, parent, root, ended, Tokens>>
         /\ \A q \in Requests : q # r => pc'[q] = pc[q]
         /\ pc[r] # "idle" /\ pc'[r] \in {"idle", "undo"}
         /\ pc'[r] = "undo" => pc[r] = "revoke" /\ cut' = cut
         /\ pc'[r] = "idle" => pc[r] = "create" \/ cut' # {}
         /\ cut \subseteq cut'
<1> USE DEF TypeOK, GoTo, history, Tokens
<1>1. CASE CreateFails(r)  BY <1>1 DEF CreateFails
<1>2. CASE RevokeFails(r)  BY <1>2 DEF RevokeFails
<1>3. CASE End(r)  BY <1>3 DEF End
<1> QED
  BY <1>1, <1>2, <1>3 DEF Local

-----------------------------------------------------------------------------
(* Types.                                                                    *)

LEMMA TypeStep == TypeOK /\ [Next]_vars => TypeOK'
<1> SUFFICES ASSUME TypeOK, [Next]_vars PROVE TypeOK'
  OBVIOUS
<1> USE DEF TypeOK, GoTo, history
<1>1. CASE Login
  <2>1. Insert(None)
    BY <1>1 DEF Login
  <2> QED
    BY <1>1, <2>1, InsertFrame DEF Login
<1>2. ASSUME NEW t \in known, Logout(t) PROVE TypeOK'
  BY <1>2 DEF Logout, Tokens
<1>3. CASE LogoutEverywhere
  BY <1>3 DEF LogoutEverywhere, Tokens
<1>4. ASSUME NEW r \in Requests, NEW t \in known, Find(r, t) PROVE TypeOK'
  BY <1>4 DEF Find, Tokens
<1>5. ASSUME NEW r \in Requests, Create(r) PROVE TypeOK'
  <2>1. Insert(mine[r]) /\ mine[r] \in Tokens \cup {None}
    BY <1>5 DEF Create
  <2>2. next # None
    BY DEF None
  <2> QED
    BY <1>5, <2>1, <2>2, InsertFrame DEF Create
<1>6. ASSUME NEW r \in Requests, Local(r) PROVE TypeOK'
  <2>1. faults' \in Nat /\ cut' \subseteq Requests
    BY <1>6 DEF Local, CreateFails, RevokeFails, End
  <2>2. pc' \in [Requests -> {"idle", "create", "revoke", "undo", "reply"}]
    BY <1>6 DEF Local, CreateFails, RevokeFails, End
  <2>3. \A q \in Requests : pc'[q] \in {"revoke", "undo", "reply"} => new'[q] # None
    BY <1>6 DEF Local, CreateFails, RevokeFails, End
  <2>4. UNCHANGED <<valid, next, known, mine, new, parent, root, ended, Tokens>>
    BY <1>6 DEF Local, CreateFails, RevokeFails, End, Tokens
  <2> QED
    BY <2>1, <2>2, <2>3, <2>4
<1>7. ASSUME NEW r \in Requests, Revoke(r) PROVE TypeOK'
  BY <1>7 DEF Revoke, Tokens
<1>8. ASSUME NEW r \in Requests, Undo(r) PROVE TypeOK'
  BY <1>8 DEF Undo, Tokens
<1>9. ASSUME NEW r \in Requests, Reply(r) PROVE TypeOK'
  BY <1>9 DEF Reply, Tokens
<1>10. CASE UNCHANGED vars
  BY <1>10 DEF vars, Tokens
<1> QED
  BY <1>1, <1>2, <1>3, <1>4, <1>5, <1>6, <1>7, <1>8, <1>9, <1>10 DEF Next, Rotate, Local

-----------------------------------------------------------------------------
(* The rotations.                                                            *)

LEMMA WorkingStep == TypeOK /\ Working /\ [Next]_vars => Working'
<1> SUFFICES ASSUME TypeOK, Working, [Next]_vars PROVE Working'
  OBVIOUS
<1> USE DEF Working, Rotating, GoTo, history
<1>1. CASE Login
  <2>1. Insert(None)
    BY <1>1 DEF Login
  <2> QED
    BY <1>1, <2>1, InsertFrame DEF Login, TypeOK
<1>2. ASSUME NEW t \in known, Logout(t) PROVE Working'
  BY <1>2 DEF Logout, Tokens
<1>3. CASE LogoutEverywhere
  BY <1>3 DEF LogoutEverywhere, Tokens
<1>4. ASSUME NEW r \in Requests, NEW t \in known, Find(r, t) PROVE Working'
  BY <1>4 DEF Find, Tokens, TypeOK
<1>5. ASSUME NEW r \in Requests, Create(r) PROVE Working'
  <2>1. Insert(mine[r]) /\ mine[r] \in Tokens /\ mine[r] \in known
    BY <1>5 DEF Create, TypeOK
  <2>2. next \notin known
    BY <2>1, InsertFrame DEF TypeOK
  <2>5. mine[r] # None
    BY <2>1 DEF None, Tokens
  <2>3. /\ pc'[r] = "revoke" /\ new'[r] = next /\ mine' = mine /\ known' = known
        /\ \A q \in Requests : q # r => pc'[q] = pc[q] /\ new'[q] = new[q]
    BY <1>5 DEF Create, TypeOK
  <2>4. \A q \in Requests : q # r /\ Rotating(q) => new[q] \in Tokens /\ new[q] # next /\ mine[q] \in Tokens
    BY <2>1, InsertFrame DEF TypeOK
  <2> QED
    BY <2>1, <2>2, <2>3, <2>4, <2>5, InsertFrame
<1>6. ASSUME NEW r \in Requests, Local(r) PROVE Working'
  BY <1>6, LocalFrame
<1>7. ASSUME NEW r \in Requests, Revoke(r) \/ Undo(r) PROVE Working'
  <2>1. /\ UNCHANGED <<known, mine, new, parent, root, Tokens>>
        /\ pc[r] \in {"revoke", "undo"}
        /\ \A q \in Requests : q # r => pc'[q] = pc[q]
    BY <1>7 DEF Revoke, Undo, Tokens, TypeOK
  <2> QED
    BY <2>1
<1>8. ASSUME NEW r \in Requests, Reply(r) PROVE Working'
  BY <1>8 DEF Reply, Tokens, TypeOK
<1>9. CASE UNCHANGED vars
  BY <1>9 DEF vars, Tokens
<1> QED
  BY <1>1, <1>2, <1>3, <1>4, <1>5, <1>6, <1>7, <1>8, <1>9 DEF Next, Rotate, Local

LEMMA ReplacedStep == TypeOK /\ Working /\ Replaced /\ [Next]_vars => Replaced'
<1> SUFFICES ASSUME TypeOK, Working, Replaced, [Next]_vars PROVE Replaced'
  OBVIOUS
<1> USE DEF Replaced, OneSuccessor, GoTo, history
<1>1. CASE Login
  <2>1. Insert(None)
    BY <1>1 DEF Login
  <2>2. \A t \in known : t \in Tokens /\ parent[t] \in Tokens \cup {None} /\ parent'[t] = parent[t]
    BY <2>1, InsertFrame DEF TypeOK
  <2>3. \A r \in Requests : pc[r] = "reply" => mine[r] # next /\ mine[r] # None
    BY <2>1, InsertFrame DEF TypeOK, Working, None, Tokens
  <2> QED
    BY <1>1, <2>1, <2>2, <2>3, InsertFrame DEF Login
<1>2. ASSUME NEW t \in known, Logout(t) PROVE Replaced'
  BY <1>2 DEF Logout
<1>3. CASE LogoutEverywhere
  BY <1>3 DEF LogoutEverywhere
<1>4. ASSUME NEW r \in Requests, NEW t \in known, Find(r, t) PROVE Replaced'
  BY <1>4 DEF Find, TypeOK
<1>5. ASSUME NEW r \in Requests, Create(r) PROVE Replaced'
  <2>1. Insert(mine[r]) /\ mine[r] \in Tokens
    BY <1>5 DEF Create, TypeOK, Working
  <2>2. \A t \in known : t \in Tokens /\ parent[t] \in Tokens \cup {None} /\ parent'[t] = parent[t]
    BY <2>1, InsertFrame DEF TypeOK
  <2>3. \A q \in Requests : pc'[q] = "reply" => pc[q] = "reply" /\ mine[q] # next
    BY <1>5, <2>1, InsertFrame DEF TypeOK, Working, Create
  <2>4. next # None
    BY <2>1, InsertFrame DEF None
  <2> QED
    BY <1>5, <2>1, <2>2, <2>3, <2>4, InsertFrame DEF Create
<1>6. ASSUME NEW r \in Requests, Local(r) PROVE Replaced'
  BY <1>6, LocalFrame
<1>7. ASSUME NEW r \in Requests, Revoke(r) PROVE Replaced'
  <2>1. /\ valid' \subseteq valid /\ mine[r] \notin valid'
        /\ UNCHANGED <<known, mine, parent>>
        /\ \A q \in Requests : q # r => pc'[q] = pc[q]
        /\ pc'[r] = "reply" => mine[r] \in valid
    BY <1>7 DEF Revoke, Affected, TypeOK
  <2>2. mine[r] # None
    BY <1>7 DEF Revoke, Working, TypeOK, Tokens, None
  <2>3. pc'[r] = "reply" => /\ \A q \in Requests : pc[q] = "reply" => mine[q] # mine[r]
                           /\ \A t \in known : parent[t] # mine[r]
    BY <2>1, <2>2
  <2> QED
    BY <2>1, <2>3
<1>8. ASSUME NEW r \in Requests, Undo(r) PROVE Replaced'
  BY <1>8 DEF Undo, TypeOK
<1>9. ASSUME NEW r \in Requests, Reply(r) PROVE Replaced'
  <2>1. parent[new[r]] = mine[r] /\ mine[r] \notin valid
    BY <1>9 DEF Reply, Working, Rotating
  <2> QED
    BY <1>9, <2>1 DEF Reply, TypeOK
<1>10. CASE UNCHANGED vars
  BY <1>10 DEF vars
<1> QED
  BY <1>1, <1>2, <1>3, <1>4, <1>5, <1>6, <1>7, <1>8, <1>9, <1>10 DEF Next, Rotate, Local

-----------------------------------------------------------------------------
(* The logins.                                                               *)

LEMMA PendingIsOwn ==
  ASSUME TypeOK, Working
  PROVE  /\ Pending \subseteq Tokens \ known
         /\ \A r \in Requests : pc[r] = "reply" => new[r] \notin Pending
  BY DEF TypeOK, Working, Rotating, Pending

LEMMA AliveStep == TypeOK /\ Working /\ Alive /\ [Next]_vars => Alive'
<1> SUFFICES ASSUME TypeOK, Working, Alive, [Next]_vars PROVE Alive'
  OBVIOUS
<1> USE PendingIsOwn DEF Alive, GoTo, history
<1>1. CASE Login
  <2>1. Insert(None)
    BY <1>1 DEF Login
  <2>2. Pending' = Pending
    BY <1>1 DEF Login, Pending
  <2>3. \A r \in Requests : pc[r] = "revoke" => mine[r] \in Tokens
    BY DEF TypeOK, Working
  <2>4. valid \subseteq Tokens
    BY DEF TypeOK
  <2> QED
    BY <1>1, <2>1, <2>2, <2>3, <2>4, InsertFrame DEF Login
<1>2. ASSUME NEW t \in known, Logout(t) PROVE Alive'
  <2>1. Pending' = Pending
    BY <1>2 DEF Logout, Pending
  <2>2. \A r \in Requests : pc[r] = "revoke" => new[r] # t
    BY DEF Working, Rotating
  <2> QED
    BY <1>2, <2>1, <2>2 DEF Logout, Tokens
<1>3. CASE LogoutEverywhere
  <2>1. \A r \in Requests : pc[r] = "revoke" => mine[r] \in Tokens
    BY DEF TypeOK, Working
  <2> QED
    BY <1>3, <2>1 DEF LogoutEverywhere, Tokens
<1>4. ASSUME NEW r \in Requests, NEW t \in known, Find(r, t) PROVE Alive'
  <2>1. Pending' = Pending
    BY <1>4 DEF Find, Pending, TypeOK
  <2> QED
    BY <1>4, <2>1 DEF Find, Tokens, TypeOK
<1>5. ASSUME NEW r \in Requests, Create(r) PROVE Alive'
  <2>1. Insert(mine[r]) /\ mine[r] \in Tokens
    BY <1>5 DEF Create, TypeOK, Working
  <2>2. mine[r] # None
    BY <2>1 DEF Tokens, None
  <2>3. Pending' \subseteq Pending \cup {next}
    BY <1>5 DEF Create, Pending, TypeOK
  <2>4. valid \subseteq Tokens /\ \A q \in Requests : pc[q] = "revoke" => mine[q] \in Tokens
    BY DEF TypeOK, Working
  <2>5. \A t \in Tokens' : root'[t] \notin ended => \E u \in valid \ Pending : root[u] = root'[t]
    BY <2>1, <2>2, InsertFrame
  <2>6. \A u \in valid \ Pending : u \in valid' \ Pending' /\ root'[u] = root[u]
    BY <2>1, <2>3, <2>4, InsertFrame
  <2>7. \A q \in Requests : q # r => pc'[q] = pc[q] /\ new'[q] = new[q]
    BY <1>5 DEF Create, TypeOK
  <2>8. new'[r] = next /\ next \in valid' /\ mine' = mine /\ ended' = ended /\ valid \subseteq valid'
    BY <1>5, <2>1, InsertFrame DEF Create, TypeOK
  <2> QED
    BY <2>1, <2>4, <2>5, <2>6, <2>7, <2>8, InsertFrame
<1>6. ASSUME NEW r \in Requests, Local(r) PROVE Alive'
  <2>1. Pending' \subseteq Pending
    BY <1>6, LocalFrame DEF Pending
  <2> QED
    BY <1>6, <2>1, LocalFrame
<1>7. ASSUME NEW r \in Requests, Revoke(r) PROVE Alive'
  <2>1. /\ UNCHANGED <<known, mine, new, parent, root, ended, Tokens>>
        /\ valid' = valid \ {mine[r]} /\ pc[r] = "revoke"
        /\ pc'[r] \in {"undo", "reply"}
        /\ mine[r] \in valid => pc'[r] = "reply"
        /\ \A q \in Requests : q # r => pc'[q] = pc[q]
    BY <1>7 DEF Revoke, Affected, TypeOK, Tokens
  <2>2. Pending' \subseteq Pending
    BY <2>1 DEF Pending
  <2>3. mine[r] \in known /\ new[r] \notin known /\ root[new[r]] = root[mine[r]]
    BY <2>1 DEF Working, Rotating
  <2>4. pc'[r] = "reply" => new[r] \notin Pending'
    BY <2>1 DEF Pending, Working, Rotating
  <2>5. \A q \in Requests : pc'[q] = "revoke" => pc[q] = "revoke" /\ new[q] # mine[r]
    BY <2>1, <2>3 DEF Working, Rotating
  <2>6. ASSUME NEW t \in Tokens, root[t] \notin ended
        PROVE  \E u \in valid' \ Pending' : root[u] = root[t]
    <3>1. PICK u \in valid \ Pending : root[u] = root[t]
      BY <2>6
    <3>2. CASE u = mine[r]
      BY <2>1, <2>3, <2>4, <2>6, <3>1, <3>2
    <3>3. CASE u # mine[r]
      BY <2>1, <2>2, <3>1, <3>3
    <3> QED
      BY <3>2, <3>3
  <2> QED
    BY <2>1, <2>5, <2>6
<1>8. ASSUME NEW r \in Requests, Undo(r) PROVE Alive'
  <2>1. Pending' \subseteq Pending /\ new[r] \in Pending
    BY <1>8 DEF Undo, Pending, TypeOK
  <2>2. \A q \in Requests : pc'[q] = "revoke" => pc[q] = "revoke" /\ new[q] # new[r]
    BY <1>8 DEF Undo, Working, Rotating, TypeOK
  <2> QED
    BY <1>8, <2>1, <2>2 DEF Undo, Tokens
<1>9. ASSUME NEW r \in Requests, Reply(r) PROVE Alive'
  <2>1. Pending' = Pending
    BY <1>9 DEF Reply, Pending, TypeOK
  <2> QED
    BY <1>9, <2>1 DEF Reply, Tokens, TypeOK
<1>10. CASE UNCHANGED vars
  <2>1. Pending' = Pending
    BY <1>10 DEF vars, Pending
  <2> QED
    BY <1>10, <2>1 DEF vars, Tokens
<1> QED
  BY <1>1, <1>2, <1>3, <1>4, <1>5, <1>6, <1>7, <1>8, <1>9, <1>10 DEF Next, Rotate, Local

LEMMA SingleStep == TypeOK /\ Working /\ Single /\ [Next]_vars => Single'
<1> SUFFICES ASSUME TypeOK, Working, Single, [Next]_vars, cut' = {} PROVE Single'
  BY DEF Single
<1> USE PendingIsOwn DEF Single, GoTo, history
<1>1. CASE Login
  <2>1. Insert(None)
    BY <1>1 DEF Login
  <2>2. Pending' = Pending
    BY <1>1 DEF Login, Pending
  <2>3. valid \subseteq Tokens /\ ended \subseteq Tokens /\ \A t \in Tokens : root[t] \in Tokens
    BY DEF TypeOK
  <2>4. \A r \in Requests : Rotating(r) => Rotating(r)' /\ new'[r] = new[r]
    BY <1>1 DEF Login, Rotating
  <2>5. known' = known \cup {next} /\ ended' = ended /\ cut' = cut
    BY <1>1 DEF Login
  <2> QED
    BY <2>1, <2>2, <2>3, <2>4, <2>5, InsertFrame
<1>2. ASSUME NEW t \in known, Logout(t) PROVE Single'
  <2>1. Pending' = Pending
    BY <1>2 DEF Logout, Pending
  <2> QED
    BY <1>2, <2>1 DEF Logout, Rotating
<1>3. CASE LogoutEverywhere
  BY <1>3 DEF LogoutEverywhere
<1>4. ASSUME NEW r \in Requests, NEW t \in known, Find(r, t) PROVE Single'
  <2>1. Pending' = Pending
    BY <1>4 DEF Find, Pending, TypeOK
  <2> QED
    BY <1>4, <2>1 DEF Find, Rotating, TypeOK
<1>5. ASSUME NEW r \in Requests, Create(r) PROVE Single'
  <2>1. Insert(mine[r]) /\ mine[r] \in Tokens
    BY <1>5 DEF Create, TypeOK, Working
  <2>2. next \in Pending' /\ Pending \subseteq Pending'
    BY <1>5 DEF Create, Pending, TypeOK
  <2>3. valid \subseteq Tokens
    BY DEF TypeOK
  <2>4. \A q \in Requests : Rotating(q) => Rotating(q)' /\ new'[q] = new[q]
    BY <1>5 DEF Create, Rotating, TypeOK
  <2>5. Rotating(r)' /\ new'[r] = next /\ known' = known /\ ended' = ended /\ cut' = cut
    BY <1>5 DEF Create, Rotating, TypeOK
  <2> QED
    BY <2>1, <2>2, <2>3, <2>4, <2>5, InsertFrame
<1>6. ASSUME NEW r \in Requests, Local(r) PROVE Single'
  <2>1. Pending' = Pending
    BY <1>6, LocalFrame DEF Pending
  <2>2. \A q \in Requests : Rotating(q) => Rotating(q)'
    BY <1>6, LocalFrame DEF Rotating
  <2> QED
    BY <1>6, <2>1, <2>2, LocalFrame
<1>7. ASSUME NEW r \in Requests, Revoke(r) PROVE Single'
  <2>1. /\ UNCHANGED <<known, mine, new, parent, root, ended, cut>>
        /\ valid' = valid \ {mine[r]} /\ pc[r] = "revoke"
        /\ pc'[r] = IF mine[r] \in valid THEN "reply" ELSE "undo"
        /\ \A q \in Requests : q # r => pc'[q] = pc[q]
    BY <1>7 DEF Revoke, Affected, TypeOK
  <2>2. \A q \in Requests : Rotating(q) => Rotating(q)'
    BY <2>1 DEF Rotating
  <2>3. \A t \in valid \ Pending' : t \in Pending => t = new[r] /\ mine[r] \in valid
    BY <2>1 DEF Pending
  <2>4. mine[r] \in known /\ mine[r] \notin Pending /\ root[new[r]] = root[mine[r]]
    BY <2>1 DEF Working, Rotating
  <2>5. mine[r] \in valid => root[mine[r]] \notin ended
    BY <2>1, <2>4
  <2> QED
    BY <2>1, <2>2, <2>3, <2>4, <2>5
<1>8. ASSUME NEW r \in Requests, Undo(r) PROVE Single'
  <2>1. Pending \subseteq Pending' \cup {new[r]}
    BY <1>8 DEF Undo, Pending, TypeOK
  <2>2. \A q \in Requests : Rotating(q) => q = r \/ Rotating(q)'
    BY <1>8 DEF Undo, Rotating, TypeOK
  <2> QED
    BY <1>8, <2>1, <2>2 DEF Undo
<1>9. ASSUME NEW r \in Requests, Reply(r) PROVE Single'
  <2>1. Pending' = Pending
    BY <1>9 DEF Reply, Pending, TypeOK
  <2>2. \A q \in Requests : Rotating(q) => q = r \/ Rotating(q)'
    BY <1>9 DEF Reply, Rotating, TypeOK
  <2> QED
    BY <1>9, <2>1, <2>2 DEF Reply
<1>10. CASE UNCHANGED vars
  <2>1. Pending' = Pending
    BY <1>10 DEF vars, Pending
  <2> QED
    BY <1>10, <2>1 DEF vars, Rotating
<1> QED
  BY <1>1, <1>2, <1>3, <1>4, <1>5, <1>6, <1>7, <1>8, <1>9, <1>10 DEF Next, Rotate, Local

-----------------------------------------------------------------------------
(* The theorems.                                                             *)

LEMMA Start == Init => RotationInv
<1> SUFFICES ASSUME Init PROVE RotationInv
  OBVIOUS
<1>1. TypeOK
  BY TypeInit
<1>2. Tokens = {1} /\ Pending = {}
  BY DEF Init, Tokens, Pending
<1>3. Working /\ Alive /\ Single
  BY <1>2 DEF Init, Working, Rotating, Alive, Single
<1>4. Replaced
  BY DEF Init, Replaced, OneSuccessor
<1> QED
  BY <1>1, <1>3, <1>4 DEF RotationInv

LEMMA Kept == RotationInv /\ [Next]_vars => RotationInv'
  BY TypeStep, WorkingStep, ReplacedStep, AliveStep, SingleStep DEF RotationInv

\* The invariant holds: what the rotations of TokenService do to rows one after the other, in
\* any order, keeps its four parts.
THEOREM Invariant == Spec => []RotationInv
  BY Start, Kept, PTL DEF Spec

\* The rows, the clients and the requests of TokenService stay what they are declared to be.
THEOREM TokensAreTyped == Spec => []TypeOK
<1>1. RotationInv => TypeOK
  BY DEF RotationInv
<1> QED
  BY <1>1, Invariant, PTL

\* However many requests rotate a token at once, clients get one token that replaces it
\* (TokenService::rotateToken, which counts the rows its delete has affected).
THEOREM RotationHasOneWinner == Spec => []OneSuccessor
<1>1. RotationInv => OneSuccessor
  BY DEF RotationInv, Replaced
<1> QED
  BY <1>1, Invariant, PTL

\* A login that was not ended has a token, whatever fails and whoever is killed
\* (TokenService::rotateToken, which inserts before it deletes).
THEOREM RotationKeepsTheLogin == Spec => []LoginLives
<1>1. RotationInv => LoginLives
  BY DEF RotationInv, Alive, LoginLives
<1> QED
  BY <1>1, Invariant, PTL

\* When nothing was cut off, the replacements of the slower rotations are gone in the end
\* (the second revokeToken() of TokenService::rotateToken).
THEOREM RotationsLeaveOneToken == Spec => []OneTokenWhenQuiet
<1>1. RotationInv => OneTokenWhenQuiet
  <2> SUFFICES ASSUME RotationInv, cut = {}, \A r \in Requests : pc[r] = "idle" PROVE OneTokenWhenQuiet
    BY DEF OneTokenWhenQuiet
  <2>1. Pending = {} /\ \A r \in Requests : ~Rotating(r)
    BY DEF Pending, Rotating
  <2> QED
    BY <2>1 DEF RotationInv, Single, OneTokenWhenQuiet
<1> QED
  BY <1>1, Invariant, PTL

\* No rotation brings back a token of a login that was ended meanwhile
\* (TokenService::revokeAllTokens beside rotateToken).
THEOREM EndedLoginsStayOut == Spec => []EndedStaysOut
<1>1. RotationInv => EndedStaysOut
  <2> SUFFICES ASSUME RotationInv, cut = {}, \A r \in Requests : pc[r] = "idle" PROVE EndedStaysOut
    BY DEF EndedStaysOut
  <2>1. Pending = {}
    BY DEF Pending
  <2> QED
    BY <2>1 DEF RotationInv, Single, EndedStaysOut
<1> QED
  BY <1>1, Invariant, PTL

\* The rotations of TokenService leave nothing behind, neither a second token nor one that was
\* revoked.
THEOREM RotationsAreClean == Spec => []RotationsLeaveNothing
<1>1. OneTokenWhenQuiet /\ EndedStaysOut => RotationsLeaveNothing
  BY DEF RotationsLeaveNothing
<1> QED
  BY <1>1, RotationsLeaveOneToken, EndedLoginsStayOut, PTL
-----------------------------------------------------------------------------
(* THE TASK RUNNER                                                           *)

\* Who has not been told to end is in runningTasks.
Known == alive \ killed \subseteq running

\* The runner never waits for more than a chunk, not even for what is left of earlier ones.
FewRunning == Cardinality(running) <= MaxConcurrentTasks

\* The last wait is over when nobody is left.
NoneIsRunning == phase = "done" /\ started = NumTasks => running = {}

TasksInv == Tasks!TypeOK /\ Known /\ FewRunning /\ NoneIsRunning

\* The instance of TaskRunner has a Cardinality of its own, which is the same.
LEMMA SameCardinality == ASSUME NEW S PROVE Tasks!Cardinality(S) = Cardinality(S)
  BY DEF Cardinality, Tasks!Cardinality

LEMMA FiniteTasks ==
  ASSUME Tasks!TypeOK, NEW S \in SUBSET running
  PROVE  /\ IsFiniteSet(S) /\ IsFiniteSet(running) /\ Cardinality(S) \in Nat
         /\ Cardinality(running) \in Nat /\ Cardinality(S) <= Cardinality(running)
<1>1. IsFiniteSet(1..started) /\ running \subseteq 1..started
  BY FS_Interval, BackgroundAssumption DEF Tasks!TypeOK
<1>2. IsFiniteSet(running)
  BY <1>1, FS_Subset
<1>3. IsFiniteSet(S) /\ Cardinality(S) <= Cardinality(running)
  BY <1>2, FS_Subset
<1> QED
  BY <1>2, <1>3, FS_CardinalityType

LEMMA TasksStartSoundly == ASSUME Tasks!Init PROVE TasksInv
<1> USE BackgroundAssumption DEF Tasks!Init
<1>1. Tasks!TypeOK
  <2>1. started \in 0..NumTasks /\ waited \in 0..Tasks!Late /\ ages \in [Tasks!Tasks -> 0..Tasks!Late]
    BY DEF Tasks!Tasks, Tasks!Late
  <2> QED
    BY <2>1 DEF Tasks!TypeOK
<1>2. Cardinality(running) = 0
  BY FS_EmptySet
<1> QED
  BY <1>1, <1>2 DEF TasksInv, Known, FewRunning, NoneIsRunning

-----------------------------------------------------------------------------
(* A child is started.                                                       *)

LEMMA ExecuteKeeps == ASSUME TasksInv, Tasks!Execute PROVE TasksInv'
<1> USE BackgroundAssumption DEF TasksInv
<1>1. /\ phase = "start" /\ started < NumTasks /\ Tasks!Room /\ Tasks!Take(started + 1)
      /\ killed' = killed /\ missed' = missed
      /\ \/ UNCHANGED <<phase, patient, polled, waited, young>>
         \/ phase' = "wait" /\ patient' = FALSE /\ polled' = {} /\ young' = {} /\ waited' = 0
  BY DEF Tasks!Execute, Tasks!Wait
<1>2. started' = started + 1 /\ started' \in 0..NumTasks /\ 1..started \subseteq 1..started'
  BY <1>1 DEF Tasks!Take, Tasks!TypeOK
<1>3. phase' \in {"start", "wait"} /\ patient' \in BOOLEAN /\ waited' \in 0..Tasks!Late
  <2>1. 0 \in 0..Tasks!Late /\ FALSE \in BOOLEAN
    BY DEF Tasks!Late
  <2>2. CASE UNCHANGED <<phase, patient, polled, waited, young>>
    BY <1>1, <2>2 DEF Tasks!TypeOK
  <2>3. CASE phase' = "wait" /\ patient' = FALSE /\ waited' = 0
    BY <2>1, <2>3
  <2> QED
    BY <1>1, <2>2, <2>3
<1>4. \/ /\ running' = running \cup {started'} /\ alive' = alive \cup {started'}
         /\ ages' = [ages EXCEPT ![started'] = 0]
      \/ UNCHANGED <<running, alive, ages>>
  BY <1>1, <1>2 DEF Tasks!Take
<1>5. Tasks!TypeOK'
  <2>1. running' \subseteq 1..started' /\ alive' \subseteq 1..started' /\ killed' \subseteq 1..started'
    <3>1. started' \in 1..started'
      BY <1>2 DEF Tasks!TypeOK
    <3> QED
      BY <1>1, <1>2, <1>4, <3>1 DEF Tasks!TypeOK
  <2>2. polled' \subseteq running' /\ young' \subseteq polled'
    BY <1>1, <1>4 DEF Tasks!TypeOK
  <2>3. ages' \in [Tasks!Tasks -> 0..Tasks!Late]
    BY <1>4 DEF Tasks!TypeOK, Tasks!Late
  <2> QED
    BY <1>1, <1>2, <1>3, <2>1, <2>2, <2>3 DEF Tasks!TypeOK
<1>6. Known'
  BY <1>1, <1>4 DEF Known
<1>7. FewRunning'
  <2>1. started + 1 \notin running
    BY DEF Tasks!TypeOK
  <2>2. IsFiniteSet(running) /\ Cardinality(running) \in Nat
    BY FiniteTasks
  <2>3. Cardinality(running \cup {started + 1}) = Cardinality(running) + 1
    BY <2>1, <2>2, FS_AddElement
  <2> QED
    BY <1>1, <1>2, <1>4, <2>2, <2>3, SameCardinality DEF FewRunning, Tasks!Room
<1> QED
  BY <1>3, <1>5, <1>6, <1>7 DEF NoneIsRunning

-----------------------------------------------------------------------------
(* The steps that start nobody.                                              *)

LEMMA PollKeeps == ASSUME TasksInv, Tasks!Poll PROVE TasksInv'
<1> USE BackgroundAssumption DEF TasksInv
<1>1. PICK t \in running \ polled :
        /\ IF t \notin alive \/ Tasks!TooOld(t)
           THEN running' = running \ {t} /\ UNCHANGED <<polled, young>>
           ELSE /\ polled' = polled \cup {t}
                /\ young' = IF ages[t] > ProcessTimeout THEN young ELSE young \cup {t}
                /\ UNCHANGED running
        /\ killed' = IF t \in alive /\ Tasks!TooOld(t) THEN killed \cup {t} ELSE killed
  BY DEF Tasks!Poll
<1>2. phase = "wait" /\ UNCHANGED <<started, phase, patient, alive, ages, waited, missed>>
  BY DEF Tasks!Poll
<1>3. Tasks!TypeOK'
  <2>1. t \in 1..started
    BY DEF Tasks!TypeOK
  <2>2. running' \subseteq 1..started' /\ killed' \subseteq 1..started' /\ alive' \subseteq 1..started'
    BY <1>1, <1>2, <2>1 DEF Tasks!TypeOK
  <2>3. polled' \subseteq running' /\ young' \subseteq polled'
    <3>1. CASE t \notin alive \/ Tasks!TooOld(t)
      <4>1. running' = running \ {t} /\ polled' = polled /\ young' = young
        BY <1>1, <3>1
      <4> QED
        BY <4>1 DEF Tasks!TypeOK
    <3>2. CASE ~(t \notin alive \/ Tasks!TooOld(t))
      <4>1. running' = running /\ polled' = polled \cup {t} /\ young' \subseteq young \cup {t}
        BY <1>1, <3>2
      <4> QED
        BY <4>1 DEF Tasks!TypeOK
    <3> QED
      BY <3>1, <3>2
  <2> QED
    BY <1>2, <2>2, <2>3 DEF Tasks!TypeOK
<1>4. Known'
  BY <1>1, <1>2 DEF Known
<1>5. running' \subseteq running
  BY <1>1
<1>6. FewRunning'
  BY <1>5, FiniteTasks DEF FewRunning
<1> QED
  BY <1>2, <1>3, <1>4, <1>6 DEF NoneIsRunning

\* Whether a wait begins, goes on or ends, and when a child exits or a second passes,
\* runningTasks and the terminated children are the same.
LEMMA OthersKeep ==
  ASSUME TasksInv, Tasks!WaitForRoom \/ Tasks!Throws \/ Tasks!Again \/ Tasks!Waited \/ Tasks!Tick \/ (\E t \in alive : Tasks!Exit(t))
           \/ UNCHANGED taskVars
  PROVE  TasksInv'
<1> USE BackgroundAssumption DEF TasksInv
<1>1. UNCHANGED <<started, running, killed>> /\ alive' \subseteq alive
  BY DEF Tasks!WaitForRoom, Tasks!Throws, Tasks!Again, Tasks!Waited, Tasks!Tick, Tasks!Exit, taskVars
<1>2. phase' = "done" /\ started = NumTasks => running = {}
  BY DEF Tasks!WaitForRoom, Tasks!Wait, Tasks!Throws, Tasks!Again, Tasks!Waited, Tasks!Return, Tasks!Tick, Tasks!Exit, taskVars, NoneIsRunning
<1>3. Tasks!TypeOK'
  <2>1. CASE Tasks!WaitForRoom
    BY <2>1 DEF Tasks!WaitForRoom, Tasks!Wait, Tasks!TypeOK, Tasks!Late
  <2>2. CASE Tasks!Throws \/ Tasks!Again \/ (\E t \in alive : Tasks!Exit(t)) \/ UNCHANGED taskVars
    BY <2>2 DEF Tasks!Throws, Tasks!Again, Tasks!Exit, taskVars, Tasks!TypeOK, Tasks!Late
  <2>3. CASE Tasks!Waited
    BY <2>3 DEF Tasks!Waited, Tasks!Return, Tasks!TypeOK, Tasks!Late
  <2>4. CASE Tasks!Tick
    <3>1. ages' \in [Tasks!Tasks -> 0..Tasks!Late] /\ waited' \in 0..Tasks!Late
      BY <2>4 DEF Tasks!Tick, Tasks!TypeOK, Tasks!Late
    <3> QED
      BY <2>4, <3>1 DEF Tasks!Tick, Tasks!TypeOK
  <2> QED
    BY <2>1, <2>2, <2>3, <2>4
<1> QED
  BY <1>1, <1>2, <1>3 DEF Known, FewRunning, NoneIsRunning

-----------------------------------------------------------------------------
\* The children are few and none of them is left behind, whichever of them hang, fail to start
\* or are given up on (TaskRunner::run).
THEOREM ChildrenAreLookedAfter == BackgroundSpec => []ChildrenAreSound
<1> DEFINE all == <<part, tokenVars, queueVars, schedulerVars, taskVars>>
<1>1. BackgroundInit => TasksInv
  BY TasksStartSoundly DEF BackgroundInit
<1>2. TasksInv /\ [BackgroundNext]_all => TasksInv'
  <2> SUFFICES ASSUME TasksInv, [BackgroundNext]_all PROVE TasksInv'
    OBVIOUS
  <2>1. Tasks!Next \/ UNCHANGED taskVars
    BY DEF BackgroundNext
  <2> QED
    BY <2>1, ExecuteKeeps, PollKeeps, OthersKeep DEF Tasks!Next, Tasks!Step
<1>3. TasksInv => ChildrenAreSound
  <2> SUFFICES ASSUME TasksInv PROVE Tasks!FewAtOnce /\ Tasks!NoneIsLeft
    BY DEF TasksInv, ChildrenAreSound, Tasks!ChildrenAreSound
  <2>1. alive \ killed \in SUBSET running
    BY DEF TasksInv, Known
  <2>2. Cardinality(alive \ killed) <= Cardinality(running) /\ Cardinality(running) \in Nat
        /\ Cardinality(alive \ killed) \in Nat
    BY <2>1, FiniteTasks DEF TasksInv
  <2>3. Tasks!FewAtOnce
    BY <2>2, SameCardinality, BackgroundAssumption DEF TasksInv, FewRunning, Tasks!FewAtOnce
  <2> QED
    BY <2>1, <2>3 DEF TasksInv, Tasks!NoneIsLeft, NoneIsRunning
<1> QED
  BY <1>1, <1>2, <1>3, PTL DEF BackgroundSpec
=================================================================================
