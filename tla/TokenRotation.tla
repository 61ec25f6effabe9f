--------------------------- MODULE TokenRotation ---------------------------
(***************************************************************************)
(* The access tokens of one user: TokenService of app/support/Auth, called *)
(* by requests that run at once.  A rotation reads the row of its token,   *)
(* inserts a replacement and deletes the old row, in three statements      *)
(* without a transaction; when the delete finds no row, someone else was   *)
(* faster and the replacement is deleted again.                            *)
(*                                                                         *)
(* A token is the id of its row: AUTO_INCREMENT counts from 1 and never    *)
(* comes back, and the secret belongs to the row.                          *)
(***************************************************************************)
EXTENDS Naturals, FiniteSets

CONSTANTS
  Requests,  \* the requests that run at once
  MaxTokens, \* bound: rows inserted
  MaxFaults  \* bound: statements that fail, and requests that are killed

None == 0

VARIABLES
  valid,   \* the tokens that have a row
  next,    \* the id of the next row
  known,   \* the tokens a client was given
  pc,      \* the next statement of each request
  mine,    \* the token it bears
  new,     \* the replacement it has inserted
  parent,  \* history: the token each token replaces, or None
  root,    \* history: the token of the login each one descends from
  ended,   \* history: the logins whose tokens the user has revoked
  cut,     \* history: requests that ended between the statements of a rotation
  faults

vars == <<valid, next, known, pc, mine, new, parent, root, ended, cut, faults>>
history == <<parent, root>>

Tokens == 1..(next - 1)

TypeOK ==
  /\ next \in Nat \ {0}
  /\ valid \subseteq Tokens /\ known \subseteq Tokens
  /\ pc \in [Requests -> {"idle", "create", "revoke", "undo", "reply"}]
  /\ mine \in [Requests -> Tokens \cup {None}]
  /\ new \in [Requests -> Tokens \cup {None}]
  /\ \A r \in Requests : pc[r] \in {"revoke", "undo", "reply"} => new[r] # None
  /\ parent \in [Tokens -> Tokens \cup {None}] /\ root \in [Tokens -> Tokens]
  /\ ended \subseteq Tokens
  /\ cut \subseteq Requests /\ faults \in Nat

\* The user has logged in once.
Init ==
  /\ valid = {1} /\ next = 2 /\ known = {1}
  /\ pc = [r \in Requests |-> "idle"]
  /\ mine = [r \in Requests |-> None] /\ new = [r \in Requests |-> None]
  /\ parent = [t \in {1} |-> None] /\ root = [t \in {1} |-> 1]
  /\ ended = {} /\ cut = {} /\ faults = 0

-----------------------------------------------------------------------------
GoTo(r, l) == pc' = [pc EXCEPT ![r] = l]

\* insertTokenRecord: a row with a new id, which replaces p or begins a login.
Insert(p) ==
  /\ next <= MaxTokens
  /\ next' = next + 1 /\ valid' = valid \cup {next}
  /\ parent' = [t \in 1..next |-> IF t = next THEN p ELSE parent[t]]
  /\ root' = [t \in 1..next |-> IF t # next THEN root[t] ELSE IF p = None THEN next ELSE root[p]]

\* A login in token mode: one insert.
Login ==
  /\ Insert(None)
  /\ known' = known \cup {next}
  /\ UNCHANGED <<pc, mine, new, ended, cut, faults>>

\* revokeToken() of the token a client bears.
Logout(t) ==
  /\ t \in known /\ t \in valid
  /\ valid' = valid \ {t} /\ ended' = ended \cup {root[t]}
  /\ UNCHANGED <<next, known, pc, mine, new, history, cut, faults>>

\* revokeAllTokens(): one delete.
LogoutEverywhere ==
  /\ valid' = {} /\ ended' = ended \cup {root[t] : t \in Tokens}
  /\ UNCHANGED <<next, known, pc, mine, new, history, cut, faults>>

\* rotateToken(): currentToken() finds the row; without one the request is refused and
\* nothing changes.
Find(r, t) ==
  /\ pc[r] = "idle" /\ t \in known /\ t \in valid
  /\ mine' = [mine EXCEPT ![r] = t] /\ new' = [new EXCEPT ![r] = None]
  /\ GoTo(r, "create")
  /\ UNCHANGED <<valid, next, known, history, ended, cut, faults>>

Create(r) ==
  /\ pc[r] = "create"
  /\ Insert(mine[r])
  /\ new' = [new EXCEPT ![r] = next]
  /\ GoTo(r, "revoke")
  /\ UNCHANGED <<known, mine, ended, cut, faults>>

CreateFails(r) ==
  /\ pc[r] = "create" /\ faults < MaxFaults
  /\ faults' = faults + 1 /\ GoTo(r, "idle")
  /\ UNCHANGED <<valid, next, known, mine, new, history, ended, cut>>

\* Mutant: a delete that has found no row counts as success.
AnyDeleteWill(r) == TRUE

\* isWriteSuccess(): the delete counts if a row was affected.
Affected(r) == mine[r] \in valid

\* Mutant: the replacement is deleted whatever became of the old token.
UndoesAlways(r) ==
  /\ pc[r] = "revoke"
  /\ valid' = valid \ {mine[r]}
  /\ GoTo(r, "undo")
  /\ UNCHANGED <<next, known, mine, new, history, ended, cut, faults>>

Revoke(r) ==
  /\ pc[r] = "revoke"
  /\ valid' = valid \ {mine[r]}
  /\ GoTo(r, IF Affected(r) THEN "reply" ELSE "undo")
  /\ UNCHANGED <<next, known, mine, new, history, ended, cut, faults>>

\* The delete of the old row reports an error.
RevokeFails(r) ==
  /\ pc[r] = "revoke" /\ faults < MaxFaults
  /\ faults' = faults + 1 /\ GoTo(r, "undo")
  /\ UNCHANGED <<valid, next, known, mine, new, history, ended, cut>>

\* Mutant: the request is answered, and the replacement stays.
AnswersOnly(r) ==
  /\ pc[r] = "undo" /\ GoTo(r, "idle")
  /\ UNCHANGED <<valid, next, known, mine, new, history, ended, cut, faults>>

Undo(r) ==
  /\ pc[r] = "undo"
  /\ valid' = valid \ {new[r]}
  /\ GoTo(r, "idle")
  /\ UNCHANGED <<next, known, mine, new, history, ended, cut, faults>>

\* rotateCurrentToken(): the client is given the replacement.
Reply(r) ==
  /\ pc[r] = "reply"
  /\ known' = known \cup {new[r]}
  /\ GoTo(r, "idle")
  /\ UNCHANGED <<valid, next, mine, new, history, ended, cut, faults>>

\* The request ends where it is: it is killed, or a statement throws.
End(r) ==
  /\ pc[r] # "idle" /\ faults < MaxFaults
  /\ faults' = faults + 1 /\ cut' = cut \cup {r}
  /\ GoTo(r, "idle")
  /\ UNCHANGED <<valid, next, known, mine, new, history, ended>>

-----------------------------------------------------------------------------
Rotate(r) ==
  \/ Create(r) \/ CreateFails(r) \/ Revoke(r) \/ RevokeFails(r) \/ Undo(r) \/ Reply(r)

Next ==
  \/ Login \/ LogoutEverywhere
  \/ \E t \in known : Logout(t)
  \/ \E r \in Requests : Rotate(r) \/ End(r) \/ \E t \in known : Find(r, t)

Spec == Init /\ [][Next]_vars

-----------------------------------------------------------------------------
(* Properties. *)

\* A replacement that is not yet sure to stay.
Pending == {new[r] : r \in {q \in Requests : pc[q] \in {"revoke", "undo"}}}

\* However many rotations of a token run at once, one of them replaces it: no two
\* tokens a client was given replace the same one (TokenService::rotateToken).
OneSuccessor ==
  \A a, b \in known : parent[a] # None /\ parent[a] = parent[b] => a = b

\* No rotation leaves a user without a token: unless he has logged out, every login has
\* a token with a row, also when statements fail and requests are killed
\* (TokenService::rotateToken, which inserts before it deletes).
LoginLives ==
  \A t \in Tokens : root[t] \notin ended => \E u \in valid : root[u] = root[t]

\* When all rotations have come to their end, a login has one token, which a client
\* knows: the replacements of the slower ones are gone.
OneTokenWhenQuiet ==
  cut = {} /\ (\A r \in Requests : pc[r] = "idle") =>
     /\ valid \subseteq known
     /\ \A a, b \in valid : root[a] = root[b] => a = b

\* A rotation that runs beside a logout from everywhere does not bring a token back:
\* when it has come to its end, none of a login that was ended is left.
EndedStaysOut ==
  cut = {} /\ (\A r \in Requests : pc[r] = "idle") => \A t \in valid : root[t] \notin ended
\* When all rotations have come to their end nothing is left of them but their result
\* (TokenService::rotateToken, its second revokeToken()).
RotationsLeaveNothing == OneTokenWhenQuiet /\ EndedStaysOut
=============================================================================
