---------------------------- MODULE UserSessions ----------------------------
(***************************************************************************)
(* Accounts and their refresh tokens: login, rotation and revocation of    *)
(* core/plugins/auth.ts, the login, refresh and logout routes, and the     *)
(* administrators' changes of core/services/admin-user-service.ts.  They   *)
(* meet in the users row, which rotations, revocations and changes lock,   *)
(* in the refresh_tokens rows, and in one advisory lock that guards the    *)
(* last administrator.  A token is the n-th of a family: a login starts a  *)
(* family, a rotation replaces its token by the next one.  Clients present *)
(* any token that was ever issued, also twice, late and at once.           *)
(***************************************************************************)
EXTENDS Naturals, FiniteSets

CONSTANTS
  Users,
  Requests,    \* requests under way
  MaxLogins,   \* bound of the families
  MaxTokens,   \* bound of the tokens of a family
  MaxChanges,  \* bound of the changes that end a user's sessions
  Hazards      \* subset of {"login"}

ASSUME SessionsAssumption ==
  /\ MaxLogins \in Nat /\ MaxTokens \in Nat \ {0} /\ MaxChanges \in Nat
  /\ "no" \notin Requests \cup Users

Families == 1..MaxLogins
Tokens == Families \X (1..MaxTokens)

VARIABLES
  account,  \* users: role and deactivated_at
  changes,  \* changes of role, deactivations and deletions that committed
  owner,    \* the user whose login began a family
  begun,    \* the changes of its user that a login had seen
  token,    \* refresh_tokens
  over,     \* families whose end has committed
  lock,     \* the request that holds the users row
  guard,    \* the request that holds ADMIN_GUARD_ADVISORY_LOCK
  request   \* the local state of every request

vars == <<account, changes, owner, begun, token, over, lock, guard, request>>
userVars == <<account, changes>>
familyVars == <<owner, begun>>

Idle == [at |-> "idle"]
Roles == {"user", "admin"}
Accounts == [role : Roles, state : {"active", "deactivated", "deleted"}]
Changes == {"deactivate", "delete", "role"}
TokenStates == {"unissued", "live", "revoked", "deleted"}

\* The local states of a request.
Locals ==
  {Idle}
  \cup [at : {"login"}, user : Users, seen : 0..MaxChanges]
  \cup [at : {"refresh", "locked", "claimed"}, user : Users, token : Tokens]
  \cup [at : {"revoke", "retry", "again"}, user : Users, family : 0..MaxLogins]
  \cup [at : {"blocked"}, user : Users, family : 0..MaxLogins, rows : SUBSET Tokens]
  \cup [at : {"change", "decided"}, user : Users, what : Changes]

TypeOK ==
  /\ account \in [Users -> Accounts]
  /\ changes \in [Users -> 0..MaxChanges]
  /\ owner \in [Families -> Users \cup {"no"}]
  /\ begun \in [Families -> 0..MaxChanges]
  /\ token \in [Tokens -> TokenStates]
  /\ over \subseteq Families
  /\ lock \in [Users -> Requests \cup {"no"}]
  /\ guard \in Requests \cup {"no"}
  /\ request \in [Requests -> Locals]

Init ==
  /\ account \in [Users -> [role : Roles, state : {"active"}]]
  /\ \E u \in Users : account[u].role = "admin"
  /\ changes = [u \in Users |-> 0]
  /\ owner = [f \in Families |-> "no"]
  /\ begun = [f \in Families |-> 0]
  /\ token = [t \in Tokens |-> "unissued"]
  /\ over = {}
  /\ lock = [u \in Users |-> "no"]
  /\ guard = "no"
  /\ request = [r \in Requests |-> Idle]

Become(r, j) == request' = [request EXCEPT ![r] = j]
Free(u) == lock[u] = "no"
Release(r) == lock' = [u \in Users |-> IF lock[u] = r THEN "no" ELSE lock[u]]

\* refresh_tokens rows that exist, and those a transaction has locked.
Stored == {t \in Tokens : token[t] \in {"live", "revoked"}}
Claimed == {request[r].token : r \in {r \in Requests : request[r].at = "claimed"}}
Revoked(T) == [t \in Tokens |-> IF t \in T THEN "revoked" ELSE token[t]]

-----------------------------------------------------------------------------
(* Login *)

\* The user is read; then the password is compared, which is slow.
Login(r, u) ==
  /\ request[r].at = "idle"
  /\ account[u].state = "active"
  /\ Become(r, [at |-> "login", user |-> u, seen |-> changes[u]])
  /\ UNCHANGED <<userVars, familyVars, token, over, lock, guard>>

\* The changes a login may have missed since it read the user.
Missed(u, seen) == IF "login" \in Hazards THEN seen..changes[u] ELSE {seen}

\* generateRefreshToken: one INSERT.  Its foreign key waits for a change's
\* FOR UPDATE, not for the FOR NO KEY UPDATE of a rotation or a revocation.
NewFamily(r) ==
  LET j == request[r]
  IN  /\ j.at = "login"
      /\ account[j.user].state # "deleted"
      /\ changes[j.user] \in Missed(j.user, j.seen)
      /\ \A q \in Requests : lock[j.user] = q => request[q].at \notin {"change", "decided"}
      /\ \E f \in Families :
           /\ owner[f] = "no"
           /\ \A g \in Families : g < f => owner[g] # "no"
           /\ owner' = [owner EXCEPT ![f] = j.user]
           /\ begun' = [begun EXCEPT ![f] = j.seen]
           /\ token' = [token EXCEPT ![<<f, 1>>] = "live"]
      /\ Become(r, Idle)
      /\ UNCHANGED <<userVars, over, lock, guard>>

-----------------------------------------------------------------------------
(* Rotation: rotateRefreshToken *)

Present(r, t) ==
  /\ request[r].at = "idle"
  /\ token[t] # "unissued"
  /\ Become(r, [at |-> "refresh", user |-> owner[t[1]], token |-> t])
  /\ UNCHANGED <<userVars, familyVars, token, over, lock, guard>>

\* SELECT ... FOR NO KEY UPDATE of the users row.
RotateLock(r) ==
  LET j == request[r]
  IN  /\ j.at = "refresh"
      /\ Free(j.user)
      /\ lock' = [lock EXCEPT ![j.user] = r]
      /\ Become(r, [j EXCEPT !.at = "locked"])
      /\ UNCHANGED <<userVars, familyVars, token, over, guard>>

\* A deactivated account: the presented token is revoked.
RotateDeactivated(r) ==
  LET j == request[r]
  IN  /\ j.at = "locked"
      /\ account[j.user].state = "deactivated"
      /\ token' = Revoked({j.token} \cap Stored)
      /\ Release(r)
      /\ Become(r, Idle)
      /\ UNCHANGED <<userVars, familyVars, over, guard>>

MutClaim(r) ==
  LET j == request[r]
  IN  /\ j.at = "locked"
      /\ account[j.user].state = "active"
      /\ j.token \in Stored
      /\ Become(r, [j EXCEPT !.at = "claimed"])
      /\ UNCHANGED <<userVars, familyVars, token, over, lock, guard>>

\* The conditional UPDATE finds the token unrevoked, and locks its row.
Claim(r) ==
  LET j == request[r]
  IN  /\ j.at = "locked"
      /\ account[j.user].state = "active"
      /\ token[j.token] = "live"
      /\ Become(r, [j EXCEPT !.at = "claimed"])
      /\ UNCHANGED <<userVars, familyVars, token, over, lock, guard>>

\* It was consumed before: the family is revoked, COMMIT.
Reuse(r) ==
  LET j == request[r]
  IN  /\ j.at = "locked"
      /\ account[j.user].state = "active"
      /\ token[j.token] = "revoked"
      /\ token' = Revoked({t \in Stored : t[1] = j.token[1]})
      /\ over' = over \cup {j.token[1]}
      /\ Release(r)
      /\ Become(r, Idle)
      /\ UNCHANGED <<userVars, familyVars, guard>>

\* The successor is inserted: COMMIT.
Rotate(r) ==
  LET j == request[r]
  IN  /\ j.at = "claimed"
      /\ \E n \in 1..MaxTokens :
           /\ token[<<j.token[1], n>>] = "unissued"
           /\ \A k \in 1..(n - 1) : token[<<j.token[1], k>>] # "unissued"
           /\ token' = [Revoked({j.token}) EXCEPT ![<<j.token[1], n>>] = "live"]
      /\ Release(r)
      /\ Become(r, Idle)
      /\ UNCHANGED <<userVars, familyVars, over, guard>>

-----------------------------------------------------------------------------
(* Logout: revokeAllUserTokens, or revokeTokenFamily for a reused cookie *)

\* The bearer token names the user, or verifyRefreshToken reads the cookie.
Logout(r, u) ==
  /\ request[r].at = "idle"
  /\ \E f \in {0} \cup {t[1] : t \in {t \in Stored : token[t] = "revoked" /\ owner[t[1]] = u}} :
       Become(r, [at |-> "revoke", user |-> u, family |-> f])
  /\ UNCHANGED <<userVars, familyVars, token, over, lock, guard>>

Scope(j) == {t \in Stored : owner[t[1]] = j.user /\ (j.family = 0 \/ t[1] = j.family)}

MutRevokeLocked(r) ==
  LET j == request[r]
  IN  /\ j.at \in {"revoke", "retry", "again"}
      /\ token' = Revoked(Scope(j) \ Claimed)
      /\ over' = over \cup {t[1] : t \in Scope(j)}
      /\ Become(r, Idle)
      /\ UNCHANGED <<userVars, familyVars, lock, guard>>

\* revokeLocked: the UPDATE under the users row's lock, COMMIT.
RevokeLocked(r) ==
  LET j == request[r]
  IN  /\ j.at \in {"revoke", "retry", "again"}
      /\ Free(j.user)
      /\ token' = Revoked(Scope(j))
      /\ over' = over \cup {t[1] : t \in Scope(j)}
      /\ Become(r, Idle)
      /\ UNCHANGED <<userVars, familyVars, lock, guard>>

\* A deadline, waiting for the lock or with it: rolled back, the UPDATE runs
\* without the lock, and takes its snapshot.
RevokeBusy(r) ==
  LET j == request[r]
  IN  /\ j.at = "revoke"
      /\ Become(r, [at |-> "blocked", user |-> j.user, family |-> j.family, rows |-> Scope(j)])
      /\ UNCHANGED <<userVars, familyVars, token, over, lock, guard>>

\* It waits for the row locks of a claim, and misses the claim's successor.
RevokeUnlocked(r) ==
  LET j == request[r]
  IN  /\ j.at = "blocked"
      /\ j.rows \cap Claimed = {}
      /\ token' = Revoked(j.rows \cap Stored)
      /\ Become(r, [at |-> "retry", user |-> j.user, family |-> j.family])
      /\ UNCHANGED <<userVars, familyVars, over, lock, guard>>

\* Its own deadline: rolled back, and tried once more under the lock.
UnlockedBusy(r) ==
  LET j == request[r]
  IN  /\ j.at = "blocked"
      /\ Become(r, [at |-> "again", user |-> j.user, family |-> j.family])
      /\ UNCHANGED <<userVars, familyVars, token, over, lock, guard>>

\* Any other error: at least the token of the presented cookie is revoked.
RevokeToken(r) ==
  LET j == request[r]
  IN  /\ j.at \in {"revoke", "blocked", "retry", "again"}
      /\ \E t \in Scope(j) \ Claimed : token' = Revoked({t})
      /\ Become(r, Idle)
      /\ UNCHANGED <<userVars, familyVars, over, lock, guard>>

-----------------------------------------------------------------------------
(* Changes of a user: updateUser with a role, deactivateUser, deleteUser *)

MutChangeLock(r, u) ==
  /\ request[r].at = "idle"
  /\ account[u].state # "deleted"
  /\ changes[u] < MaxChanges
  /\ \E w \in Changes : Become(r, [at |-> "change", user |-> u, what |-> w])
  /\ UNCHANGED <<userVars, familyVars, token, over, lock, guard>>

\* SELECT ... FOR UPDATE of the users row.
ChangeLock(r, u) ==
  /\ request[r].at = "idle"
  /\ Free(u)
  /\ account[u].state # "deleted"
  /\ changes[u] < MaxChanges
  /\ lock' = [lock EXCEPT ![u] = r]
  /\ \E w \in Changes : Become(r, [at |-> "change", user |-> u, what |-> w])
  /\ UNCHANGED <<userVars, familyVars, token, over, guard>>

\* Another active administrator besides the target.
OtherAdmin(u) ==
  \E v \in Users \ {u} : account[v].role = "admin" /\ account[v].state = "active"

MutGuardAdmin(r) ==
  LET j == request[r]
  IN  /\ j.at = "change"
      /\ account[j.user].role = "admin" => OtherAdmin(j.user)
      /\ Become(r, [j EXCEPT !.at = "decided"])
      /\ UNCHANGED <<userVars, familyVars, token, over, lock, guard>>

\* assertNotLastActiveAdminTx, for a target that is an administrator: the
\* advisory lock, held until the transaction ends, then the look.
GuardAdmin(r) ==
  LET j == request[r]
  IN  /\ j.at = "change"
      /\ account[j.user].role = "admin" => guard = "no" /\ OtherAdmin(j.user)
      /\ guard' = IF account[j.user].role = "admin" THEN r ELSE guard
      /\ Become(r, [j EXCEPT !.at = "decided"])
      /\ UNCHANGED <<userVars, familyVars, token, over, lock>>

Other(role) == IF role = "user" THEN "admin" ELSE "user"

Changed(a, w) ==
  CASE w = "deactivate" -> [a EXCEPT !.state = "deactivated"]
    [] w = "delete" -> [a EXCEPT !.state = "deleted"]
    [] w = "role" -> [a EXCEPT !.role = Other(@)]

MutChange(r) ==
  LET j == request[r]
      mine == {t \in Stored : owner[t[1]] = j.user}
  IN  /\ j.at = "decided"
      /\ account' = [account EXCEPT ![j.user] = Changed(@, j.what)]
      /\ changes' = [changes EXCEPT ![j.user] = @ + 1]
      /\ token' = IF j.what = "role" THEN token
                  ELSE [t \in Tokens |-> IF t \in mine THEN "deleted" ELSE token[t]]
      /\ over' = over \cup {t[1] : t \in mine}
      /\ Release(r)
      /\ guard' = IF guard = r THEN "no" ELSE guard
      /\ Become(r, Idle)
      /\ UNCHANGED familyVars

\* The users row and all of its refresh tokens in one COMMIT.
Change(r) ==
  LET j == request[r]
      mine == {t \in Stored : owner[t[1]] = j.user}
  IN  /\ j.at = "decided"
      /\ account' = [account EXCEPT ![j.user] = Changed(@, j.what)]
      /\ changes' = [changes EXCEPT ![j.user] = @ + 1]
      /\ token' = [t \in Tokens |-> IF t \in mine THEN "deleted" ELSE token[t]]
      /\ over' = over \cup {t[1] : t \in mine}
      /\ Release(r)
      /\ guard' = IF guard = r THEN "no" ELSE guard
      /\ Become(r, Idle)
      /\ UNCHANGED familyVars

\* reactivateUser: one UPDATE.
Reactivate(u) ==
  /\ Free(u)
  /\ account[u].state = "deactivated"
  /\ account' = [account EXCEPT ![u].state = "active"]
  /\ UNCHANGED <<changes, familyVars, token, over, lock, guard, request>>

-----------------------------------------------------------------------------

\* A refusal, an error, a deadline or a crash: ROLLBACK, which frees the locks.
\* A revocation that could run in no way ends here too.
GiveUp(r) ==
  /\ request[r].at # "idle"
  /\ Release(r)
  /\ guard' = IF guard = r THEN "no" ELSE guard
  /\ Become(r, Idle)
  /\ UNCHANGED <<userVars, familyVars, token, over>>

Next ==
  \/ \E r \in Requests :
       \/ \E u \in Users : Login(r, u) \/ Logout(r, u) \/ ChangeLock(r, u)
       \/ \E t \in Tokens : Present(r, t)
       \/ NewFamily(r)
       \/ RotateLock(r) \/ RotateDeactivated(r) \/ Claim(r) \/ Reuse(r) \/ Rotate(r)
       \/ RevokeLocked(r) \/ RevokeBusy(r) \/ RevokeUnlocked(r) \/ UnlockedBusy(r)
       \/ RevokeToken(r)
       \/ GuardAdmin(r) \/ Change(r)
       \/ GiveUp(r)
  \/ \E u \in Users : Reactivate(u)

Spec == Init /\ [][Next]_vars

-----------------------------------------------------------------------------

\* A session has one current token: however refreshes of it overlap, replay or
\* die half way, no family forks.
OneLive ==
  \A s, t \in Tokens : token[s] = "live" /\ token[t] = "live" /\ s[1] = t[1] => s = t

\* What was ended stays ended: no rotation in flight puts a live token into a
\* family after its logout, its reuse or its user's change committed.
EndedStaysEnded == \A t \in Tokens : t[1] \in over => token[t] # "live"

\* No session outlives the privileges it began with: none survives a change of
\* role, a deactivation or a deletion that its login did not see.
CurrentPrivilege ==
  \A t \in Tokens : token[t] = "live" => begun[t[1]] = changes[owner[t[1]]]

\* Administrators who remove each other at once leave one who is active.
LastAdmin == \E u \in Users : account[u].role = "admin" /\ account[u].state = "active"

=============================================================================
