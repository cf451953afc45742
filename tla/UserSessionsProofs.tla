------------------------ MODULE UserSessionsProofs ------------------------
(***************************************************************************)
(* The four promises of UserSessions for every number of users, requests,  *)
(* families and tokens.  The argument: whoever rotates or changes holds    *)
(* the users row (Held), and a token belongs to the user whose row is held *)
(* (Owned); so a claimed token is still live when its successor is         *)
(* inserted (ClaimedLive), whatever revoked meanwhile.  A family that has  *)
(* not begun has no token and no end (Unborn).  A decided change of an     *)
(* administrator holds the guard, and under it the other administrator it  *)
(* saw is still there (Guarded).                                           *)
(***************************************************************************)
EXTENDS UserSessions, TLAPS

Held ==
  \A r \in Requests :
    request[r].at \in {"locked", "claimed", "change", "decided"} => lock[request[r].user] = r

Owned ==
  \A r \in Requests :
    request[r].at \in {"refresh", "locked", "claimed"} =>
      owner[request[r].token[1]] = request[r].user

ClaimedLive ==
  \A r \in Requests : request[r].at = "claimed" => token[request[r].token] = "live"

Unborn ==
  \A f \in Families :
    owner[f] = "no" => f \notin over /\ \A n \in 1..MaxTokens : token[<<f, n>>] = "unissued"

\* A change under way was within the bound, and only it can use the room up.
Bounded ==
  \A r \in Requests :
    request[r].at \in {"change", "decided"} => changes[request[r].user] < MaxChanges

Guarded ==
  \A r \in Requests :
    request[r].at = "decided" /\ account[request[r].user].role = "admin" =>
      guard = r /\ OtherAdmin(request[r].user)

IInv ==
  /\ TypeOK /\ Held /\ Owned /\ ClaimedLive /\ Unborn /\ Bounded /\ Guarded
  /\ OneLive /\ EndedStaysEnded /\ LastAdmin

\* What the local state of a request holds at each point.
LEMMA Shape ==
  ASSUME TypeOK, NEW r \in Requests
  PROVE  /\ request[r].at \in {"idle", "login", "refresh", "locked", "claimed", "revoke",
                               "retry", "again", "blocked", "change", "decided"}
         /\ request[r].at # "idle" => request[r].user \in Users
         /\ request[r].at = "login" =>
              /\ request[r].seen \in 0..MaxChanges
              /\ request[r] =
                   [at |-> "login", user |-> request[r].user, seen |-> request[r].seen]
         /\ request[r].at \in {"refresh", "locked", "claimed"} =>
              /\ request[r].token \in Tokens
              /\ request[r] =
                   [at |-> request[r].at, user |-> request[r].user, token |-> request[r].token]
         /\ request[r].at \in {"revoke", "blocked", "retry", "again"} =>
              request[r].family \in 0..MaxLogins
         /\ request[r].at = "blocked" => request[r].rows \subseteq Tokens
         /\ request[r].at \in {"change", "decided"} =>
              /\ request[r].what \in Changes
              /\ request[r] =
                   [at |-> request[r].at, user |-> request[r].user, what |-> request[r].what]
  BY DEF TypeOK, Locals, Idle

\* A request that steps to a local state keeps the type of the requests.
LEMMA Becomes ==
  ASSUME TypeOK, NEW r \in Requests, NEW j \in Locals, Become(r, j)
  PROVE  request' \in [Requests -> Locals]
  BY DEF TypeOK, Become

\* Marking tokens revoked keeps the type of the table.
LEMMA Revoking ==
  ASSUME TypeOK, NEW T
  PROVE  Revoked(T) \in [Tokens -> TokenStates]
  BY DEF TypeOK, Revoked, TokenStates

\* Giving up locks keeps the type of the locks.
LEMMA Releasing ==
  ASSUME TypeOK, NEW r, Release(r)
  PROVE  lock' \in [Users -> Requests \cup {"no"}]
  BY DEF TypeOK, Release

\* One request moves at a time.
LEMMA Others ==
  ASSUME TypeOK, NEW r \in Requests, NEW j, Become(r, j)
  PROVE  request'[r] = j /\ \A q \in Requests : q # r => request'[q] = request[q]
  BY DEF TypeOK, Become

\* What a rotation does to the table: its token is consumed, and one that was
\* never issued takes its place in the family.
LEMMA Successor ==
  ASSUME TypeOK, NEW r \in Requests, Rotate(r)
  PROVE  \E s \in Tokens :
           /\ s[1] = request[r].token[1]
           /\ token[s] = "unissued"
           /\ \A t \in Tokens :
                token'[t] = IF t = s THEN "live"
                            ELSE IF t = request[r].token THEN "revoked" ELSE token[t]
<1>1. PICK n \in 1..MaxTokens :
        /\ token[<<request[r].token[1], n>>] = "unissued"
        /\ token' = [Revoked({request[r].token}) EXCEPT ![<<request[r].token[1], n>>] = "live"]
  BY DEF Rotate
<1>2. request[r].token \in Tokens
  BY Shape DEF Rotate
<1>3. <<request[r].token[1], n>> \in Tokens
  BY <1>2 DEF Tokens
<1>4. \A t \in Tokens :
        token'[t] = IF t = <<request[r].token[1], n>> THEN "live"
                    ELSE IF t = request[r].token THEN "revoked" ELSE token[t]
  BY <1>1, <1>3 DEF Revoked
<1> QED
  BY <1>1, <1>3, <1>4

\* Releasing frees exactly the rows the request held.
LEMMA LocksOf ==
  ASSUME TypeOK, NEW r \in Requests, Release(r), NEW u \in Users
  PROVE  lock'[u] = IF lock[u] = r THEN "no" ELSE lock[u]
  BY DEF Release

\* The invariant holds initially.
LEMMA InitInv == Init => IInv
<1> SUFFICES ASSUME Init PROVE IInv
  OBVIOUS
<1>1. TypeOK
  BY SessionsAssumption DEF Init, TypeOK, Accounts, TokenStates, Locals
<1>2. Held /\ Owned /\ ClaimedLive /\ Bounded /\ Guarded
  BY DEF Init, Held, Owned, ClaimedLive, Bounded, Guarded, Idle
<1>3. Unborn
  BY DEF Init, Unborn, Tokens
<1>4. OneLive /\ EndedStaysEnded /\ LastAdmin
  BY <1>1 DEF Init, OneLive, EndedStaysEnded, LastAdmin
<1> QED
  BY <1>1, <1>2, <1>3, <1>4 DEF IInv

\* Types; a change is only decided below its bound (Bounded).
LEMMA TypeStep == TypeOK /\ Unborn /\ Bounded /\ [Next]_vars => TypeOK'
<1> SUFFICES ASSUME TypeOK /\ Unborn /\ Bounded, [Next]_vars PROVE TypeOK'
  OBVIOUS
<1>1. ASSUME NEW r \in Requests, NEW u \in Users, Login(r, u) PROVE TypeOK'
  <2>1. request' \in [Requests -> Locals]
    BY <1>1, Becomes DEF Login, Locals, TypeOK
  <2>2. token' \in [Tokens -> TokenStates]
    BY <1>1 DEF Login, TypeOK
  <2> QED
    BY <1>1, <2>1, <2>2 DEF Login, TypeOK, userVars, familyVars
<1>2. ASSUME NEW r \in Requests, NewFamily(r) PROVE TypeOK'
  <2>1. request' \in [Requests -> Locals]
    BY <1>2, Becomes DEF NewFamily, Locals
  <2>2. token' \in [Tokens -> TokenStates]
    BY <1>2 DEF NewFamily, TypeOK, TokenStates
  <2>3. request[r].user \in Users /\ request[r].seen \in 0..MaxChanges
    BY <1>2, Shape DEF NewFamily
  <2> QED
    BY <1>2, <2>1, <2>2, <2>3 DEF NewFamily, TypeOK, userVars
<1>3. ASSUME NEW r \in Requests, NEW t \in Tokens, Present(r, t) PROVE TypeOK'
  <2>1. request' \in [Requests -> Locals]
    BY <1>3, Becomes DEF Present, Locals, TypeOK, Unborn, Tokens
  <2>2. token' \in [Tokens -> TokenStates]
    BY <1>3 DEF Present, TypeOK
  <2> QED
    BY <1>3, <2>1, <2>2 DEF Present, TypeOK, userVars, familyVars
<1>4. ASSUME NEW r \in Requests, RotateLock(r) PROVE TypeOK'
  <2>1. request' \in [Requests -> Locals]
    BY <1>4, Shape, Becomes DEF RotateLock, Locals, Idle
  <2>2. token' \in [Tokens -> TokenStates]
    BY <1>4 DEF RotateLock, TypeOK
  <2> QED
    BY <1>4, <2>1, <2>2 DEF RotateLock, TypeOK, userVars, familyVars
<1>5. ASSUME NEW r \in Requests, RotateDeactivated(r) PROVE TypeOK'
  <2>1. request' \in [Requests -> Locals]
    BY <1>5, Becomes DEF RotateDeactivated, Locals
  <2>2. token' \in [Tokens -> TokenStates]
    BY <1>5, Revoking DEF RotateDeactivated
  <2> QED
    BY <1>5, <2>1, <2>2, Releasing DEF RotateDeactivated, TypeOK, userVars, familyVars
<1>6. ASSUME NEW r \in Requests, Claim(r) PROVE TypeOK'
  <2>1. request' \in [Requests -> Locals]
    BY <1>6, Shape, Becomes DEF Claim, Locals, Idle
  <2>2. token' \in [Tokens -> TokenStates]
    BY <1>6 DEF Claim, TypeOK
  <2> QED
    BY <1>6, <2>1, <2>2 DEF Claim, TypeOK, userVars, familyVars
<1>7. ASSUME NEW r \in Requests, Reuse(r) PROVE TypeOK'
  <2>1. request' \in [Requests -> Locals]
    BY <1>7, Becomes DEF Reuse, Locals
  <2>2. token' \in [Tokens -> TokenStates]
    BY <1>7, Revoking DEF Reuse
  <2>3. over' \subseteq Families
    BY <1>7, Shape DEF Reuse, TypeOK, Tokens
  <2> QED
    BY <1>7, <2>1, <2>2, <2>3, Releasing DEF Reuse, TypeOK, userVars, familyVars
<1>8. ASSUME NEW r \in Requests, Rotate(r) PROVE TypeOK'
  <2>1. request' \in [Requests -> Locals]
    BY <1>8, Becomes DEF Rotate, Locals
  <2>2. token' \in [Tokens -> TokenStates]
    <3>1. PICK m \in 1..MaxTokens :
            token' = [Revoked({request[r].token}) EXCEPT ![<<request[r].token[1], m>>] = "live"]
      BY <1>8 DEF Rotate
    <3> QED
      BY <3>1, Revoking DEF TokenStates
  <2> QED
    BY <1>8, <2>1, <2>2, Releasing DEF Rotate, TypeOK, userVars, familyVars
<1>9. ASSUME NEW r \in Requests, NEW u \in Users, Logout(r, u) PROVE TypeOK'
  <2>1. \A h \in {0} \cup {t[1] : t \in Tokens} :
          [at |-> "revoke", user |-> u, family |-> h] \in Locals
    BY SessionsAssumption DEF Locals, Tokens, Families
  <2>2. request' \in [Requests -> Locals]
    BY <1>9, <2>1, Becomes DEF Logout, Stored
  <2> QED
    BY <1>9, <2>2 DEF Logout, TypeOK, userVars, familyVars
<1>10. ASSUME NEW r \in Requests, RevokeLocked(r) PROVE TypeOK'
  <2>1. request' \in [Requests -> Locals]
    BY <1>10, Becomes DEF RevokeLocked, Locals
  <2>2. token' \in [Tokens -> TokenStates]
    BY <1>10, Revoking DEF RevokeLocked
  <2>3. over' \subseteq Families
    BY <1>10 DEF RevokeLocked, TypeOK, Stored, Scope, Tokens, Families
  <2> QED
    BY <1>10, <2>1, <2>2, <2>3 DEF RevokeLocked, TypeOK, userVars, familyVars
<1>11. ASSUME NEW r \in Requests, RevokeBusy(r) PROVE TypeOK'
  <2>1. request' \in [Requests -> Locals]
    BY <1>11, Shape, Becomes DEF RevokeBusy, Locals, Idle, Scope, Stored
  <2>2. token' \in [Tokens -> TokenStates]
    BY <1>11 DEF RevokeBusy, TypeOK
  <2> QED
    BY <1>11, <2>1, <2>2 DEF RevokeBusy, TypeOK, userVars, familyVars
<1>12. ASSUME NEW r \in Requests, RevokeUnlocked(r) PROVE TypeOK'
  <2>1. request' \in [Requests -> Locals]
    BY <1>12, Shape, Becomes DEF RevokeUnlocked, Locals, Idle
  <2>2. token' \in [Tokens -> TokenStates]
    BY <1>12, Revoking DEF RevokeUnlocked
  <2> QED
    BY <1>12, <2>1, <2>2 DEF RevokeUnlocked, TypeOK, userVars, familyVars
<1>13. ASSUME NEW r \in Requests, UnlockedBusy(r) PROVE TypeOK'
  <2>1. request' \in [Requests -> Locals]
    BY <1>13, Shape, Becomes DEF UnlockedBusy, Locals, Idle
  <2>2. token' \in [Tokens -> TokenStates]
    BY <1>13 DEF UnlockedBusy, TypeOK
  <2> QED
    BY <1>13, <2>1, <2>2 DEF UnlockedBusy, TypeOK, userVars, familyVars
<1>14. ASSUME NEW r \in Requests, RevokeToken(r) PROVE TypeOK'
  <2>1. request' \in [Requests -> Locals]
    BY <1>14, Becomes DEF RevokeToken, Locals
  <2>2. token' \in [Tokens -> TokenStates]
    BY <1>14, Revoking DEF RevokeToken
  <2> QED
    BY <1>14, <2>1, <2>2 DEF RevokeToken, TypeOK, userVars, familyVars
<1>15. ASSUME NEW r \in Requests, NEW u \in Users, ChangeLock(r, u) PROVE TypeOK'
  <2>1. request' \in [Requests -> Locals]
    BY <1>15, Becomes DEF ChangeLock, Locals
  <2>2. token' \in [Tokens -> TokenStates]
    BY <1>15 DEF ChangeLock, TypeOK
  <2> QED
    BY <1>15, <2>1, <2>2 DEF ChangeLock, TypeOK, userVars, familyVars
<1>16. ASSUME NEW r \in Requests, GuardAdmin(r) PROVE TypeOK'
  <2>1. request' \in [Requests -> Locals]
    BY <1>16, Shape, Becomes DEF GuardAdmin, Locals, Idle
  <2>2. token' \in [Tokens -> TokenStates]
    BY <1>16 DEF GuardAdmin, TypeOK
  <2> QED
    BY <1>16, <2>1, <2>2 DEF GuardAdmin, TypeOK, userVars, familyVars
<1>17. ASSUME NEW r \in Requests, Change(r) PROVE TypeOK'
  <2>1. request' \in [Requests -> Locals]
    BY <1>17, Becomes DEF Change, Locals
  <2>2. token' \in [Tokens -> TokenStates]
    BY <1>17 DEF Change, TypeOK, TokenStates
  <2>3. account' \in [Users -> Accounts]
    <3>1. Changed(account[request[r].user], request[r].what) \in Accounts
      BY <1>17, Shape DEF Change, TypeOK, Accounts, Changed, Other, Roles, Changes
    <3> QED
      BY <1>17, <3>1 DEF Change, TypeOK
  <2>4. changes' \in [Users -> 0..MaxChanges]
    <3>1. request[r].user \in Users /\ changes[request[r].user] < MaxChanges
      BY <1>17, Shape DEF Change, Bounded
    <3> QED
      BY <1>17, <3>1, SessionsAssumption DEF Change, TypeOK
  <2>5. over' \subseteq Families
    BY <1>17 DEF Change, TypeOK, Stored, Tokens, Families
  <2> QED
    BY <1>17, <2>1, <2>2, <2>3, <2>4, <2>5, Releasing DEF Change, TypeOK, familyVars
<1>18. ASSUME NEW u \in Users, Reactivate(u) PROVE TypeOK'
  BY <1>18 DEF TypeOK, Reactivate, Accounts, familyVars
<1>19. ASSUME NEW r \in Requests, GiveUp(r) PROVE TypeOK'
  <2>1. request' \in [Requests -> Locals]
    BY <1>19, Becomes DEF GiveUp, Locals
  <2>2. token' \in [Tokens -> TokenStates]
    BY <1>19 DEF GiveUp, TypeOK
  <2> QED
    BY <1>19, <2>1, <2>2, Releasing DEF GiveUp, TypeOK, userVars, familyVars
<1>20. CASE UNCHANGED vars
  BY <1>20 DEF TypeOK, vars
<1> QED
  BY <1>1, <1>2, <1>3, <1>4, <1>5, <1>6, <1>7, <1>8, <1>9, <1>10, <1>11, <1>12, <1>13,
     <1>14, <1>15, <1>16, <1>17, <1>18, <1>19, <1>20
     DEF Next

\* Who is inside a transaction on a users row holds that row.
LEMMA HeldStep == TypeOK /\ Held /\ [Next]_vars => Held'
<1> SUFFICES ASSUME TypeOK /\ Held, [Next]_vars PROVE Held'
  OBVIOUS
<1>1. ASSUME NEW r \in Requests, NEW u \in Users, Login(r, u) PROVE Held'
  BY <1>1, Others, LocksOf, SessionsAssumption DEF Held, Login
<1>2. ASSUME NEW r \in Requests, NewFamily(r) PROVE Held'
  BY <1>2, Others, LocksOf, SessionsAssumption DEF Held, NewFamily, Idle
<1>3. ASSUME NEW r \in Requests, NEW t \in Tokens, Present(r, t) PROVE Held'
  BY <1>3, Others, LocksOf, SessionsAssumption DEF Held, Present
<1>4. ASSUME NEW r \in Requests, RotateLock(r) PROVE Held'
  BY <1>4, Shape, Others, LocksOf, SessionsAssumption DEF Held, RotateLock, TypeOK, Free
<1>5. ASSUME NEW r \in Requests, RotateDeactivated(r) PROVE Held'
  BY <1>5, Shape, Others, LocksOf, SessionsAssumption
     DEF Held, RotateDeactivated, TypeOK, Idle
<1>6. ASSUME NEW r \in Requests, Claim(r) PROVE Held'
  BY <1>6, Shape, Others, LocksOf, SessionsAssumption DEF Held, Claim, TypeOK
<1>7. ASSUME NEW r \in Requests, Reuse(r) PROVE Held'
  BY <1>7, Shape, Others, LocksOf, SessionsAssumption DEF Held, Reuse, TypeOK, Idle
<1>8. ASSUME NEW r \in Requests, Rotate(r) PROVE Held'
  BY <1>8, Shape, Others, LocksOf, SessionsAssumption DEF Held, Rotate, TypeOK, Idle
<1>9. ASSUME NEW r \in Requests, NEW u \in Users, Logout(r, u) PROVE Held'
  BY <1>9, Others, LocksOf, SessionsAssumption DEF Held, Logout
<1>10. ASSUME NEW r \in Requests, RevokeLocked(r) PROVE Held'
  BY <1>10, Others, LocksOf, SessionsAssumption DEF Held, RevokeLocked, Idle
<1>11. ASSUME NEW r \in Requests, RevokeBusy(r) PROVE Held'
  BY <1>11, Others, LocksOf, SessionsAssumption DEF Held, RevokeBusy
<1>12. ASSUME NEW r \in Requests, RevokeUnlocked(r) PROVE Held'
  BY <1>12, Others, LocksOf, SessionsAssumption DEF Held, RevokeUnlocked
<1>13. ASSUME NEW r \in Requests, UnlockedBusy(r) PROVE Held'
  BY <1>13, Others, LocksOf, SessionsAssumption DEF Held, UnlockedBusy
<1>14. ASSUME NEW r \in Requests, RevokeToken(r) PROVE Held'
  BY <1>14, Others, LocksOf, SessionsAssumption DEF Held, RevokeToken, Idle
<1>15. ASSUME NEW r \in Requests, NEW u \in Users, ChangeLock(r, u) PROVE Held'
  BY <1>15, Others, LocksOf, SessionsAssumption DEF Held, ChangeLock, TypeOK, Free
<1>16. ASSUME NEW r \in Requests, GuardAdmin(r) PROVE Held'
  BY <1>16, Shape, Others, LocksOf, SessionsAssumption DEF Held, GuardAdmin, TypeOK
<1>17. ASSUME NEW r \in Requests, Change(r) PROVE Held'
  BY <1>17, Shape, Others, LocksOf, SessionsAssumption DEF Held, Change, TypeOK, Idle
<1>18. ASSUME NEW u \in Users, Reactivate(u) PROVE Held'
  BY <1>18 DEF Held, Reactivate
<1>19. ASSUME NEW r \in Requests, GiveUp(r) PROVE Held'
  BY <1>19, Shape, Others, LocksOf, SessionsAssumption DEF Held, GiveUp, TypeOK, Idle
<1>20. CASE UNCHANGED vars
  BY <1>20 DEF Held, vars
<1> QED
  BY <1>1, <1>2, <1>3, <1>4, <1>5, <1>6, <1>7, <1>8, <1>9, <1>10, <1>11, <1>12, <1>13,
     <1>14, <1>15, <1>16, <1>17, <1>18, <1>19, <1>20
     DEF Next

\* A refresh or a claim works on a token of its own user.
LEMMA OwnedStep == TypeOK /\ Owned /\ Unborn /\ [Next]_vars => Owned'
<1> SUFFICES ASSUME TypeOK /\ Owned /\ Unborn, [Next]_vars PROVE Owned'
  OBVIOUS
<1>1. ASSUME NEW r \in Requests, NEW u \in Users, Login(r, u) PROVE Owned'
  BY <1>1, Others, LocksOf, SessionsAssumption DEF Owned, Login, familyVars
<1>2. ASSUME NEW r \in Requests, NewFamily(r) PROVE Owned'
  <2>1. PICK f \in Families : owner[f] = "no" /\ owner' = [owner EXCEPT ![f] = request[r].user]
    BY <1>2 DEF NewFamily
  <2>2. ASSUME NEW q \in Requests, request'[q].at \in {"refresh", "locked", "claimed"}
        PROVE  owner'[request'[q].token[1]] = request'[q].user
    <3>1. q # r /\ request'[q] = request[q]
      BY <1>2, <2>2, Others DEF NewFamily, Idle
    <3>2. request[q].token[1] # f
      BY <2>1, <2>2, <3>1, Shape, SessionsAssumption DEF Owned
    <3> QED
      BY <2>1, <2>2, <3>1, <3>2 DEF Owned
  <2> QED
    BY <2>2 DEF Owned
<1>3. ASSUME NEW r \in Requests, NEW t \in Tokens, Present(r, t) PROVE Owned'
  BY <1>3, Others, LocksOf, SessionsAssumption DEF Owned, Present, familyVars
<1>4. ASSUME NEW r \in Requests, RotateLock(r) PROVE Owned'
  BY <1>4, Shape, Others, LocksOf, SessionsAssumption
     DEF Owned, RotateLock, TypeOK, familyVars
<1>5. ASSUME NEW r \in Requests, RotateDeactivated(r) PROVE Owned'
  BY <1>5, Others, LocksOf, SessionsAssumption
     DEF Owned, RotateDeactivated, Idle, familyVars
<1>6. ASSUME NEW r \in Requests, Claim(r) PROVE Owned'
  BY <1>6, Shape, Others, LocksOf, SessionsAssumption DEF Owned, Claim, TypeOK, familyVars
<1>7. ASSUME NEW r \in Requests, Reuse(r) PROVE Owned'
  BY <1>7, Others DEF Owned, Reuse, Idle, familyVars
<1>8. ASSUME NEW r \in Requests, Rotate(r) PROVE Owned'
  BY <1>8, Others, LocksOf, SessionsAssumption DEF Owned, Rotate, Idle, familyVars
<1>9. ASSUME NEW r \in Requests, NEW u \in Users, Logout(r, u) PROVE Owned'
  BY <1>9, Others, LocksOf, SessionsAssumption DEF Owned, Logout, familyVars
<1>10. ASSUME NEW r \in Requests, RevokeLocked(r) PROVE Owned'
  BY <1>10, Others, LocksOf, SessionsAssumption DEF Owned, RevokeLocked, Idle, familyVars
<1>11. ASSUME NEW r \in Requests, RevokeBusy(r) PROVE Owned'
  BY <1>11, Others, LocksOf, SessionsAssumption DEF Owned, RevokeBusy, familyVars
<1>12. ASSUME NEW r \in Requests, RevokeUnlocked(r) PROVE Owned'
  BY <1>12, Others, LocksOf, SessionsAssumption DEF Owned, RevokeUnlocked, familyVars
<1>13. ASSUME NEW r \in Requests, UnlockedBusy(r) PROVE Owned'
  BY <1>13, Others, LocksOf, SessionsAssumption DEF Owned, UnlockedBusy, familyVars
<1>14. ASSUME NEW r \in Requests, RevokeToken(r) PROVE Owned'
  BY <1>14, Others, LocksOf, SessionsAssumption DEF Owned, RevokeToken, Idle, familyVars
<1>15. ASSUME NEW r \in Requests, NEW u \in Users, ChangeLock(r, u) PROVE Owned'
  BY <1>15, Others, LocksOf, SessionsAssumption DEF Owned, ChangeLock, familyVars
<1>16. ASSUME NEW r \in Requests, GuardAdmin(r) PROVE Owned'
  BY <1>16, Shape, Others, LocksOf, SessionsAssumption
     DEF Owned, GuardAdmin, TypeOK, familyVars
<1>17. ASSUME NEW r \in Requests, Change(r) PROVE Owned'
  BY <1>17, Others, LocksOf, SessionsAssumption DEF Owned, Change, Idle, familyVars
<1>18. ASSUME NEW u \in Users, Reactivate(u) PROVE Owned'
  BY <1>18 DEF Owned, Reactivate, familyVars
<1>19. ASSUME NEW r \in Requests, GiveUp(r) PROVE Owned'
  BY <1>19, Others, LocksOf, SessionsAssumption DEF Owned, GiveUp, Idle, familyVars
<1>20. CASE UNCHANGED vars
  BY <1>20 DEF Owned, vars
<1> QED
  BY <1>1, <1>2, <1>3, <1>4, <1>5, <1>6, <1>7, <1>8, <1>9, <1>10, <1>11, <1>12, <1>13,
     <1>14, <1>15, <1>16, <1>17, <1>18, <1>19, <1>20
     DEF Next

\* Only the holder of a users row counts up its changes.
LEMMA BoundedStep == TypeOK /\ Held /\ Bounded /\ [Next]_vars => Bounded'
<1> SUFFICES ASSUME TypeOK /\ Held /\ Bounded, [Next]_vars PROVE Bounded'
  OBVIOUS
<1>1. ASSUME NEW r \in Requests, NEW u \in Users, Login(r, u) PROVE Bounded'
  BY <1>1, Others, LocksOf, SessionsAssumption DEF Bounded, Login, userVars
<1>2. ASSUME NEW r \in Requests, NewFamily(r) PROVE Bounded'
  BY <1>2, Others, LocksOf, SessionsAssumption DEF Bounded, NewFamily, Idle, userVars
<1>3. ASSUME NEW r \in Requests, NEW t \in Tokens, Present(r, t) PROVE Bounded'
  BY <1>3, Others, LocksOf, SessionsAssumption DEF Bounded, Present, userVars
<1>4. ASSUME NEW r \in Requests, RotateLock(r) PROVE Bounded'
  BY <1>4, Shape, Others, LocksOf, SessionsAssumption
     DEF Bounded, RotateLock, TypeOK, userVars
<1>5. ASSUME NEW r \in Requests, RotateDeactivated(r) PROVE Bounded'
  BY <1>5, Others, LocksOf, SessionsAssumption
     DEF Bounded, RotateDeactivated, Idle, userVars
<1>6. ASSUME NEW r \in Requests, Claim(r) PROVE Bounded'
  BY <1>6, Shape, Others, LocksOf, SessionsAssumption DEF Bounded, Claim, TypeOK, userVars
<1>7. ASSUME NEW r \in Requests, Reuse(r) PROVE Bounded'
  BY <1>7, Others, LocksOf, SessionsAssumption DEF Bounded, Reuse, Idle, userVars
<1>8. ASSUME NEW r \in Requests, Rotate(r) PROVE Bounded'
  BY <1>8, Others, LocksOf, SessionsAssumption DEF Bounded, Rotate, Idle, userVars
<1>9. ASSUME NEW r \in Requests, NEW u \in Users, Logout(r, u) PROVE Bounded'
  BY <1>9, Others, LocksOf, SessionsAssumption DEF Bounded, Logout, userVars
<1>10. ASSUME NEW r \in Requests, RevokeLocked(r) PROVE Bounded'
  BY <1>10, Others, LocksOf, SessionsAssumption DEF Bounded, RevokeLocked, Idle, userVars
<1>11. ASSUME NEW r \in Requests, RevokeBusy(r) PROVE Bounded'
  BY <1>11, Others, LocksOf, SessionsAssumption DEF Bounded, RevokeBusy, userVars
<1>12. ASSUME NEW r \in Requests, RevokeUnlocked(r) PROVE Bounded'
  BY <1>12, Others, LocksOf, SessionsAssumption DEF Bounded, RevokeUnlocked, userVars
<1>13. ASSUME NEW r \in Requests, UnlockedBusy(r) PROVE Bounded'
  BY <1>13, Others, LocksOf, SessionsAssumption DEF Bounded, UnlockedBusy, userVars
<1>14. ASSUME NEW r \in Requests, RevokeToken(r) PROVE Bounded'
  BY <1>14, Others, LocksOf, SessionsAssumption DEF Bounded, RevokeToken, Idle, userVars
<1>15. ASSUME NEW r \in Requests, NEW u \in Users, ChangeLock(r, u) PROVE Bounded'
  BY <1>15, Others, LocksOf, SessionsAssumption DEF Bounded, ChangeLock, userVars
<1>16. ASSUME NEW r \in Requests, GuardAdmin(r) PROVE Bounded'
  BY <1>16, Shape, Others, LocksOf, SessionsAssumption
     DEF Bounded, GuardAdmin, TypeOK, userVars
<1>17. ASSUME NEW r \in Requests, Change(r) PROVE Bounded'
  BY <1>17, Others, LocksOf, SessionsAssumption DEF Bounded, Held, Change, Idle
<1>18. ASSUME NEW u \in Users, Reactivate(u) PROVE Bounded'
  BY <1>18 DEF Bounded, Reactivate
<1>19. ASSUME NEW r \in Requests, GiveUp(r) PROVE Bounded'
  BY <1>19, Others, LocksOf, SessionsAssumption DEF Bounded, GiveUp, Idle, userVars
<1>20. CASE UNCHANGED vars
  BY <1>20 DEF Bounded, vars
<1> QED
  BY <1>1, <1>2, <1>3, <1>4, <1>5, <1>6, <1>7, <1>8, <1>9, <1>10, <1>11, <1>12, <1>13,
     <1>14, <1>15, <1>16, <1>17, <1>18, <1>19, <1>20
     DEF Next

\* Nothing is issued in a family nobody has begun.
LEMMA UnbornStep == TypeOK /\ Unborn /\ Owned /\ [Next]_vars => Unborn'
<1> SUFFICES ASSUME TypeOK /\ Unborn /\ Owned, [Next]_vars PROVE Unborn'
  OBVIOUS
<1>1. ASSUME NEW r \in Requests, NEW u \in Users, Login(r, u) PROVE Unborn'
  BY <1>1 DEF Unborn, Login, familyVars
<1>2. ASSUME NEW r \in Requests, NewFamily(r) PROVE Unborn'
  BY <1>2, Shape, Others, LocksOf, SessionsAssumption DEF Unborn, NewFamily, TypeOK
<1>3. ASSUME NEW r \in Requests, NEW t \in Tokens, Present(r, t) PROVE Unborn'
  BY <1>3 DEF Unborn, Present, familyVars
<1>4. ASSUME NEW r \in Requests, RotateLock(r) PROVE Unborn'
  BY <1>4 DEF Unborn, RotateLock, familyVars
<1>5. ASSUME NEW r \in Requests, RotateDeactivated(r) PROVE Unborn'
  BY <1>5 DEF Unborn, Tokens, Revoked, Stored, RotateDeactivated, familyVars
<1>6. ASSUME NEW r \in Requests, Claim(r) PROVE Unborn'
  BY <1>6 DEF Unborn, Claim, familyVars
<1>7. ASSUME NEW r \in Requests, Reuse(r) PROVE Unborn'
  <2>1. /\ request[r].token \in Tokens /\ request[r].user \in Users
        /\ owner[request[r].token[1]] = request[r].user
    BY <1>7, Shape DEF Reuse, Owned
  <2>2. owner[request[r].token[1]] # "no"
    BY <2>1, SessionsAssumption
  <2>3. /\ owner' = owner /\ over' = over \cup {request[r].token[1]}
        /\ \A t \in Tokens : token[t] = "unissued" => token'[t] = "unissued"
    BY <1>7 DEF Reuse, Revoked, Stored, familyVars
  <2>4. \A f \in Families, n \in 1..MaxTokens : <<f, n>> \in Tokens
    BY DEF Tokens
  <2> QED
    BY <2>2, <2>3, <2>4 DEF Unborn
<1>8. ASSUME NEW r \in Requests, Rotate(r) PROVE Unborn'
  <2>1. request[r].token \in Tokens /\ owner[request[r].token[1]] # "no"
    <3>1. request[r].at = "claimed"
      BY <1>8 DEF Rotate
    <3>2. request[r].token \in Tokens /\ request[r].user \in Users
      BY <3>1, Shape
    <3> QED
      BY <3>1, <3>2, SessionsAssumption DEF Owned
  <2>2. PICK s \in Tokens :
          /\ s[1] = request[r].token[1]
          /\ \A t \in Tokens :
               token'[t] = IF t = s THEN "live"
                           ELSE IF t = request[r].token THEN "revoked" ELSE token[t]
    BY <1>8, Successor
  <2>3. \A t \in Tokens : owner[t[1]] = "no" => token'[t] = token[t]
    BY <2>1, <2>2
  <2>4. \A f \in Families, n \in 1..MaxTokens : <<f, n>> \in Tokens /\ <<f, n>>[1] = f
    BY DEF Tokens
  <2> QED
    BY <1>8, <2>3, <2>4 DEF Rotate, Unborn, familyVars
<1>9. ASSUME NEW r \in Requests, NEW u \in Users, Logout(r, u) PROVE Unborn'
  BY <1>9 DEF Unborn, Logout, familyVars
<1>10. ASSUME NEW r \in Requests, RevokeLocked(r) PROVE Unborn'
  BY <1>10 DEF Unborn, Tokens, Revoked, Stored, Scope, RevokeLocked, familyVars
<1>11. ASSUME NEW r \in Requests, RevokeBusy(r) PROVE Unborn'
  BY <1>11 DEF Unborn, RevokeBusy, familyVars
<1>12. ASSUME NEW r \in Requests, RevokeUnlocked(r) PROVE Unborn'
  BY <1>12 DEF Unborn, Tokens, Revoked, Stored, RevokeUnlocked, familyVars
<1>13. ASSUME NEW r \in Requests, UnlockedBusy(r) PROVE Unborn'
  BY <1>13 DEF Unborn, UnlockedBusy, familyVars
<1>14. ASSUME NEW r \in Requests, RevokeToken(r) PROVE Unborn'
  BY <1>14 DEF Unborn, Tokens, Revoked, Stored, Scope, RevokeToken, familyVars
<1>15. ASSUME NEW r \in Requests, NEW u \in Users, ChangeLock(r, u) PROVE Unborn'
  BY <1>15 DEF Unborn, ChangeLock, familyVars
<1>16. ASSUME NEW r \in Requests, GuardAdmin(r) PROVE Unborn'
  BY <1>16 DEF Unborn, GuardAdmin, familyVars
<1>17. ASSUME NEW r \in Requests, Change(r) PROVE Unborn'
  BY <1>17 DEF Unborn, Tokens, Stored, Change, familyVars
<1>18. ASSUME NEW u \in Users, Reactivate(u) PROVE Unborn'
  BY <1>18 DEF Unborn, Reactivate, familyVars
<1>19. ASSUME NEW r \in Requests, GiveUp(r) PROVE Unborn'
  BY <1>19 DEF Unborn, GiveUp, familyVars
<1>20. CASE UNCHANGED vars
  BY <1>20 DEF Unborn, vars
<1> QED
  BY <1>1, <1>2, <1>3, <1>4, <1>5, <1>6, <1>7, <1>8, <1>9, <1>10, <1>11, <1>12, <1>13,
     <1>14, <1>15, <1>16, <1>17, <1>18, <1>19, <1>20
     DEF Next

\* A token that was claimed stays live until its rotation commits: whatever
\* would revoke it waits for the users row or for the claim.
LEMMA ClaimedStep ==
  TypeOK /\ Held /\ Owned /\ Unborn /\ ClaimedLive /\ [Next]_vars => ClaimedLive'
<1> SUFFICES ASSUME TypeOK /\ Held /\ Owned /\ Unborn /\ ClaimedLive, [Next]_vars
             PROVE  ClaimedLive'
  OBVIOUS
<1>1. ASSUME NEW r \in Requests, NEW u \in Users, Login(r, u) PROVE ClaimedLive'
  BY <1>1, Others, LocksOf, SessionsAssumption DEF ClaimedLive, Login
<1>2. ASSUME NEW r \in Requests, NewFamily(r) PROVE ClaimedLive'
  BY <1>2, Others, LocksOf, SessionsAssumption DEF ClaimedLive, NewFamily, Idle
<1>3. ASSUME NEW r \in Requests, NEW t \in Tokens, Present(r, t) PROVE ClaimedLive'
  BY <1>3, Others, LocksOf, SessionsAssumption DEF ClaimedLive, Present
<1>4. ASSUME NEW r \in Requests, RotateLock(r) PROVE ClaimedLive'
  BY <1>4, Shape, Others, LocksOf, SessionsAssumption DEF ClaimedLive, RotateLock, TypeOK
<1>5. ASSUME NEW r \in Requests, RotateDeactivated(r) PROVE ClaimedLive'
  BY <1>5, Shape, Others, LocksOf, SessionsAssumption
     DEF Held, Owned, ClaimedLive, Revoked, RotateDeactivated, TypeOK, Idle
<1>6. ASSUME NEW r \in Requests, Claim(r) PROVE ClaimedLive'
  BY <1>6, Shape, Others, LocksOf, SessionsAssumption DEF ClaimedLive, Claim, TypeOK
<1>7. ASSUME NEW r \in Requests, Reuse(r) PROVE ClaimedLive'
  BY <1>7, Shape, Others, LocksOf, SessionsAssumption
     DEF Held, Owned, ClaimedLive, Revoked, Reuse, TypeOK, Idle
<1>8. ASSUME NEW r \in Requests, Rotate(r) PROVE ClaimedLive'
  BY <1>8, Shape, Others, LocksOf, SessionsAssumption
     DEF Held, Owned, ClaimedLive, Revoked, Rotate, TypeOK, Idle
<1>9. ASSUME NEW r \in Requests, NEW u \in Users, Logout(r, u) PROVE ClaimedLive'
  BY <1>9, Others, LocksOf, SessionsAssumption DEF ClaimedLive, Logout
<1>10. ASSUME NEW r \in Requests, RevokeLocked(r) PROVE ClaimedLive'
  BY <1>10, Shape, Others, LocksOf, SessionsAssumption
     DEF Held, Owned, ClaimedLive, Revoked, Scope, RevokeLocked, TypeOK, Idle, Free
<1>11. ASSUME NEW r \in Requests, RevokeBusy(r) PROVE ClaimedLive'
  BY <1>11, Others, LocksOf, SessionsAssumption DEF ClaimedLive, RevokeBusy
<1>12. ASSUME NEW r \in Requests, RevokeUnlocked(r) PROVE ClaimedLive'
  BY <1>12, Shape, Others, LocksOf, SessionsAssumption
     DEF ClaimedLive, Revoked, Claimed, RevokeUnlocked, TypeOK
<1>13. ASSUME NEW r \in Requests, UnlockedBusy(r) PROVE ClaimedLive'
  BY <1>13, Others, LocksOf, SessionsAssumption DEF ClaimedLive, UnlockedBusy
<1>14. ASSUME NEW r \in Requests, RevokeToken(r) PROVE ClaimedLive'
  BY <1>14, Shape, Others, LocksOf, SessionsAssumption
     DEF ClaimedLive, Revoked, Claimed, RevokeToken, TypeOK, Idle
<1>15. ASSUME NEW r \in Requests, NEW u \in Users, ChangeLock(r, u) PROVE ClaimedLive'
  BY <1>15, Others, LocksOf, SessionsAssumption DEF ClaimedLive, ChangeLock
<1>16. ASSUME NEW r \in Requests, GuardAdmin(r) PROVE ClaimedLive'
  BY <1>16, Shape, Others, LocksOf, SessionsAssumption DEF ClaimedLive, GuardAdmin, TypeOK
<1>17. ASSUME NEW r \in Requests, Change(r) PROVE ClaimedLive'
  BY <1>17, Shape, Others, LocksOf, SessionsAssumption
     DEF Held, Owned, ClaimedLive, Change, TypeOK, Idle
<1>18. ASSUME NEW u \in Users, Reactivate(u) PROVE ClaimedLive'
  BY <1>18 DEF ClaimedLive, Reactivate
<1>19. ASSUME NEW r \in Requests, GiveUp(r) PROVE ClaimedLive'
  BY <1>19, Others, LocksOf, SessionsAssumption DEF ClaimedLive, GiveUp, Idle
<1>20. CASE UNCHANGED vars
  BY <1>20 DEF ClaimedLive, vars
<1> QED
  BY <1>1, <1>2, <1>3, <1>4, <1>5, <1>6, <1>7, <1>8, <1>9, <1>10, <1>11, <1>12, <1>13,
     <1>14, <1>15, <1>16, <1>17, <1>18, <1>19, <1>20
     DEF Next

\* A decided removal of an administrator still has another one: it holds the
\* advisory lock, and nobody else can have decided meanwhile.
LEMMA GuardedStep == TypeOK /\ Held /\ Guarded /\ [Next]_vars => Guarded'
<1> SUFFICES ASSUME TypeOK /\ Held /\ Guarded, [Next]_vars PROVE Guarded'
  OBVIOUS
<1>1. ASSUME NEW r \in Requests, NEW u \in Users, Login(r, u) PROVE Guarded'
  BY <1>1, Others, LocksOf, SessionsAssumption DEF Guarded, OtherAdmin, Login, userVars
<1>2. ASSUME NEW r \in Requests, NewFamily(r) PROVE Guarded'
  BY <1>2, Others, LocksOf, SessionsAssumption
     DEF Guarded, OtherAdmin, NewFamily, Idle, userVars
<1>3. ASSUME NEW r \in Requests, NEW t \in Tokens, Present(r, t) PROVE Guarded'
  BY <1>3, Others, LocksOf, SessionsAssumption DEF Guarded, OtherAdmin, Present, userVars
<1>4. ASSUME NEW r \in Requests, RotateLock(r) PROVE Guarded'
  BY <1>4, Shape, Others, LocksOf, SessionsAssumption
     DEF Guarded, OtherAdmin, RotateLock, TypeOK, userVars
<1>5. ASSUME NEW r \in Requests, RotateDeactivated(r) PROVE Guarded'
  BY <1>5, Others, LocksOf, SessionsAssumption
     DEF Guarded, OtherAdmin, RotateDeactivated, Idle, userVars
<1>6. ASSUME NEW r \in Requests, Claim(r) PROVE Guarded'
  BY <1>6, Shape, Others, LocksOf, SessionsAssumption
     DEF Guarded, OtherAdmin, Claim, TypeOK, userVars
<1>7. ASSUME NEW r \in Requests, Reuse(r) PROVE Guarded'
  BY <1>7, Others, LocksOf, SessionsAssumption
     DEF Guarded, OtherAdmin, Reuse, Idle, userVars
<1>8. ASSUME NEW r \in Requests, Rotate(r) PROVE Guarded'
  BY <1>8, Others, LocksOf, SessionsAssumption
     DEF Guarded, OtherAdmin, Rotate, Idle, userVars
<1>9. ASSUME NEW r \in Requests, NEW u \in Users, Logout(r, u) PROVE Guarded'
  BY <1>9, Others, LocksOf, SessionsAssumption DEF Guarded, OtherAdmin, Logout, userVars
<1>10. ASSUME NEW r \in Requests, RevokeLocked(r) PROVE Guarded'
  BY <1>10, Others, LocksOf, SessionsAssumption
     DEF Guarded, OtherAdmin, RevokeLocked, Idle, userVars
<1>11. ASSUME NEW r \in Requests, RevokeBusy(r) PROVE Guarded'
  BY <1>11, Others, LocksOf, SessionsAssumption
     DEF Guarded, OtherAdmin, RevokeBusy, userVars
<1>12. ASSUME NEW r \in Requests, RevokeUnlocked(r) PROVE Guarded'
  BY <1>12, Others, LocksOf, SessionsAssumption
     DEF Guarded, OtherAdmin, RevokeUnlocked, userVars
<1>13. ASSUME NEW r \in Requests, UnlockedBusy(r) PROVE Guarded'
  BY <1>13, Others, LocksOf, SessionsAssumption
     DEF Guarded, OtherAdmin, UnlockedBusy, userVars
<1>14. ASSUME NEW r \in Requests, RevokeToken(r) PROVE Guarded'
  BY <1>14, Others, LocksOf, SessionsAssumption
     DEF Guarded, OtherAdmin, RevokeToken, Idle, userVars
<1>15. ASSUME NEW r \in Requests, NEW u \in Users, ChangeLock(r, u) PROVE Guarded'
  BY <1>15, Others, LocksOf, SessionsAssumption
     DEF Guarded, OtherAdmin, ChangeLock, userVars
<1>16. ASSUME NEW r \in Requests, GuardAdmin(r) PROVE Guarded'
  BY <1>16, Shape, Others, LocksOf, SessionsAssumption
     DEF Guarded, OtherAdmin, GuardAdmin, TypeOK, userVars
<1>17. ASSUME NEW r \in Requests, Change(r) PROVE Guarded'
  BY <1>17, Others, LocksOf, SessionsAssumption
     DEF Held, Guarded, OtherAdmin, Change, Idle
<1>18. ASSUME NEW u \in Users, Reactivate(u) PROVE Guarded'
  BY <1>18 DEF Guarded, OtherAdmin, Reactivate
<1>19. ASSUME NEW r \in Requests, GiveUp(r) PROVE Guarded'
  BY <1>19, Others, LocksOf, SessionsAssumption
     DEF Guarded, OtherAdmin, GiveUp, Idle, userVars
<1>20. CASE UNCHANGED vars
  BY <1>20 DEF Guarded, OtherAdmin, vars
<1> QED
  BY <1>1, <1>2, <1>3, <1>4, <1>5, <1>6, <1>7, <1>8, <1>9, <1>10, <1>11, <1>12, <1>13,
     <1>14, <1>15, <1>16, <1>17, <1>18, <1>19, <1>20
     DEF Next

\* ... so a removal that commits leaves one.
LEMMA LastStep == TypeOK /\ Guarded /\ LastAdmin /\ [Next]_vars => LastAdmin'
<1> SUFFICES ASSUME TypeOK /\ Guarded /\ LastAdmin, [Next]_vars PROVE LastAdmin'
  OBVIOUS
<1>1. ASSUME NEW r \in Requests, NEW u \in Users, Login(r, u) PROVE LastAdmin'
  BY <1>1 DEF LastAdmin, Login, userVars
<1>2. ASSUME NEW r \in Requests, NewFamily(r) PROVE LastAdmin'
  BY <1>2 DEF LastAdmin, NewFamily, userVars
<1>3. ASSUME NEW r \in Requests, NEW t \in Tokens, Present(r, t) PROVE LastAdmin'
  BY <1>3 DEF LastAdmin, Present, userVars
<1>4. ASSUME NEW r \in Requests, RotateLock(r) PROVE LastAdmin'
  BY <1>4 DEF LastAdmin, RotateLock, userVars
<1>5. ASSUME NEW r \in Requests, RotateDeactivated(r) PROVE LastAdmin'
  BY <1>5 DEF LastAdmin, RotateDeactivated, userVars
<1>6. ASSUME NEW r \in Requests, Claim(r) PROVE LastAdmin'
  BY <1>6 DEF LastAdmin, Claim, userVars
<1>7. ASSUME NEW r \in Requests, Reuse(r) PROVE LastAdmin'
  BY <1>7 DEF LastAdmin, Reuse, userVars
<1>8. ASSUME NEW r \in Requests, Rotate(r) PROVE LastAdmin'
  BY <1>8 DEF LastAdmin, Rotate, userVars
<1>9. ASSUME NEW r \in Requests, NEW u \in Users, Logout(r, u) PROVE LastAdmin'
  BY <1>9 DEF LastAdmin, Logout, userVars
<1>10. ASSUME NEW r \in Requests, RevokeLocked(r) PROVE LastAdmin'
  BY <1>10 DEF LastAdmin, RevokeLocked, userVars
<1>11. ASSUME NEW r \in Requests, RevokeBusy(r) PROVE LastAdmin'
  BY <1>11 DEF LastAdmin, RevokeBusy, userVars
<1>12. ASSUME NEW r \in Requests, RevokeUnlocked(r) PROVE LastAdmin'
  BY <1>12 DEF LastAdmin, RevokeUnlocked, userVars
<1>13. ASSUME NEW r \in Requests, UnlockedBusy(r) PROVE LastAdmin'
  BY <1>13 DEF LastAdmin, UnlockedBusy, userVars
<1>14. ASSUME NEW r \in Requests, RevokeToken(r) PROVE LastAdmin'
  BY <1>14 DEF LastAdmin, RevokeToken, userVars
<1>15. ASSUME NEW r \in Requests, NEW u \in Users, ChangeLock(r, u) PROVE LastAdmin'
  BY <1>15 DEF LastAdmin, ChangeLock, userVars
<1>16. ASSUME NEW r \in Requests, GuardAdmin(r) PROVE LastAdmin'
  BY <1>16 DEF LastAdmin, GuardAdmin, userVars
<1>17. ASSUME NEW r \in Requests, Change(r) PROVE LastAdmin'
  BY <1>17 DEF Guarded, LastAdmin, OtherAdmin, Change
<1>18. ASSUME NEW u \in Users, Reactivate(u) PROVE LastAdmin'
  BY <1>18 DEF LastAdmin, Reactivate
<1>19. ASSUME NEW r \in Requests, GiveUp(r) PROVE LastAdmin'
  BY <1>19 DEF LastAdmin, GiveUp, userVars
<1>20. CASE UNCHANGED vars
  BY <1>20 DEF LastAdmin, vars
<1> QED
  BY <1>1, <1>2, <1>3, <1>4, <1>5, <1>6, <1>7, <1>8, <1>9, <1>10, <1>11, <1>12, <1>13,
     <1>14, <1>15, <1>16, <1>17, <1>18, <1>19, <1>20
     DEF Next

\* A successor goes live as its predecessor is consumed.
LEMMA OneStep == TypeOK /\ Unborn /\ OneLive /\ ClaimedLive /\ [Next]_vars => OneLive'
<1> SUFFICES ASSUME TypeOK /\ Unborn /\ OneLive /\ ClaimedLive, [Next]_vars PROVE OneLive'
  OBVIOUS
<1>1. ASSUME NEW r \in Requests, NEW u \in Users, Login(r, u) PROVE OneLive'
  BY <1>1 DEF OneLive, Login
<1>2. ASSUME NEW r \in Requests, NewFamily(r) PROVE OneLive'
  BY <1>2, Shape, Others, LocksOf, SessionsAssumption
     DEF OneLive, Unborn, ClaimedLive, Tokens, NewFamily
<1>3. ASSUME NEW r \in Requests, NEW t \in Tokens, Present(r, t) PROVE OneLive'
  BY <1>3 DEF OneLive, Present
<1>4. ASSUME NEW r \in Requests, RotateLock(r) PROVE OneLive'
  BY <1>4 DEF OneLive, RotateLock
<1>5. ASSUME NEW r \in Requests, RotateDeactivated(r) PROVE OneLive'
  BY <1>5 DEF OneLive, Revoked, RotateDeactivated
<1>6. ASSUME NEW r \in Requests, Claim(r) PROVE OneLive'
  BY <1>6 DEF OneLive, Claim
<1>7. ASSUME NEW r \in Requests, Reuse(r) PROVE OneLive'
  BY <1>7 DEF OneLive, Revoked, Reuse
<1>8. ASSUME NEW r \in Requests, Rotate(r) PROVE OneLive'
  <2>1. PICK s \in Tokens :
          /\ s[1] = request[r].token[1]
          /\ \A t \in Tokens :
               token'[t] = IF t = s THEN "live"
                           ELSE IF t = request[r].token THEN "revoked" ELSE token[t]
    BY <1>8, Successor
  <2>2. request[r].token \in Tokens /\ token[request[r].token] = "live"
    BY <1>8, Shape DEF Rotate, ClaimedLive
  <2>3. ASSUME NEW t \in Tokens, token'[t] = "live", t[1] = s[1] PROVE t = s
    BY <2>1, <2>2, <2>3 DEF OneLive
  <2>4. ASSUME NEW t \in Tokens, token'[t] = "live", t # s PROVE token[t] = "live"
    BY <2>1, <2>4
  <2> QED
    BY <2>3, <2>4 DEF OneLive
<1>9. ASSUME NEW r \in Requests, NEW u \in Users, Logout(r, u) PROVE OneLive'
  BY <1>9 DEF OneLive, Logout
<1>10. ASSUME NEW r \in Requests, RevokeLocked(r) PROVE OneLive'
  BY <1>10 DEF OneLive, Revoked, RevokeLocked
<1>11. ASSUME NEW r \in Requests, RevokeBusy(r) PROVE OneLive'
  BY <1>11 DEF OneLive, RevokeBusy
<1>12. ASSUME NEW r \in Requests, RevokeUnlocked(r) PROVE OneLive'
  BY <1>12 DEF OneLive, Revoked, RevokeUnlocked
<1>13. ASSUME NEW r \in Requests, UnlockedBusy(r) PROVE OneLive'
  BY <1>13 DEF OneLive, UnlockedBusy
<1>14. ASSUME NEW r \in Requests, RevokeToken(r) PROVE OneLive'
  BY <1>14 DEF OneLive, Revoked, RevokeToken
<1>15. ASSUME NEW r \in Requests, NEW u \in Users, ChangeLock(r, u) PROVE OneLive'
  BY <1>15 DEF OneLive, ChangeLock
<1>16. ASSUME NEW r \in Requests, GuardAdmin(r) PROVE OneLive'
  BY <1>16 DEF OneLive, GuardAdmin
<1>17. ASSUME NEW r \in Requests, Change(r) PROVE OneLive'
  BY <1>17 DEF OneLive, Change
<1>18. ASSUME NEW u \in Users, Reactivate(u) PROVE OneLive'
  BY <1>18 DEF OneLive, Reactivate
<1>19. ASSUME NEW r \in Requests, GiveUp(r) PROVE OneLive'
  BY <1>19 DEF OneLive, GiveUp
<1>20. CASE UNCHANGED vars
  BY <1>20 DEF OneLive, vars
<1> QED
  BY <1>1, <1>2, <1>3, <1>4, <1>5, <1>6, <1>7, <1>8, <1>9, <1>10, <1>11, <1>12, <1>13,
     <1>14, <1>15, <1>16, <1>17, <1>18, <1>19, <1>20
     DEF Next

\* The token a rotation has claimed is still live, so its family has not ended.
LEMMA EndedStep ==
  TypeOK /\ Unborn /\ ClaimedLive /\ EndedStaysEnded /\ [Next]_vars => EndedStaysEnded'
<1> SUFFICES ASSUME TypeOK /\ Unborn /\ ClaimedLive /\ EndedStaysEnded, [Next]_vars
             PROVE  EndedStaysEnded'
  OBVIOUS
<1>1. ASSUME NEW r \in Requests, NEW u \in Users, Login(r, u) PROVE EndedStaysEnded'
  BY <1>1 DEF EndedStaysEnded, Login
<1>2. ASSUME NEW r \in Requests, NewFamily(r) PROVE EndedStaysEnded'
  BY <1>2 DEF EndedStaysEnded, Unborn, NewFamily
<1>3. ASSUME NEW r \in Requests, NEW t \in Tokens, Present(r, t) PROVE EndedStaysEnded'
  BY <1>3 DEF EndedStaysEnded, Present
<1>4. ASSUME NEW r \in Requests, RotateLock(r) PROVE EndedStaysEnded'
  BY <1>4 DEF EndedStaysEnded, RotateLock
<1>5. ASSUME NEW r \in Requests, RotateDeactivated(r) PROVE EndedStaysEnded'
  BY <1>5 DEF EndedStaysEnded, Revoked, RotateDeactivated
<1>6. ASSUME NEW r \in Requests, Claim(r) PROVE EndedStaysEnded'
  BY <1>6 DEF EndedStaysEnded, Claim
<1>7. ASSUME NEW r \in Requests, Reuse(r) PROVE EndedStaysEnded'
  BY <1>7 DEF EndedStaysEnded, Revoked, Stored, Reuse
<1>8. ASSUME NEW r \in Requests, Rotate(r) PROVE EndedStaysEnded'
  <2>1. PICK s \in Tokens :
          /\ s[1] = request[r].token[1]
          /\ \A t \in Tokens :
               token'[t] = IF t = s THEN "live"
                           ELSE IF t = request[r].token THEN "revoked" ELSE token[t]
    BY <1>8, Successor
  <2>2. request[r].token \in Tokens /\ token[request[r].token] = "live"
    BY <1>8, Shape DEF Rotate, ClaimedLive
  <2> QED
    BY <1>8, <2>1, <2>2 DEF Rotate, EndedStaysEnded
<1>9. ASSUME NEW r \in Requests, NEW u \in Users, Logout(r, u) PROVE EndedStaysEnded'
  BY <1>9 DEF EndedStaysEnded, Logout
<1>10. ASSUME NEW r \in Requests, RevokeLocked(r) PROVE EndedStaysEnded'
  BY <1>10 DEF EndedStaysEnded, Revoked, Stored, Scope, RevokeLocked
<1>11. ASSUME NEW r \in Requests, RevokeBusy(r) PROVE EndedStaysEnded'
  BY <1>11 DEF EndedStaysEnded, RevokeBusy
<1>12. ASSUME NEW r \in Requests, RevokeUnlocked(r) PROVE EndedStaysEnded'
  BY <1>12 DEF EndedStaysEnded, Revoked, RevokeUnlocked
<1>13. ASSUME NEW r \in Requests, UnlockedBusy(r) PROVE EndedStaysEnded'
  BY <1>13 DEF EndedStaysEnded, UnlockedBusy
<1>14. ASSUME NEW r \in Requests, RevokeToken(r) PROVE EndedStaysEnded'
  BY <1>14 DEF EndedStaysEnded, Revoked, RevokeToken
<1>15. ASSUME NEW r \in Requests, NEW u \in Users, ChangeLock(r, u) PROVE EndedStaysEnded'
  BY <1>15 DEF EndedStaysEnded, ChangeLock
<1>16. ASSUME NEW r \in Requests, GuardAdmin(r) PROVE EndedStaysEnded'
  BY <1>16 DEF EndedStaysEnded, GuardAdmin
<1>17. ASSUME NEW r \in Requests, Change(r) PROVE EndedStaysEnded'
  BY <1>17 DEF EndedStaysEnded, Stored, Change
<1>18. ASSUME NEW u \in Users, Reactivate(u) PROVE EndedStaysEnded'
  BY <1>18 DEF EndedStaysEnded, Reactivate
<1>19. ASSUME NEW r \in Requests, GiveUp(r) PROVE EndedStaysEnded'
  BY <1>19 DEF EndedStaysEnded, GiveUp
<1>20. CASE UNCHANGED vars
  BY <1>20 DEF EndedStaysEnded, vars
<1> QED
  BY <1>1, <1>2, <1>3, <1>4, <1>5, <1>6, <1>7, <1>8, <1>9, <1>10, <1>11, <1>12, <1>13,
     <1>14, <1>15, <1>16, <1>17, <1>18, <1>19, <1>20
     DEF Next

\* A change removes all tokens of its user, a successor joins a family that still
\* has a live token, and no login ends behind a change.
LEMMA CurrentStep ==
  TypeOK /\ ClaimedLive /\ CurrentPrivilege /\ "login" \notin Hazards /\ [Next]_vars =>
    CurrentPrivilege'
<1> SUFFICES ASSUME TypeOK /\ ClaimedLive /\ CurrentPrivilege /\ "login" \notin Hazards,
                    [Next]_vars
             PROVE  CurrentPrivilege'
  OBVIOUS
<1>1. ASSUME NEW r \in Requests, NEW u \in Users, Login(r, u) PROVE CurrentPrivilege'
  BY <1>1 DEF CurrentPrivilege, Login, userVars, familyVars
<1>2. ASSUME NEW r \in Requests, NewFamily(r) PROVE CurrentPrivilege'
  BY <1>2 DEF CurrentPrivilege, Missed, NewFamily, TypeOK, userVars
<1>3. ASSUME NEW r \in Requests, NEW t \in Tokens, Present(r, t) PROVE CurrentPrivilege'
  BY <1>3 DEF CurrentPrivilege, Present, userVars, familyVars
<1>4. ASSUME NEW r \in Requests, RotateLock(r) PROVE CurrentPrivilege'
  BY <1>4 DEF CurrentPrivilege, RotateLock, userVars, familyVars
<1>5. ASSUME NEW r \in Requests, RotateDeactivated(r) PROVE CurrentPrivilege'
  BY <1>5 DEF CurrentPrivilege, Revoked, RotateDeactivated, userVars, familyVars
<1>6. ASSUME NEW r \in Requests, Claim(r) PROVE CurrentPrivilege'
  BY <1>6 DEF CurrentPrivilege, Claim, userVars, familyVars
<1>7. ASSUME NEW r \in Requests, Reuse(r) PROVE CurrentPrivilege'
  BY <1>7 DEF CurrentPrivilege, Revoked, Reuse, userVars, familyVars
<1>8. ASSUME NEW r \in Requests, Rotate(r) PROVE CurrentPrivilege'
  <2>1. PICK s \in Tokens :
          /\ s[1] = request[r].token[1]
          /\ \A t \in Tokens :
               token'[t] = IF t = s THEN "live"
                           ELSE IF t = request[r].token THEN "revoked" ELSE token[t]
    BY <1>8, Successor
  <2>2. request[r].token \in Tokens /\ token[request[r].token] = "live"
    BY <1>8, Shape DEF Rotate, ClaimedLive
  <2>3. begun[s[1]] = changes[owner[s[1]]]
    BY <2>1, <2>2 DEF CurrentPrivilege
  <2>4. ASSUME NEW t \in Tokens, token'[t] = "live" PROVE begun[t[1]] = changes[owner[t[1]]]
    BY <2>1, <2>3, <2>4 DEF CurrentPrivilege
  <2> QED
    BY <1>8, <2>4 DEF Rotate, CurrentPrivilege, userVars, familyVars
<1>9. ASSUME NEW r \in Requests, NEW u \in Users, Logout(r, u) PROVE CurrentPrivilege'
  BY <1>9 DEF CurrentPrivilege, Logout, userVars, familyVars
<1>10. ASSUME NEW r \in Requests, RevokeLocked(r) PROVE CurrentPrivilege'
  BY <1>10 DEF CurrentPrivilege, Revoked, RevokeLocked, userVars, familyVars
<1>11. ASSUME NEW r \in Requests, RevokeBusy(r) PROVE CurrentPrivilege'
  BY <1>11 DEF CurrentPrivilege, RevokeBusy, userVars, familyVars
<1>12. ASSUME NEW r \in Requests, RevokeUnlocked(r) PROVE CurrentPrivilege'
  BY <1>12 DEF CurrentPrivilege, Revoked, RevokeUnlocked, userVars, familyVars
<1>13. ASSUME NEW r \in Requests, UnlockedBusy(r) PROVE CurrentPrivilege'
  BY <1>13 DEF CurrentPrivilege, UnlockedBusy, userVars, familyVars
<1>14. ASSUME NEW r \in Requests, RevokeToken(r) PROVE CurrentPrivilege'
  <2>1. \A t \in Tokens : token'[t] = "live" => token[t] = "live"
    BY <1>14 DEF RevokeToken, Revoked
  <2> QED
    BY <1>14, <2>1 DEF RevokeToken, CurrentPrivilege, userVars, familyVars
<1>15. ASSUME NEW r \in Requests, NEW u \in Users, ChangeLock(r, u) PROVE CurrentPrivilege'
  BY <1>15 DEF CurrentPrivilege, ChangeLock, userVars, familyVars
<1>16. ASSUME NEW r \in Requests, GuardAdmin(r) PROVE CurrentPrivilege'
  BY <1>16 DEF CurrentPrivilege, GuardAdmin, userVars, familyVars
<1>17. ASSUME NEW r \in Requests, Change(r) PROVE CurrentPrivilege'
  BY <1>17 DEF CurrentPrivilege, Stored, Change, familyVars
<1>18. ASSUME NEW u \in Users, Reactivate(u) PROVE CurrentPrivilege'
  BY <1>18 DEF CurrentPrivilege, Reactivate, familyVars
<1>19. ASSUME NEW r \in Requests, GiveUp(r) PROVE CurrentPrivilege'
  BY <1>19 DEF CurrentPrivilege, GiveUp, userVars, familyVars
<1>20. CASE UNCHANGED vars
  BY <1>20 DEF CurrentPrivilege, vars
<1> QED
  BY <1>1, <1>2, <1>3, <1>4, <1>5, <1>6, <1>7, <1>8, <1>9, <1>10, <1>11, <1>12, <1>13,
     <1>14, <1>15, <1>16, <1>17, <1>18, <1>19, <1>20
     DEF Next

\* Every step keeps the whole invariant.
LEMMA Step == IInv /\ [Next]_vars => IInv'
  BY TypeStep, HeldStep, OwnedStep, ClaimedStep, UnbornStep, BoundedStep, GuardedStep,
     LastStep, OneStep, EndedStep
     DEF IInv

\* The invariant behind the four promises holds in every reachable state.
THEOREM Inductive == Spec => []IInv
  BY InitInv, Step, PTL DEF Spec

\* Every rotation, revocation and change keeps the types of its rows and locks.
THEOREM TypeCorrect == Spec => []TypeOK
  BY Inductive, PTL DEF IInv

\* However refreshes of one session overlap or replay, its family never forks
\* (rotateRefreshToken).
THEOREM NoFork == Spec => []OneLive
  BY Inductive, PTL DEF IInv

\* No rotation in flight revives a family that was ended (rotateRefreshToken,
\* revokeAllUserTokens, the changes of admin-user-service.ts).
THEOREM EndIsFinal == Spec => []EndedStaysEnded
  BY Inductive, PTL DEF IInv

\* Administrators who remove each other at once leave one who is active
\* (assertNotLastActiveAdminTx).
THEOREM AdminRemains == Spec => []LastAdmin
  BY Inductive, PTL DEF IInv

\* No session outlives the privileges it began with, provided that no login
\* overlaps a change of its user.
THEOREM PrivilegeCurrent ==
  ASSUME "login" \notin Hazards
  PROVE  Spec => []CurrentPrivilege
<1>1. Init => CurrentPrivilege
  BY DEF Init, CurrentPrivilege
<1>2. IInv /\ CurrentPrivilege /\ [Next]_vars => CurrentPrivilege'
  BY CurrentStep DEF IInv
<1> QED
  BY <1>1, <1>2, Inductive, PTL DEF Spec

=============================================================================
