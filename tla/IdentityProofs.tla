---------------------------- MODULE IdentityProofs ----------------------------
(***************************************************************************)
(* That a role works for at most TTL hours after the login that read it,   *)
(* for any users, secrets, clients and term.  The invariant says what the  *)
(* rows in flight and the tokens remember: the roles in them were held in  *)
(* the hour the row was read.                                              *)
(***************************************************************************)
EXTENDS Identity, TLAPS

RowOK(row) ==
    row # NULL =>
        /\ row.readAt <= clock
        /\ \A role \in row.roles : <<row.user, role, row.readAt>> \in held

PayloadOK(payload) ==
    payload # NULL =>
        /\ payload.readAt <= payload.iat
        /\ payload.exp = payload.iat + TTL
        /\ \A role \in payload.roles :
               <<payload.sub, role, payload.readAt>> \in held

IdentityInv ==
    /\ IdentityTypeOK
    /\ \A u \in Users : \A role \in users[u] : <<u, role, clock>> \in held
    /\ \A k \in Clients : RowOK(login[k]) /\ PayloadOK(token[k])
    /\ PowersWereHeld

USE IdentityAssumption

-----------------------------------------------------------------------------
LEMMA HoldersHeld ==
    ASSUME NEW assignment, NEW hour, NEW u \in Users,
           NEW role \in assignment[u]
    PROVE  <<u, role, hour>> \in Holders(assignment, hour)
  BY DEF Holders

LEMMA InitIdentity == Init => IdentityInv
  <1> SUFFICES ASSUME Init PROVE IdentityInv
    OBVIOUS
  <1>1. IdentityTypeOK
    BY DEF Init, IdentityTypeOK
  <1>2. \A u \in Users : \A role \in users[u] : <<u, role, clock>> \in held
    BY HoldersHeld DEF Init
  <1>3. QED
    BY <1>1, <1>2 DEF Init, IdentityInv, RowOK, PayloadOK, PowersWereHeld

\* A call is let through: what the token says was checked when it was signed.
LEMMA CallKeeps ==
    ASSUME IdentityInv, NEW k \in Clients, NEW route \in Route, Call(k, route)
    PROVE  IdentityInv'
  <1> DEFINE payload == token[k]
  <1>1. IdentityTypeOK /\ RowOK(login[k]) /\ PayloadOK(payload)
    BY DEF IdentityInv
  <1>2. payload \in JwtPayload \cup {NULL}
    BY <1>1 DEF IdentityTypeOK
  <1>3. UNCHANGED <<users, secret, clock, login, token, held>>
    BY DEF Call
  <1>4. CASE isPublic(route)
    <2>1. admitted' = [route |-> route, payload |-> NULL, at |-> clock]
      BY <1>4 DEF Call
    <2>2. RequiredRoles(route) = {}
      BY <1>4 DEF Call, RolesGuardAllows
    <2>3. IdentityTypeOK'
      BY <1>1, <1>3, <2>1 DEF IdentityTypeOK, Admission
    <2>4. PowersWereHeld'
      BY <2>1, <2>2 DEF PowersWereHeld
    <2>5. QED
      BY <1>3, <2>3, <2>4 DEF IdentityInv, RowOK, PayloadOK
  <1>5. CASE ~isPublic(route)
    <2>1. admitted' = [route |-> route, payload |-> payload, at |-> clock]
      BY <1>5 DEF Call
    <2>2. payload # NULL /\ clock < payload.exp
      BY <1>5 DEF Call, JwtAuthGuardAllows, Verifies
    <2>3. IdentityTypeOK'
      BY <1>1, <1>2, <1>3, <2>1 DEF IdentityTypeOK, Admission
    <2>4. PowersWereHeld'
      <3>1. SUFFICES ASSUME RequiredRoles(route) # {} PROVE PowersWereHeld'
        BY <2>1 DEF PowersWereHeld
      <3>2. PICK role \in RequiredRoles(route) : role \in payload.roles
        BY <1>5, <3>1 DEF Call, RolesGuardAllows
      <3>3. <<payload.sub, role, payload.readAt>> \in held
        BY <1>1, <2>2, <3>2 DEF PayloadOK
      <3>4. payload.readAt <= payload.iat /\ clock < payload.iat + TTL
        BY <1>1, <2>2 DEF PayloadOK
      <3>5. QED
        BY <1>3, <2>1, <2>2, <3>2, <3>3, <3>4 DEF PowersWereHeld
    <2>5. QED
      BY <1>3, <2>3, <2>4 DEF IdentityInv, RowOK, PayloadOK
  <1>6. QED  BY <1>4, <1>5

\* The token is made of the row, within the term.
LEMMA SignKeeps ==
    ASSUME IdentityInv, NEW k \in Clients, Sign(k)
    PROVE  IdentityInv'
  <1> DEFINE row == login[k]
             signed == [ sub |-> row.user, roles |-> row.roles,
                         iat |-> clock, exp |-> clock + TTL,
                         signedWith |-> secret, readAt |-> row.readAt ]
  <1>1. row \in UserRow /\ RowOK(row) /\ clock \in Nat /\ secret \in Secrets
    BY DEF IdentityInv, IdentityTypeOK, Sign
  <1>2. signed \in JwtPayload
    BY <1>1 DEF UserRow, JwtPayload
  <1>3. PayloadOK(signed)
    BY <1>1 DEF PayloadOK, RowOK
  <1>4. /\ login' = [login EXCEPT ![k] = NULL]
        /\ token' = [token EXCEPT ![k] = signed]
        /\ admitted' = NULL
        /\ UNCHANGED <<users, secret, clock, held>>
    BY DEF Sign
  <1>5. IdentityTypeOK'
    BY <1>2, <1>4 DEF IdentityInv, IdentityTypeOK
  <1>6. ASSUME NEW j \in Clients PROVE (RowOK(login[j]) /\ PayloadOK(token[j]))'
    <2>1. login'[j] \in {login[j], NULL} /\ token'[j] \in {token[j], signed}
      BY <1>4 DEF IdentityInv, IdentityTypeOK
    <2>2. RowOK(login[j]) /\ PayloadOK(token[j])
      BY DEF IdentityInv
    <2>3. QED
      BY <1>3, <1>4, <2>1, <2>2 DEF RowOK, PayloadOK
  <1>7. PowersWereHeld'
    BY <1>4 DEF PowersWereHeld
  <1>8. QED
    BY <1>4, <1>5, <1>6, <1>7 DEF IdentityInv

\* The row is read: its roles are held in this hour.
LEMMA FindUserKeeps ==
    ASSUME IdentityInv, NEW k \in Clients, NEW u \in Users, FindUser(k, u)
    PROVE  IdentityInv'
  <1> DEFINE row == [user |-> u, roles |-> users[u], readAt |-> clock]
  <1>1. row \in UserRow /\ RowOK(row)
    BY DEF IdentityInv, IdentityTypeOK, UserRow, RowOK
  <1>2. /\ login' = [login EXCEPT ![k] = row]
        /\ admitted' = NULL
        /\ UNCHANGED <<users, secret, clock, token, held>>
    BY DEF FindUser
  <1>3. IdentityTypeOK'
    BY <1>1, <1>2 DEF IdentityInv, IdentityTypeOK
  <1>4. ASSUME NEW j \in Clients PROVE (RowOK(login[j]) /\ PayloadOK(token[j]))'
    <2>1. login'[j] \in {login[j], row} /\ token'[j] = token[j]
      BY <1>2 DEF IdentityInv, IdentityTypeOK
    <2>2. RowOK(login[j]) /\ PayloadOK(token[j])
      BY DEF IdentityInv
    <2>3. QED
      BY <1>1, <1>2, <2>1, <2>2 DEF RowOK, PayloadOK
  <1>5. PowersWereHeld'
    BY <1>2 DEF PowersWereHeld
  <1>6. QED
    BY <1>2, <1>3, <1>4, <1>5 DEF IdentityInv

\* A login ends without a token, by a wrong password or with the server.
LEMMA LoginEnds ==
    ASSUME IdentityInv, NEW s \in Secrets,
           secret' = s, admitted' = NULL,
           \A j \in Clients : login'[j] \in {login[j], NULL},
           login' \in [Clients -> UserRow \cup {NULL}],
           UNCHANGED <<users, clock, token, held>>
    PROVE  IdentityInv'
  <1>1. IdentityTypeOK'
    BY DEF IdentityInv, IdentityTypeOK
  <1>2. ASSUME NEW j \in Clients PROVE (RowOK(login[j]) /\ PayloadOK(token[j]))'
    <2>1. RowOK(login[j]) /\ PayloadOK(token[j])
      BY DEF IdentityInv
    <2>2. QED
      BY <2>1 DEF RowOK, PayloadOK
  <1>3. PowersWereHeld'
    BY DEF PowersWereHeld
  <1>4. QED
    BY <1>1, <1>2, <1>3 DEF IdentityInv

\* History only grows, and covers the new hour or the new roles.
LEMMA HistoryGrows ==
    ASSUME IdentityInv, UNCHANGED <<secret, login, token>>, admitted' = NULL,
           users' \in [Users -> SUBSET Role],
           clock' \in Nat, clock <= clock',
           held' = held \cup Holders(users', clock')
    PROVE  IdentityInv'
  <1>1. IdentityTypeOK'
    BY DEF IdentityInv, IdentityTypeOK
  <1>2. \A u \in Users : \A role \in users'[u] : <<u, role, clock'>> \in held'
    BY HoldersHeld
  <1>3. ASSUME NEW j \in Clients PROVE (RowOK(login[j]) /\ PayloadOK(token[j]))'
    <2>1. /\ RowOK(login[j]) /\ PayloadOK(token[j])
          /\ clock \in Nat /\ login[j] \in UserRow \cup {NULL}
      BY DEF IdentityInv, IdentityTypeOK
    <2>2. QED
      BY <2>1 DEF RowOK, PayloadOK, UserRow
  <1>4. PowersWereHeld'
    BY DEF PowersWereHeld
  <1>5. QED
    BY <1>1, <1>2, <1>3, <1>4 DEF IdentityInv

LEMMA NextIdentity == IdentityInv /\ [Next]_vars => IdentityInv'
  <1> SUFFICES ASSUME IdentityInv, [Next]_vars PROVE IdentityInv'
    OBVIOUS
  <1>0. IdentityTypeOK
    BY DEF IdentityInv
  <1>1. CASE \E k \in Clients, u \in Users : FindUser(k, u)
    BY <1>1, FindUserKeeps
  <1>2. CASE \E k \in Clients : Sign(k)
    BY <1>2, SignKeeps
  <1>3. CASE \E k \in Clients : Refuse(k)
    <2>1. PICK k \in Clients : Refuse(k)
      BY <1>3
    <2>2. login' \in [Clients -> UserRow \cup {NULL}]
      BY <1>0, <2>1 DEF Refuse, IdentityTypeOK
    <2>3. \A j \in Clients : login'[j] \in {login[j], NULL}
      BY <1>0, <2>1 DEF Refuse, IdentityTypeOK
    <2>4. QED
      BY <1>0, <2>1, <2>2, <2>3, LoginEnds DEF Refuse, IdentityTypeOK
  <1>4. CASE \E k \in Clients, route \in Route : Call(k, route)
    BY <1>4, CallKeeps
  <1>5. CASE \E u \in Users, roles \in Assignments : Assign(u, roles)
    <2>1. PICK u \in Users, roles \in Assignments : Assign(u, roles)
      BY <1>5
    <2>2. /\ users' \in [Users -> SUBSET Role]
          /\ clock' = clock /\ clock \in Nat
      BY <1>0, <2>1 DEF Assign, IdentityTypeOK
    <2>3. QED
      BY <2>1, <2>2, HistoryGrows DEF Assign
  <1>6. CASE \E s \in Secrets : Restart(s)
    BY <1>6, LoginEnds DEF Restart
  <1>7. CASE Tick
    <2>1. /\ users' = users /\ users \in [Users -> SUBSET Role]
          /\ clock' = clock + 1 /\ clock \in Nat
      BY <1>0, <1>7 DEF Tick, IdentityTypeOK
    <2>2. QED
      BY <1>7, <2>1, HistoryGrows DEF Tick
  <1>8. CASE UNCHANGED vars
    BY <1>8 DEF vars, IdentityInv, IdentityTypeOK, RowOK, PayloadOK,
                PowersWereHeld
  <1>9. QED
    BY <1>1, <1>2, <1>3, <1>4, <1>5, <1>6, <1>7, <1>8 DEF Next

\* A role works for less than TTL hours after the login that read it, for any
\* users, operators, secrets and restarts: the guards of every route with
\* @Roles, and AuthService.login.
THEOREM PowersExpire == Spec => []PowersWereHeld
  <1>1. IdentityInv => PowersWereHeld
    BY DEF IdentityInv
  <1>2. QED
    BY <1>1, InitIdentity, NextIdentity, PTL DEF Spec

\* Users, rows, tokens and admissions keep their types.
THEOREM IdentityTyped == Spec => []IdentityTypeOK
  <1>1. IdentityInv => IdentityTypeOK
    BY DEF IdentityInv
  <1>2. QED
    BY <1>1, InitIdentity, NextIdentity, PTL DEF Spec
=============================================================================
