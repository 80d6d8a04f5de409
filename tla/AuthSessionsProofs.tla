-------------------------- MODULE AuthSessionsProofs --------------------------
(***************************************************************************)
(* Theorems about refresh-token sessions, for any number of users,         *)
(* sessions, tokens and concurrent requests.                               *)
(***************************************************************************)
EXTENDS AuthSessions, TLAPS

\* What a request under way carries: a login its user; a refresh its session; a
\* logout both, and the session is the user's.
RequestsCarry ==
  \A q \in Requests :
    /\ request[q].step = "login" => request[q].user \in Users
    /\ request[q].step = "refresh" => request[q].session \in Sessions
    /\ request[q].step = "logout" =>
         /\ request[q].user \in Users
         /\ request[q].session \in Sessions
         /\ owner[request[q].session] = request[q].user

IInv == TypeOK /\ RequestsCarry /\ SessionsHaveAccounts

USE DEF Request, Idle, table, ends

\* Every step keeps the types.
LEMMA TypeStep ==
  ASSUME TypeOK, RequestsCarry, [Next]_vars
  PROVE  TypeOK'
<1> USE NoUserAssumption, NoSessionAssumption, NoTokenAssumption DEF TypeOK
<1>1. ASSUME NEW q \in Requests, NEW u \in Users, Register(q, u) PROVE TypeOK'
  BY <1>1 DEF Register, Begin
<1>2. ASSUME NEW q \in Requests, NEW u \in Users, BeginLogin(q, u) PROVE TypeOK'
  BY <1>2 DEF BeginLogin, Begin
<1>3. ASSUME NEW q \in Requests, NEW s \in Sessions, NEW k \in Tokens,
             CreateSession(q, s, k)
      PROVE TypeOK'
  BY <1>3 DEF CreateSession, End, RequestsCarry
<1>4. ASSUME NEW q \in Requests, NEW s \in Sessions, BeginRefresh(q, s) PROVE TypeOK'
  BY <1>4 DEF BeginRefresh, Begin
<1>5. ASSUME NEW q \in Requests, NEW k \in Tokens, RotateSession(q, k) PROVE TypeOK'
  BY <1>5 DEF RotateSession, End
<1>6. ASSUME NEW q \in Requests, NEW u \in Users, NEW s \in Sessions,
             BeginLogout(q, u, s)
      PROVE TypeOK'
  BY <1>6 DEF BeginLogout, Begin
<1>7. ASSUME NEW q \in Requests, RevokeSession(q) PROVE TypeOK'
  BY <1>7 DEF RevokeSession, Updated, End, RequestsCarry
<1>8. ASSUME NEW s \in Sessions, Expire(s) PROVE TypeOK'
  BY <1>8 DEF Expire
<1>9. ASSUME NEW u \in Users, DeleteUser(u) PROVE TypeOK'
  BY <1>9 DEF DeleteUser, SessionsOf
<1>10. ASSUME NEW q \in Requests, Fail(q) PROVE TypeOK'
  BY <1>10 DEF Fail, End
<1>11. CASE UNCHANGED vars
  BY <1>11 DEF vars
<1>12. QED
  BY <1>1, <1>2, <1>3, <1>4, <1>5, <1>6, <1>7, <1>8, <1>9, <1>10, <1>11
     DEF Next, LoginWithFirebase, RefreshSession, Logout

\* Every step keeps what requests carry: a session never changes hands.
LEMMA CarryStep ==
  ASSUME TypeOK, RequestsCarry, [Next]_vars
  PROVE  RequestsCarry'
<1> USE NoUserAssumption, NoSessionAssumption, NoTokenAssumption DEF TypeOK, RequestsCarry
<1>1. ASSUME NEW q \in Requests, NEW u \in Users, Register(q, u)
      PROVE RequestsCarry'
  BY <1>1 DEF Register, Begin
<1>2. ASSUME NEW q \in Requests, NEW u \in Users, BeginLogin(q, u)
      PROVE RequestsCarry'
  BY <1>2 DEF BeginLogin, Begin
<1>3. ASSUME NEW q \in Requests, NEW s \in Sessions, NEW k \in Tokens,
             CreateSession(q, s, k)
      PROVE RequestsCarry'
  BY <1>3 DEF CreateSession, End
<1>4. ASSUME NEW q \in Requests, NEW s \in Sessions, BeginRefresh(q, s)
      PROVE RequestsCarry'
  BY <1>4 DEF BeginRefresh, Begin
<1>5. ASSUME NEW q \in Requests, NEW k \in Tokens, RotateSession(q, k)
      PROVE RequestsCarry'
  BY <1>5 DEF RotateSession, End
<1>6. ASSUME NEW q \in Requests, NEW u \in Users, NEW s \in Sessions,
             BeginLogout(q, u, s)
      PROVE RequestsCarry'
  BY <1>6 DEF BeginLogout, OwnedBy, Begin
<1>7. ASSUME NEW q \in Requests, RevokeSession(q) PROVE RequestsCarry'
  BY <1>7 DEF RevokeSession, End
<1>8. ASSUME NEW s \in Sessions, Expire(s) PROVE RequestsCarry'
  BY <1>8 DEF Expire
<1>9. ASSUME NEW u \in Users, DeleteUser(u) PROVE RequestsCarry'
  BY <1>9 DEF DeleteUser
<1>10. ASSUME NEW q \in Requests, Fail(q) PROVE RequestsCarry'
  BY <1>10 DEF Fail, End
<1>11. CASE UNCHANGED vars
  BY <1>11 DEF vars
<1>12. QED
  BY <1>1, <1>2, <1>3, <1>4, <1>5, <1>6, <1>7, <1>8, <1>9, <1>10, <1>11
     DEF Next, LoginWithFirebase, RefreshSession, Logout

\* Every step leaves the sessions with accounts that are there.
LEMMA AccountStep ==
  ASSUME IInv, [Next]_vars
  PROVE  SessionsHaveAccounts'
<1> USE NoUserAssumption DEF IInv, TypeOK, SessionsHaveAccounts
<1>1. ASSUME NEW q \in Requests, NEW u \in Users, Register(q, u)
      PROVE SessionsHaveAccounts'
  BY <1>1 DEF Register
<1>2. ASSUME NEW q \in Requests, NEW s \in Sessions, NEW k \in Tokens,
             CreateSession(q, s, k)
      PROVE SessionsHaveAccounts'
  BY <1>2 DEF CreateSession, References, RequestsCarry
<1>3. ASSUME NEW u \in Users, DeleteUser(u) PROVE SessionsHaveAccounts'
  BY <1>3 DEF DeleteUser, SessionsOf
<1>4. ASSUME UNCHANGED <<account, rows, owner>> PROVE SessionsHaveAccounts'
  BY <1>4
<1>5. QED
  BY <1>1, <1>2, <1>3, <1>4
     DEF Next, LoginWithFirebase, RefreshSession, Logout, vars, BeginLogin,
         BeginRefresh, RotateSession, BeginLogout, RevokeSession, Expire, Fail

\* The invariant holds of the specification.
LEMMA Invariant == Spec => []IInv
<1>1. Init => IInv
  BY DEF Init, IInv, TypeOK, RequestsCarry, SessionsHaveAccounts
<1>2. IInv /\ [Next]_vars => IInv'
  <2> SUFFICES ASSUME IInv, [Next]_vars PROVE IInv'
    OBVIOUS
  <2>1. TypeOK'
    BY TypeStep DEF IInv
  <2>2. RequestsCarry'
    BY CarryStep DEF IInv
  <2>3. SessionsHaveAccounts'
    BY AccountStep
  <2>4. QED
    BY <2>1, <2>2, <2>3 DEF IInv
<1>3. QED
  BY <1>1, <1>2, PTL DEF Spec

\* Every variable keeps its type.
THEOREM SessionTypes == Spec => []TypeOK
<1>1. IInv => TypeOK
  BY DEF IInv
<1>2. QED
  BY <1>1, Invariant, PTL

\* A deleted account has no session, whatever logins and refreshes were under way.
THEOREM AccountsBehindSessions == Spec => []SessionsHaveAccounts
<1>1. IInv => SessionsHaveAccounts
  BY DEF IInv
<1>2. QED
  BY <1>1, Invariant, PTL

\* A session that has ended while no refresh of it is under way never opens again.
LEMMA EndedStep ==
  ASSUME IInv, [Next]_vars, NEW s \in rows, Ended(s), ~Refreshing(s), s \in rows'
  PROVE  Ended(s)' /\ ~Refreshing(s)'
<1> USE NoUserAssumption, NoSessionAssumption DEF IInv, TypeOK, Ended, Refreshing
<1> s \in Sessions
  OBVIOUS
<1>1. ASSUME NEW q \in Requests, NEW u \in Users, Register(q, u)
      PROVE Ended(s)' /\ ~Refreshing(s)'
  BY <1>1 DEF Register, Begin
<1>2. ASSUME NEW q \in Requests, NEW u \in Users, BeginLogin(q, u)
      PROVE Ended(s)' /\ ~Refreshing(s)'
  BY <1>2 DEF BeginLogin, Begin
<1>3. ASSUME NEW q \in Requests, NEW z \in Sessions, NEW k \in Tokens,
             CreateSession(q, z, k)
      PROVE Ended(s)' /\ ~Refreshing(s)'
  BY <1>3 DEF CreateSession, End
<1>4. ASSUME NEW q \in Requests, NEW z \in Sessions, BeginRefresh(q, z)
      PROVE Ended(s)' /\ ~Refreshing(s)'
  <2>1. z # s
    BY <1>4 DEF BeginRefresh, Accepted
  <2>2. QED
    BY <1>4, <2>1 DEF BeginRefresh, Begin
<1>5. ASSUME NEW q \in Requests, NEW k \in Tokens, RotateSession(q, k)
      PROVE Ended(s)' /\ ~Refreshing(s)'
  <2>1. request[q].session # s
    BY <1>5 DEF RotateSession
  <2>2. QED
    BY <1>5, <2>1 DEF RotateSession, End
<1>6. ASSUME NEW q \in Requests, NEW u \in Users, NEW z \in Sessions,
             BeginLogout(q, u, z)
      PROVE Ended(s)' /\ ~Refreshing(s)'
  BY <1>6 DEF BeginLogout, Begin
<1>7. ASSUME NEW q \in Requests, RevokeSession(q)
      PROVE Ended(s)' /\ ~Refreshing(s)'
  BY <1>7 DEF RevokeSession, End
<1>8. ASSUME NEW z \in Sessions, Expire(z)
      PROVE Ended(s)' /\ ~Refreshing(s)'
  BY <1>8 DEF Expire
<1>9. ASSUME NEW u \in Users, DeleteUser(u)
      PROVE Ended(s)' /\ ~Refreshing(s)'
  BY <1>9 DEF DeleteUser
<1>10. ASSUME NEW q \in Requests, Fail(q)
      PROVE Ended(s)' /\ ~Refreshing(s)'
  BY <1>10 DEF Fail, End
<1>11. CASE UNCHANGED vars
  BY <1>11 DEF vars
<1>12. QED
  BY <1>1, <1>2, <1>3, <1>4, <1>5, <1>6, <1>7, <1>8, <1>9, <1>10, <1>11
     DEF Next, LoginWithFirebase, RefreshSession, Logout

\* An ended session that no refresh under way can touch is over for good.
THEOREM EndedForGood == Spec => EndedSessionsStayEnded
<1>1. IInv /\ [Next]_vars
        => [\A s \in rows :
              Ended(s) /\ ~Refreshing(s) /\ s \in rows' => Ended(s)' /\ ~Refreshing(s)']_vars
  BY EndedStep
<1>2. QED
  BY <1>1, Invariant, PTL DEF Spec, EndedSessionsStayEnded

\* A step that revokes a session is the logout of its owner.
LEMMA RevokingStep ==
  ASSUME IInv, [Next]_vars, NEW s \in revoked' \ revoked
  PROVE  \E q \in Requests :
           /\ request[q].step = "logout" /\ request[q].session = s
           /\ request[q].user = owner[s]
           /\ request'[q] = Idle
<1>1. PICK q \in Requests : RevokeSession(q)
  BY DEF Next, vars, LoginWithFirebase, RefreshSession, Logout, Register, BeginLogin,
         CreateSession, BeginRefresh, RotateSession, BeginLogout, Expire, DeleteUser, Fail
<1>2. request[q].session = s
  BY <1>1 DEF RevokeSession, Updated
<1>3. request[q].user = owner[s]
  BY <1>1, <1>2 DEF RevokeSession, IInv, RequestsCarry
<1>4. request'[q] = Idle
  BY <1>1 DEF RevokeSession, End, IInv, TypeOK
<1>5. QED
  BY <1>1, <1>2, <1>3, <1>4 DEF RevokeSession

\* Nobody is logged out by somebody else.
THEOREM LogoutsByOwners == Spec => OnlyOwnersLogOut
<1>1. IInv /\ [Next]_vars
        => [\A s \in revoked' \ revoked :
              \E q \in Requests :
                /\ request[q].step = "logout" /\ request[q].session = s
                /\ request[q].user = owner[s]
                /\ request'[q] = Idle]_vars
  BY RevokingStep
<1>2. QED
  BY <1>1, Invariant, PTL DEF Spec, OnlyOwnersLogOut
=============================================================================
