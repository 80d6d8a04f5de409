---------------------------- MODULE AuthSessions -----------------------------
(***************************************************************************)
(* Refresh-token sessions: login, refresh with rotation, logout, expiry,   *)
(* and deletion of the account (internal/auth/service.go and repository.go,*)
(* internal/platform/db/sqlc/auth_sessions.sql.go).                        *)
(*                                                                         *)
(* None of these handlers opens a transaction: each reads the session, or  *)
(* the user, in one statement and writes in a later one, so a request is   *)
(* two steps here and other requests run in between.  A row's id is a      *)
(* fresh UUID and is never used again; so is a refresh token.              *)
(***************************************************************************)
CONSTANTS
  Users,       \* users.id
  Sessions,    \* auth_sessions.id
  Tokens,      \* refresh tokens, by their hash
  Requests,    \* requests the server handles at the same time
  NoUser,      \* the owner of a session nobody has started yet
  NoSession,   \* the session of a request that has none
  NoToken      \* the token of a session nobody has started yet

ASSUME NoUserAssumption == NoUser \notin Users
ASSUME NoSessionAssumption == NoSession \notin Sessions
ASSUME NoTokenAssumption == NoToken \notin Tokens

VARIABLES
  account,     \* users: "none" before sign-up, "active", "deleted"
  rows,        \* the sessions that have a row
  owner,       \* auth_sessions.user_id
  token,       \* auth_sessions.refresh_token_hash
  revoked,     \* the sessions with revoked_at
  expired,     \* the sessions whose expires_at is past
  issued,      \* the refresh tokens generated so far
  request      \* what each request has read and is about to write

table == <<rows, owner, token>>
ends  == <<revoked, expired>>
vars  == <<account, table, ends, issued, request>>

Idle ==
  [step |-> "idle", user |-> NoUser, session |-> NoSession]

Request ==
  [step    : {"idle", "login", "refresh", "logout"},
   user    : Users \cup {NoUser},
   session : Sessions \cup {NoSession}]

\* The request q goes on to write as r says.
Begin(q, r) ==
  /\ request[q] = Idle
  /\ request' = [request EXCEPT ![q] = r]

\* The request is answered.
End(q) == request' = [request EXCEPT ![q] = Idle]

-----------------------------------------------------------------------------
(* LoginWithFirebase. *)

\* The first login of an e-mail address makes the account.
Register(q, u) ==
  /\ account[u] = "none"
  /\ account' = [account EXCEPT ![u] = "active"]
  /\ Begin(q, [Idle EXCEPT !.step = "login", !.user = u])
  /\ UNCHANGED <<table, ends, issued>>

BeginLogin(q, u) ==
  /\ account[u] = "active"
  /\ Begin(q, [Idle EXCEPT !.step = "login", !.user = u])
  /\ UNCHANGED <<account, table, ends, issued>>

\* auth_sessions.user_id REFERENCES users: the insert fails if the account went
\* in the meantime.  Mutation: there is no foreign key.
AnyAccount(u) == account[u] # "none"
References(u) == account[u] = "active"

CreateSession(q, s, k) ==
  /\ request[q].step = "login"
  /\ References(request[q].user)
  /\ owner[s] = NoUser
  /\ k \notin issued
  /\ rows' = rows \cup {s}
  /\ owner' = [owner EXCEPT ![s] = request[q].user]
  /\ token' = [token EXCEPT ![s] = k]
  /\ issued' = issued \cup {k}
  /\ End(q)
  /\ UNCHANGED <<account, ends>>

-----------------------------------------------------------------------------
(* RefreshSession. *)

\* Mutation: revoked_at is not looked at.
Unexpired(s) == s \notin expired
Accepted(s) == s \notin revoked /\ s \notin expired

\* The session is looked up by the token and found neither revoked nor
\* expired.  (The user is read next; an account that went took its sessions along.)
BeginRefresh(q, s) ==
  /\ s \in rows
  /\ Accepted(s)
  /\ Begin(q, [Idle EXCEPT !.step = "refresh", !.session = s])
  /\ UNCHANGED <<account, table, ends, issued>>

\* UPDATE ... SET refresh_token_hash, expires_at, revoked_at = NULL WHERE id: the
\* session is not looked at again.  Without the row the UPDATE affects nothing
\* and the client is still answered with a token.
RotateSession(q, k) ==
  LET s == request[q].session IN
  /\ request[q].step = "refresh"
  /\ k \notin issued
  /\ issued' = issued \cup {k}
  /\ token' = IF s \in rows THEN [token EXCEPT ![s] = k] ELSE token
  /\ expired' = expired \ {s}
  /\ revoked' = revoked \ {s}
  /\ End(q)
  /\ UNCHANGED <<account, rows, owner>>

-----------------------------------------------------------------------------
(* Logout. *)

\* u is the user of the access token, which says nothing of the row.
OwnedBy(s, u) == owner[s] = u

BeginLogout(q, u, s) ==
  /\ account[u] # "none"
  /\ s \in rows
  /\ s \notin revoked
  /\ OwnedBy(s, u)
  /\ Begin(q, [step |-> "logout", user |-> u, session |-> s])
  /\ UNCHANGED <<account, table, ends, issued>>

\* UPDATE ... WHERE id: without the row nothing is written, and the logout is
\* answered with success all the same.  Mutation: the row is made again.
Upserted(s) == {s}
Updated(s) == {s} \cap rows

RevokeSession(q) ==
  LET s == request[q].session IN
  /\ request[q].step = "logout"
  /\ revoked' = revoked \cup Updated(s)
  /\ End(q)
  /\ UNCHANGED <<account, table, expired, issued>>

-----------------------------------------------------------------------------

\* REFRESH_TOKEN_TTL passes.
Expire(s) ==
  /\ s \in rows \ expired
  /\ expired' = expired \cup {s}
  /\ UNCHANGED <<account, table, revoked, issued, request>>

SessionsOf(u) == {s \in rows : owner[s] = u}

\* DeleteProfile, DeleteOrganizerAdmin: sessions go by ON DELETE CASCADE.
DeleteUser(u) ==
  /\ account[u] = "active"
  /\ account' = [account EXCEPT ![u] = "deleted"]
  /\ rows' = rows \ SessionsOf(u)
  /\ revoked' = revoked \ SessionsOf(u)
  /\ expired' = expired \ SessionsOf(u)
  /\ UNCHANGED <<owner, token, issued, request>>

\* A statement fails, the client is gone, the server stops.
Fail(q) ==
  /\ request[q] # Idle
  /\ End(q)
  /\ UNCHANGED <<account, table, ends, issued>>

-----------------------------------------------------------------------------
Init ==
  /\ account = [u \in Users |-> "none"]
  /\ rows = {}
  /\ owner = [s \in Sessions |-> NoUser]
  /\ token = [s \in Sessions |-> NoToken]
  /\ revoked = {}
  /\ expired = {}
  /\ issued = {}
  /\ request = [q \in Requests |-> Idle]

LoginWithFirebase(q) ==
  \/ \E u \in Users : Register(q, u) \/ BeginLogin(q, u)
  \/ \E s \in Sessions, k \in Tokens : CreateSession(q, s, k)

RefreshSession(q) ==
  \/ \E s \in Sessions : BeginRefresh(q, s)
  \/ \E k \in Tokens : RotateSession(q, k)

Logout(q) ==
  \/ \E u \in Users, s \in Sessions : BeginLogout(q, u, s)
  \/ RevokeSession(q)

Next ==
  \/ \E q \in Requests : LoginWithFirebase(q) \/ RefreshSession(q) \/ Logout(q) \/ Fail(q)
  \/ \E s \in Sessions : Expire(s)
  \/ \E u \in Users : DeleteUser(u)

Spec == Init /\ [][Next]_vars

-----------------------------------------------------------------------------
(* Properties. *)

\* The types of the variables; a session's refresh token was handed out, and is
\* no other session's.
TypeOK ==
  /\ account \in [Users -> {"none", "active", "deleted"}]
  /\ rows \in SUBSET Sessions
  /\ owner \in [Sessions -> Users \cup {NoUser}]
  /\ token \in [Sessions -> Tokens \cup {NoToken}]
  /\ revoked \in SUBSET rows
  /\ expired \in SUBSET rows
  /\ issued \in SUBSET Tokens
  /\ \A s \in rows : token[s] \in issued
  /\ \A s, x \in rows : token[s] = token[x] => s = x
  /\ request \in [Requests -> Request]

\* Deleting an account ends every session of it, also one that a login or a
\* refresh under way was about to write: nobody refreshes their way back into a
\* deleted account.
SessionsHaveAccounts ==
  \A s \in rows : owner[s] \in Users /\ account[owner[s]] = "active"

Ended(s) == s \in revoked \cup expired

Refreshing(s) ==
  \E q \in Requests : request[q].step = "refresh" /\ request[q].session = s

\* Once a session is revoked or has expired and no refresh is past its check, it
\* is over: no request that starts later brings it back.
EndedSessionsStayEnded ==
  [][\A s \in rows :
       Ended(s) /\ ~Refreshing(s) /\ s \in rows' => Ended(s)' /\ ~Refreshing(s)']_vars

\* A session is revoked only for its owner: at the step that revokes it, the
\* request that does is a logout of the user the session belongs to.
OnlyOwnersLogOut ==
  [][\A s \in revoked' \ revoked :
       \E q \in Requests :
         /\ request[q].step = "logout" /\ request[q].session = s
         /\ request[q].user = owner[s]
         /\ request'[q] = Idle]_vars
=============================================================================
