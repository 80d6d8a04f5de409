------------------------------- MODULE Accounts -------------------------------
(***************************************************************************)
(* Users in two places: a row in users and an account at Firebase, tied by *)
(* users.firebase_uid and by the e-mail address                            *)
(* (internal/auth/service.go LoginWithFirebase, internal/users/service.go, *)
(* internal/admins/service.go, internal/platform/firebase/firebase.go).    *)
(*                                                                         *)
(* No call joins the two: each reads one, then the other, then writes, one *)
(* statement or one Firebase call at a time, and each of these is a step.  *)
(* Any of them may fail, and the server may stop.  The e-mail address and  *)
(* the UID of the rows are UNIQUE; Firebase keeps an address unique among  *)
(* its accounts.  Ids and UIDs are never used again.                       *)
(***************************************************************************)
CONSTANTS
  Users,      \* users.id
  Uids,       \* Firebase UIDs
  Emails,     \* addresses, trimmed and in lower case
  Requests,   \* calls the server handles at the same time
  NoUser,     \* the row of a call that has found none
  NoUid,      \* firebase_uid IS NULL
  NoEmail     \* the address of a row or an account that does not exist

ASSUME NoUserAssumption == NoUser \notin Users
ASSUME NoUidAssumption == NoUid \notin Uids
ASSUME NoEmailAssumption == NoEmail \notin Emails

VARIABLES
  rows,       \* the users that have a row
  email,      \* users.email, of the rows that are and that were
  uid,        \* users.firebase_uid
  accounts,   \* the accounts Firebase has
  mail,       \* their addresses, also of accounts that are gone
  request,    \* what each call has read, and its next step
  disturbed,  \* history: calls overlapped, one failed, or a token outlived its account
  renamed     \* history: a row was given another address

users    == <<rows, email, uid>>
firebase == <<accounts, mail>>
history  == <<disturbed, renamed>>
vars     == <<users, firebase, request, history>>

Idle ==
  [step |-> "idle", user |-> NoUser, uid |-> NoUid, email |-> NoEmail, created |-> FALSE]

Steps ==
  {"idle", "find", "link", "create", "rename", "erase", "delete",
   "provision", "insert", "reread", "cleanup"}

Request ==
  [step : Steps, user : Users \cup {NoUser}, uid : Uids \cup {NoUid},
   email : Emails \cup {NoEmail}, created : BOOLEAN]

Overlaps(q) == \E p \in Requests \ {q} : request[p] # Idle

Go(q, r) ==
  /\ request' = [request EXCEPT ![q] = r]
  /\ disturbed' = (disturbed \/ Overlaps(q))

Step(q, step) == Go(q, [request[q] EXCEPT !.step = step])
End(q) == Go(q, Idle)

-----------------------------------------------------------------------------
\* UNIQUE (email), UNIQUE (firebase_uid).  Mutation: the address is only looked
\* up beforehand.
AnyEmail(e, u) == TRUE
EmailIsFree(e, u) == \A w \in rows \ {u} : email[w] # e
UidIsFree(f, u) == f = NoUid \/ \A w \in rows \ {u} : uid[w] # f

Insert(u, e, f) ==
  /\ email[u] = NoEmail
  /\ EmailIsFree(e, u)
  /\ UidIsFree(f, u)
  /\ rows' = rows \cup {u}
  /\ email' = [email EXCEPT ![u] = e]
  /\ uid' = [uid EXCEPT ![u] = f]

Refused(e, f) == ~EmailIsFree(e, NoUser) \/ ~UidIsFree(f, NoUser)

\* Firebase.
NewAccount(f, e) ==
  /\ mail[f] = NoEmail
  /\ \A g \in accounts : mail[g] # e
  /\ accounts' = accounts \cup {f}
  /\ mail' = [mail EXCEPT ![f] = e]

\* Somebody signs up with the Firebase SDK of the app.
SignUp(f, e) ==
  /\ NewAccount(f, e)
  /\ UNCHANGED <<users, request, history>>

-----------------------------------------------------------------------------
(* LoginWithFirebase. *)

\* The ID token says uid and address; it is good for an hour, also when the
\* account has been deleted since.
BeginLogin(q, f) ==
  /\ request[q] = Idle
  /\ mail[f] # NoEmail
  /\ request' = [request EXCEPT ![q] = [Idle EXCEPT !.step = "find", !.uid = f, !.email = mail[f]]]
  /\ disturbed' = (disturbed \/ Overlaps(q) \/ f \notin accounts)
  /\ UNCHANGED <<users, firebase, renamed>>

GetUserByEmail(q) ==
  /\ request[q].step = "find"
  /\ \/ \E u \in rows :
          /\ email[u] = request[q].email
          /\ IF uid[u] = request[q].uid
             THEN End(q)
             ELSE Go(q, [request[q] EXCEPT !.step = "link", !.user = u])
     \/ (\A u \in rows : email[u] # request[q].email) /\ Step(q, "create")
  /\ UNCHANGED <<users, firebase, renamed>>

\* CreateUser, or the UNIQUE key and "email already exists".
CreateUser(q) ==
  /\ request[q].step = "create"
  /\ \/ \E u \in Users : Insert(u, request[q].email, request[q].uid)
     \/ Refused(request[q].email, request[q].uid) /\ UNCHANGED users
  /\ End(q)
  /\ UNCHANGED <<firebase, renamed>>

\* UPDATE users SET firebase_uid WHERE id: an error if another row has the UID,
\* nothing if the row is gone.
UpdateUserFirebaseUID(q) ==
  LET u == request[q].user
      f == request[q].uid
  IN
  /\ request[q].step = "link"
  /\ uid' = IF u \in rows /\ UidIsFree(f, u) THEN [uid EXCEPT ![u] = f] ELSE uid
  /\ End(q)
  /\ UNCHANGED <<rows, email, firebase, renamed>>

-----------------------------------------------------------------------------
(* UpdateProfile looks the address up first, UpdateOrganizerAdmin does not.  *)
(* Firebase is told by neither.                                            *)

SetEmail(u, e) ==
  IF u \in rows /\ EmailIsFree(e, u)
  THEN email' = [email EXCEPT ![u] = e] /\ renamed' = (renamed \/ email[u] # e)
  ELSE UNCHANGED <<email, renamed>>

BeginUpdateProfile(q, u, e) ==
  /\ request[q] = Idle
  /\ u \in rows
  /\ \A w \in rows \ {u} : email[w] # e
  /\ Go(q, [Idle EXCEPT !.step = "rename", !.user = u, !.email = e])
  /\ UNCHANGED <<users, firebase, renamed>>

UpdateUserProfile(q) ==
  /\ request[q].step = "rename"
  /\ SetEmail(request[q].user, request[q].email)
  /\ End(q)
  /\ UNCHANGED <<rows, uid, firebase>>

UpdateOrganizerAdmin(q, u, e) ==
  /\ request[q] = Idle
  /\ SetEmail(u, e)
  /\ End(q)
  /\ UNCHANGED <<rows, uid, firebase>>

-----------------------------------------------------------------------------
(* DeleteProfile: the Firebase account first, then the row. *)

BeginDeleteProfile(q, u) ==
  /\ request[q] = Idle
  /\ u \in rows
  /\ Go(q, [Idle EXCEPT !.step = IF uid[u] = NoUid THEN "delete" ELSE "erase",
                        !.user = u, !.uid = uid[u]])
  /\ UNCHANGED <<users, firebase, renamed>>

\* An account that is gone already is no error.
DeleteFirebaseUser(q) ==
  /\ request[q].step = "erase"
  /\ accounts' = accounts \ {request[q].uid}
  /\ Step(q, "delete")
  /\ UNCHANGED <<users, mail, renamed>>

DeleteUserByID(q) ==
  /\ request[q].step = "delete"
  /\ rows' = rows \ {request[q].user}
  /\ End(q)
  /\ UNCHANGED <<email, uid, firebase, renamed>>

\* DeleteOrganizerAdmin, DeleteOrganizer: Firebase is not told.
DeleteRow(q, u) ==
  /\ request[q] = Idle
  /\ u \in rows
  /\ rows' = rows \ {u}
  /\ End(q)
  /\ UNCHANGED <<email, uid, firebase, renamed>>

-----------------------------------------------------------------------------
(* AddOrganizerAdmin and CreateOrganizerAdmin: the Firebase account first,   *)
(* then the row; the account is deleted again if there is no row.          *)

\* GetUserByEmail at Firebase.  A server that is not connected to Firebase makes a
\* row without UID, for the first login to fill in.
EnsureUser(q, e) ==
  /\ request[q] = Idle
  /\ \/ \E f \in accounts :
          mail[f] = e /\ Go(q, [Idle EXCEPT !.step = "insert", !.uid = f, !.email = e])
     \/ /\ \A f \in accounts : mail[f] # e
        /\ Go(q, [Idle EXCEPT !.step = "provision", !.email = e])
     \/ Go(q, [Idle EXCEPT !.step = "insert", !.email = e])
  /\ UNCHANGED <<users, firebase, renamed>>

\* CreateUser at Firebase; an error if somebody has the address by now.
Provision(q) ==
  /\ request[q].step = "provision"
  /\ \/ \E f \in Uids :
          /\ NewAccount(f, request[q].email)
          /\ Go(q, [request[q] EXCEPT !.step = "insert", !.uid = f, !.created = TRUE])
     \/ /\ \E f \in accounts : mail[f] = request[q].email
        /\ End(q)
        /\ UNCHANGED firebase
  /\ UNCHANGED <<users, renamed>>

\* Mutation: the account is deleted whoever made it.
CleansUpAlways(q) == TRUE
CleansUp(q) == request[q].created

GiveUp(q) == IF CleansUp(q) THEN Step(q, "cleanup") ELSE End(q)

\* The row, or ErrAdminEmailExists.
AddOrganizerAdmin(q) ==
  /\ request[q].step = "insert"
  /\ \/ \E u \in Users :
          /\ Insert(u, request[q].email, request[q].uid)
          /\ Go(q, [request[q] EXCEPT !.step = "reread", !.user = u])
     \/ /\ Refused(request[q].email, request[q].uid)
        /\ GiveUp(q)
        /\ UNCHANGED users
  /\ UNCHANGED <<firebase, renamed>>

\* The row is read again.  If that fails the account goes and the row stays.
GetOrganizerAdmin(q) ==
  /\ request[q].step = "reread"
  /\ IF request[q].user \in rows THEN End(q) ELSE GiveUp(q)
  /\ UNCHANGED <<users, firebase, renamed>>

Cleanup(q) ==
  /\ request[q].step = "cleanup"
  /\ accounts' = accounts \ {request[q].uid}
  /\ End(q)
  /\ UNCHANGED <<users, mail, renamed>>

\* A statement or a Firebase call fails: adding an admin is undone, any other
\* call ends where it is.
Error(q) ==
  /\ request[q] # Idle
  /\ request' = [request EXCEPT ![q] =
       IF @.step \in {"insert", "reread"} /\ CleansUp(q) THEN [@ EXCEPT !.step = "cleanup"] ELSE Idle]
  /\ disturbed' = TRUE
  /\ UNCHANGED <<users, firebase, renamed>>

\* The server stops: nothing is undone.
Crash(q) ==
  /\ request[q] # Idle
  /\ request' = [request EXCEPT ![q] = Idle]
  /\ disturbed' = TRUE
  /\ UNCHANGED <<users, firebase, renamed>>

-----------------------------------------------------------------------------
Init ==
  /\ rows = {}
  /\ email = [u \in Users |-> NoEmail]
  /\ uid = [u \in Users |-> NoUid]
  /\ accounts = {}
  /\ mail = [f \in Uids |-> NoEmail]
  /\ request = [q \in Requests |-> Idle]
  /\ disturbed = FALSE
  /\ renamed = FALSE

Login(q) ==
  \/ \E f \in Uids : BeginLogin(q, f)
  \/ GetUserByEmail(q)
  \/ CreateUser(q)
  \/ UpdateUserFirebaseUID(q)

Profile(q) ==
  \/ \E u \in Users : BeginDeleteProfile(q, u) \/ \E e \in Emails : BeginUpdateProfile(q, u, e)
  \/ UpdateUserProfile(q)
  \/ DeleteFirebaseUser(q)
  \/ DeleteUserByID(q)

Admin(q) ==
  \/ \E e \in Emails : EnsureUser(q, e)
  \/ Provision(q)
  \/ AddOrganizerAdmin(q)
  \/ GetOrganizerAdmin(q)
  \/ Cleanup(q)
  \/ \E u \in Users : DeleteRow(q, u) \/ \E e \in Emails : UpdateOrganizerAdmin(q, u, e)

Next ==
  \/ \E f \in Uids, e \in Emails : SignUp(f, e)
  \/ \E q \in Requests : Login(q) \/ Profile(q) \/ Admin(q) \/ Error(q) \/ Crash(q)

Spec == Init /\ [][Next]_vars

-----------------------------------------------------------------------------
(* Properties. *)

\* The types of the variables; one row to an address and one to a UID, however
\* many calls looked before they wrote.
TypeOK ==
  /\ rows \in SUBSET Users
  /\ email \in [Users -> Emails \cup {NoEmail}]
  /\ uid \in [Users -> Uids \cup {NoUid}]
  /\ accounts \in SUBSET Uids
  /\ mail \in [Uids -> Emails \cup {NoEmail}]
  /\ request \in [Requests -> Request]
  /\ disturbed \in BOOLEAN
  /\ renamed \in BOOLEAN
  /\ \A u, w \in rows : u # w =>
       email[u] # email[w] /\ (uid[u] # uid[w] \/ uid[u] = NoUid)

Quiet == \A q \in Requests : request[q] = Idle

\* As long as no call overlapped another and none failed, a row's Firebase account
\* exists: adding an admin never deletes an account it did not make, and deleting
\* a profile never leaves the row behind (admins/service.go:256, users/service.go:47).
AccountsBehindRows ==
  Quiet /\ ~disturbed => \A u \in rows : uid[u] # NoUid => uid[u] \in accounts

\* LoginWithFirebase would succeed for f: whichever row it finds can be given the
\* UID, and if it finds none the row it makes can have it.
CanLogIn(f) ==
  LET found == {u \in rows : email[u] = mail[f]}
      other(u) == \E w \in rows \ {u} : uid[w] = f
  IN IF found = {} THEN \A w \in rows : uid[w] # f ELSE \A u \in found : ~other(u)

\* As long as nobody's address was changed, everyone with a Firebase account can
\* log in, whatever calls overlapped, failed or were cut off, and whoever logs
\* in first (auth/service.go:66).  After a change it may be otherwise: Firebase
\* still has the old address, the login finds no row by it, and the new row may
\* not have the UID (users/repository.go:68).
EveryoneLogsIn == ~renamed => \A f \in accounts : CanLogIn(f)

=============================================================================
