---------------------------- MODULE AccountsProofs ----------------------------
(***************************************************************************)
(* The safety properties of Accounts, proved for any users, addresses,     *)
(* Firebase accounts and number of calls at the same time.                 *)
(***************************************************************************)
EXTENDS Accounts, TLAPS

\* What a call has read: the address it names, the UID that Firebase gave that
\* address, and the row it will link.
Knows(r) ==
  /\ r.step \in {"find", "link", "create", "rename", "provision", "insert"} => r.email \in Emails
  /\ r.step \in {"find", "link", "create", "insert"} /\ r.uid # NoUid => mail[r.uid] = r.email
  /\ r.step \in {"find", "link", "create"} => r.uid \in Uids
  /\ r.step = "link" => r.user \in Users /\ (renamed \/ email[r.user] = r.email)

\* A row has the address of its Firebase account, until somebody is given another.
Addressed ==
  /\ \A q \in Requests : Knows(request[q])
  /\ \A u \in rows :
       /\ email[u] \in Emails
       /\ uid[u] # NoUid => mail[uid[u]] # NoEmail /\ (renamed \/ email[u] = mail[uid[u]])

\* Addresses of accounts never change, those of rows only with renamed.
Steady ==
  /\ \A f \in Uids : mail[f] # NoEmail => mail'[f] = mail[f]
  /\ \A u \in Users : email[u] # NoEmail => email'[u] = email[u] \/ renamed'
  /\ renamed => renamed'

LEMMA KnowsStays ==
  ASSUME TypeOK, NEW r \in Request, Knows(r), Steady
  PROVE  Knows(r)'
<1>1. ASSUME r.step \in {"find", "link", "create", "insert"}, r.uid # NoUid
      PROVE  mail'[r.uid] = r.email
  BY <1>1, NoEmailAssumption DEF Knows, Steady, Request
<1>2. ASSUME r.step = "link" PROVE renamed' \/ email'[r.user] = r.email
  BY <1>2, NoEmailAssumption DEF Knows, Steady
<1> QED
  BY <1>1, <1>2 DEF Knows

\* A call goes on to r; the others know what they knew.
LEMMA CallStep ==
  ASSUME TypeOK, Addressed, NEW q \in Requests, NEW r \in Request,
         request' = [request EXCEPT ![q] = r], Knows(r)', Steady
  PROVE  request' \in [Requests -> Request] /\ \A p \in Requests : Knows(request[p])'
<1>1. \A p \in Requests : request'[p] = IF p = q THEN r ELSE request[p]
  BY DEF TypeOK
<1>2. ASSUME NEW p \in Requests PROVE Knows(request[p])'
  <2>1. CASE p = q
    BY <1>1, <2>1 DEF Knows
  <2>2. CASE p # q
    <3>1. PICK s \in Request : s = request[p] /\ Knows(s)
      BY DEF TypeOK, Addressed
    <3>2. Knows(s)'
      BY <3>1, KnowsStays
    <3> QED
      BY <1>1, <2>2, <3>1, <3>2 DEF Knows
  <2> QED
    BY <2>1, <2>2
<1> QED
  BY <1>2 DEF TypeOK

LEMMA IdleKnows == Idle \in Request /\ Idle.step = "idle" /\ Idle.created = FALSE /\ Knows(Idle)'
  BY DEF Idle, Request, Steps, Knows

\* A call that ends and leaves the rest as it is, but for rows that go.
LEMMA EndStep ==
  ASSUME TypeOK, Addressed, NEW q \in Requests, request' = [request EXCEPT ![q] = Idle],
         rows' \subseteq rows, accounts' \subseteq accounts, disturbed' \in BOOLEAN,
         UNCHANGED <<email, uid, mail, renamed>>
  PROVE  TypeOK' /\ Addressed'
<1>1. Steady
  BY DEF Steady
<1>2. request' \in [Requests -> Request] /\ \A p \in Requests : Knows(request[p])'
  BY <1>1, IdleKnows, CallStep
<1>3. TypeOK'
  BY <1>2 DEF TypeOK
<1>4. Addressed'
  BY <1>2 DEF Addressed
<1> QED
  BY <1>3, <1>4

\* A call that only goes on.
LEMMA ReadStep ==
  ASSUME TypeOK, Addressed, NEW q \in Requests, NEW r \in Request, Knows(r),
         request' = [request EXCEPT ![q] = r],
         accounts' \subseteq accounts, disturbed' \in BOOLEAN,
         UNCHANGED <<rows, email, uid, mail, renamed>>
  PROVE  TypeOK' /\ Addressed'
<1>1. Steady
  BY DEF Steady
<1>2. request' \in [Requests -> Request] /\ \A p \in Requests : Knows(request[p])'
  BY <1>1, KnowsStays, CallStep
<1>3. TypeOK'
  BY <1>2 DEF TypeOK
<1>4. Addressed'
  BY <1>2 DEF Addressed
<1> QED
  BY <1>3, <1>4

LEMMA LoginStep ==
  ASSUME TypeOK, Addressed, NEW q \in Requests, Login(q)
  PROVE  TypeOK' /\ Addressed'
<1>0. request[q] \in Request /\ Knows(request[q])
  BY DEF TypeOK, Addressed
<1>1. ASSUME NEW f \in Uids, BeginLogin(q, f) PROVE TypeOK' /\ Addressed'
  <2> DEFINE r == [Idle EXCEPT !.step = "find", !.uid = f, !.email = mail[f]]
  <2>1. r \in Request /\ Knows(r)
    BY <1>1 DEF BeginLogin, Idle, Request, Steps, Knows, TypeOK
  <2>2. request' = [request EXCEPT ![q] = r] /\ disturbed' \in BOOLEAN
        /\ UNCHANGED <<accounts, rows, email, uid, mail, renamed>>
    BY <1>1 DEF BeginLogin, users, firebase
  <2> HIDE DEF r
  <2> QED
    BY <2>1, <2>2, ReadStep
<1>2. CASE GetUserByEmail(q)
  <2>0. /\ UNCHANGED <<accounts, rows, email, uid, mail, renamed>> /\ disturbed' \in BOOLEAN
        /\ request[q].step = "find"
    BY <1>2 DEF GetUserByEmail, users, firebase, End, Go, Step
  <2>1. CASE End(q)
    BY <2>0, <2>1, EndStep DEF End, Go
  <2>2. ASSUME NEW u \in rows, email[u] = request[q].email,
               Go(q, [request[q] EXCEPT !.step = "link", !.user = u])
        PROVE  TypeOK' /\ Addressed'
    <3> DEFINE r == [request[q] EXCEPT !.step = "link", !.user = u]
    <3>1. r \in Request /\ Knows(r)
      BY <1>0, <2>0, <2>2 DEF Request, Steps, Knows, TypeOK
    <3>2. request' = [request EXCEPT ![q] = r]
      BY <2>2 DEF Go
    <3> HIDE DEF r
    <3> QED
      BY <2>0, <3>1, <3>2, ReadStep
  <2>3. CASE Step(q, "create")
    <3> DEFINE r == [request[q] EXCEPT !.step = "create"]
    <3>1. r \in Request /\ Knows(r)
      BY <1>0, <2>0 DEF Request, Steps, Knows
    <3>2. request' = [request EXCEPT ![q] = r]
      BY <2>3 DEF Go, Step
    <3> HIDE DEF r
    <3> QED
      BY <2>0, <3>1, <3>2, ReadStep
  <2> QED
    BY <1>2, <2>1, <2>2, <2>3 DEF GetUserByEmail
<1>3. CASE CreateUser(q)
  <2>1. /\ request' = [request EXCEPT ![q] = Idle] /\ disturbed' \in BOOLEAN
        /\ UNCHANGED <<accounts, mail, renamed>> /\ request[q].step = "create"
    BY <1>3 DEF CreateUser, End, Go, firebase
  <2>2. CASE UNCHANGED users
    BY <2>1, <2>2, EndStep DEF users
  <2>3. ASSUME NEW u \in Users, Insert(u, request[q].email, request[q].uid)
        PROVE  TypeOK' /\ Addressed'
    <3>1. Steady
      BY <2>1, <2>3 DEF Insert, Steady, TypeOK
    <3>2. request' \in [Requests -> Request] /\ \A p \in Requests : Knows(request[p])'
      BY <2>1, <3>1, IdleKnows, CallStep
    <3>3. request[q].email \in Emails /\ request[q].uid \in Uids /\ mail[request[q].uid] = request[q].email
      BY <1>0, <2>1, NoUidAssumption DEF Knows
    <3>4. TypeOK'
      BY <2>1, <2>3, <3>2, <3>3 DEF TypeOK, Insert, EmailIsFree, UidIsFree
    <3>5. Addressed'
      BY <2>1, <2>3, <3>2, <3>3, NoEmailAssumption DEF Addressed, Insert, TypeOK
    <3> QED
      BY <3>4, <3>5
  <2> QED
    BY <1>3, <2>2, <2>3 DEF CreateUser
<1>4. CASE UpdateUserFirebaseUID(q)
  <2> DEFINE u == request[q].user
             f == request[q].uid
  <2>1. /\ request' = [request EXCEPT ![q] = Idle] /\ disturbed' \in BOOLEAN
        /\ UNCHANGED <<accounts, rows, email, mail, renamed>> /\ request[q].step = "link"
        /\ uid' = IF u \in rows /\ UidIsFree(f, u) THEN [uid EXCEPT ![u] = f] ELSE uid
    BY <1>4 DEF UpdateUserFirebaseUID, End, Go, firebase
  <2>2. u \in Users /\ f \in Uids /\ mail[f] = request[q].email /\ mail[f] \in Emails
        /\ (renamed \/ email[u] = mail[f])
    BY <1>0, <2>1, NoUidAssumption DEF Knows
  <2>3. Steady
    BY <2>1 DEF Steady
  <2>4. request' \in [Requests -> Request] /\ \A p \in Requests : Knows(request[p])'
    BY <2>1, <2>3, IdleKnows, CallStep
  <2> HIDE DEF u, f
  <2>5. TypeOK'
    BY <2>1, <2>2, <2>4 DEF TypeOK, UidIsFree
  <2>6. Addressed'
    BY <2>1, <2>2, <2>4, NoEmailAssumption DEF Addressed, TypeOK
  <2> QED
    BY <2>5, <2>6
<1> QED
  BY <1>1, <1>2, <1>3, <1>4 DEF Login

\* Another address for a row: UNIQUE, and remembered.
LEMMA RenameStep ==
  ASSUME TypeOK, Addressed, NEW q \in Requests, NEW u, NEW e \in Emails, SetEmail(u, e),
         request' = [request EXCEPT ![q] = Idle], disturbed' \in BOOLEAN,
         UNCHANGED <<rows, uid, accounts, mail>>
  PROVE  TypeOK' /\ Addressed'
<1>1. CASE ~(u \in rows /\ EmailIsFree(e, u))
  BY <1>1, EndStep DEF SetEmail
<1>2. CASE u \in rows /\ EmailIsFree(e, u)
  <2>1. email' = [email EXCEPT ![u] = e] /\ renamed' = (renamed \/ email[u] # e) /\ u \in Users
    BY <1>2 DEF SetEmail, TypeOK
  <2>2. renamed' \in BOOLEAN /\ (renamed => renamed') /\ (~renamed' => email[u] = e)
    BY <2>1 DEF TypeOK
  <2>3. Steady
    BY <2>1, <2>2 DEF Steady, TypeOK
  <2>4. request' \in [Requests -> Request] /\ \A p \in Requests : Knows(request[p])'
    BY <2>3, IdleKnows, CallStep
  <2>5. TypeOK'
    BY <1>2, <2>1, <2>2, <2>4 DEF TypeOK, EmailIsFree
  <2>6. \A w \in rows : email'[w] \in Emails /\ (renamed' \/ email'[w] = email[w])
    BY <2>1, <2>2 DEF Addressed, TypeOK
  <2>7. Addressed'
    BY <2>2, <2>4, <2>6 DEF Addressed
  <2> QED
    BY <2>5, <2>7
<1> QED
  BY <1>1, <1>2

LEMMA ProfileStep ==
  ASSUME TypeOK, Addressed, NEW q \in Requests, Profile(q)
  PROVE  TypeOK' /\ Addressed'
<1>0. request[q] \in Request /\ Knows(request[q])
  BY DEF TypeOK, Addressed
<1>1. ASSUME NEW u \in Users, BeginDeleteProfile(q, u) PROVE TypeOK' /\ Addressed'
  <2> DEFINE r == [Idle EXCEPT !.step = IF uid[u] = NoUid THEN "delete" ELSE "erase",
                               !.user = u, !.uid = uid[u]]
  <2>1. r \in Request /\ Knows(r)
    BY DEF Idle, Request, Steps, Knows, TypeOK
  <2>2. request' = [request EXCEPT ![q] = r] /\ disturbed' \in BOOLEAN
        /\ UNCHANGED <<accounts, rows, email, uid, mail, renamed>>
    BY <1>1 DEF BeginDeleteProfile, users, firebase, Go
  <2> HIDE DEF r
  <2> QED
    BY <2>1, <2>2, ReadStep
<1>2. ASSUME NEW u \in Users, NEW e \in Emails, BeginUpdateProfile(q, u, e)
      PROVE  TypeOK' /\ Addressed'
  <2> DEFINE r == [Idle EXCEPT !.step = "rename", !.user = u, !.email = e]
  <2>1. r \in Request /\ Knows(r)
    BY DEF Idle, Request, Steps, Knows
  <2>2. request' = [request EXCEPT ![q] = r] /\ disturbed' \in BOOLEAN
        /\ UNCHANGED <<accounts, rows, email, uid, mail, renamed>>
    BY <1>2 DEF BeginUpdateProfile, users, firebase, Go
  <2> HIDE DEF r
  <2> QED
    BY <2>1, <2>2, ReadStep
<1>3. CASE UpdateUserProfile(q)
  <2>1. request[q].email \in Emails
    BY <1>0, <1>3 DEF UpdateUserProfile, Knows
  <2> QED
    BY <1>3, <2>1, RenameStep DEF UpdateUserProfile, End, Go, firebase
<1>4. CASE DeleteFirebaseUser(q)
  <2> DEFINE r == [request[q] EXCEPT !.step = "delete"]
  <2>1. r \in Request /\ Knows(r)
    BY <1>0 DEF Request, Steps, Knows
  <2>2. request' = [request EXCEPT ![q] = r] /\ disturbed' \in BOOLEAN
        /\ accounts' \subseteq accounts /\ UNCHANGED <<rows, email, uid, mail, renamed>>
    BY <1>4 DEF DeleteFirebaseUser, users, Go, Step
  <2> HIDE DEF r
  <2> QED
    BY <2>1, <2>2, ReadStep
<1>5. CASE DeleteUserByID(q)
  BY <1>5, EndStep DEF DeleteUserByID, End, Go, firebase
<1> QED
  BY <1>1, <1>2, <1>3, <1>4, <1>5 DEF Profile

LEMMA AdminStep ==
  ASSUME TypeOK, Addressed, NEW q \in Requests, Admin(q)
  PROVE  TypeOK' /\ Addressed'
<1>0. request[q] \in Request /\ Knows(request[q])
  BY DEF TypeOK, Addressed
<1>a. ASSUME GiveUp(q), UNCHANGED <<users, firebase, renamed>> PROVE TypeOK' /\ Addressed'
  <2>1. CASE End(q)
    BY <1>a, <2>1, EndStep DEF End, Go, users, firebase
  <2>2. CASE Step(q, "cleanup")
    <3> DEFINE r == [request[q] EXCEPT !.step = "cleanup"]
    <3>1. r \in Request /\ Knows(r)
      BY <1>0 DEF Request, Steps, Knows
    <3>2. request' = [request EXCEPT ![q] = r] /\ disturbed' \in BOOLEAN
          /\ UNCHANGED <<accounts, rows, email, uid, mail, renamed>>
      BY <1>a, <2>2 DEF users, firebase, Go, Step
    <3> HIDE DEF r
    <3> QED
      BY <3>1, <3>2, ReadStep
  <2> QED
    BY <1>a, <2>1, <2>2 DEF GiveUp
<1>1. ASSUME NEW e \in Emails, EnsureUser(q, e) PROVE TypeOK' /\ Addressed'
  <2>0. UNCHANGED <<accounts, rows, email, uid, mail, renamed>>
    BY <1>1 DEF EnsureUser, users, firebase
  <2>1. PICK r \in Request : Knows(r) /\ Go(q, r)
    <3>1. ASSUME NEW f \in accounts, mail[f] = e
          PROVE  LET r == [Idle EXCEPT !.step = "insert", !.uid = f, !.email = e]
                 IN  r \in Request /\ Knows(r)
      BY <3>1 DEF Idle, Request, Steps, Knows, TypeOK
    <3>2. LET r == [Idle EXCEPT !.step = "provision", !.email = e] IN r \in Request /\ Knows(r)
      BY DEF Idle, Request, Steps, Knows
    <3>3. LET r == [Idle EXCEPT !.step = "insert", !.email = e] IN r \in Request /\ Knows(r)
      BY DEF Idle, Request, Steps, Knows
    <3> QED
      BY <1>1, <3>1, <3>2, <3>3 DEF EnsureUser
  <2> QED
    BY <2>0, <2>1, ReadStep DEF Go
<1>2. CASE Provision(q)
  <2>1. CASE End(q) /\ UNCHANGED firebase
    BY <1>2, <2>1, EndStep DEF Provision, End, Go, users, firebase
  <2>2. ASSUME NEW f \in Uids, NewAccount(f, request[q].email),
               Go(q, [request[q] EXCEPT !.step = "insert", !.uid = f, !.created = TRUE])
        PROVE  TypeOK' /\ Addressed'
    <3>0. PICK r \in Request : r = [request[q] EXCEPT !.step = "insert", !.uid = f, !.created = TRUE]
      BY <1>0 DEF Request, Steps
    <3>1. /\ request' = [request EXCEPT ![q] = r] /\ disturbed' \in BOOLEAN
          /\ UNCHANGED <<rows, email, uid, renamed>>
          /\ request[q].email \in Emails
      BY <1>0, <1>2, <2>2, <3>0 DEF Provision, users, Go, Knows
    <3>2. mail' = [mail EXCEPT ![f] = request[q].email] /\ mail[f] = NoEmail
          /\ accounts' = accounts \cup {f}
      BY <2>2 DEF NewAccount
    <3>3. Knows(r)'
      BY <1>0, <3>0, <3>1, <3>2 DEF Request, Knows, TypeOK
    <3>4. Steady
      BY <3>1, <3>2 DEF Steady, TypeOK
    <3>5. request' \in [Requests -> Request] /\ \A p \in Requests : Knows(request[p])'
      BY <3>1, <3>3, <3>4, CallStep
    <3>6. TypeOK'
      BY <3>1, <3>2, <3>5 DEF TypeOK
    <3>7. Addressed'
      BY <3>1, <3>2, <3>5 DEF Addressed, TypeOK
    <3> QED
      BY <3>6, <3>7
  <2> QED
    BY <1>2, <2>1, <2>2 DEF Provision
<1>3. CASE AddOrganizerAdmin(q)
  <2>1. CASE GiveUp(q) /\ UNCHANGED users
    BY <1>3, <2>1, <1>a DEF AddOrganizerAdmin
  <2>2. ASSUME NEW u \in Users, Insert(u, request[q].email, request[q].uid),
               Go(q, [request[q] EXCEPT !.step = "reread", !.user = u])
        PROVE  TypeOK' /\ Addressed'
    <3> DEFINE e == request[q].email
               f == request[q].uid
    <3>0. PICK r \in Request : r = [request[q] EXCEPT !.step = "reread", !.user = u]
      BY <1>0 DEF Request, Steps
    <3>1. /\ request' = [request EXCEPT ![q] = r] /\ disturbed' \in BOOLEAN
          /\ UNCHANGED <<accounts, mail, renamed>>
          /\ e \in Emails /\ f \in Uids \cup {NoUid} /\ (f # NoUid => mail[f] = e)
      BY <1>0, <1>3, <2>2, <3>0 DEF AddOrganizerAdmin, firebase, Go, Knows, Request
    <3>2. Knows(r)'
      BY <1>0, <3>0 DEF Request, Knows
    <3>3. Steady
      BY <2>2, <3>1 DEF Insert, Steady, TypeOK
    <3>4. request' \in [Requests -> Request] /\ \A p \in Requests : Knows(request[p])'
      BY <3>1, <3>2, <3>3, CallStep
    <3>5. /\ email[u] = NoEmail /\ EmailIsFree(e, u) /\ UidIsFree(f, u)
          /\ rows' = rows \cup {u}
          /\ email' = [email EXCEPT ![u] = e]
          /\ uid' = [uid EXCEPT ![u] = f]
      BY <2>2 DEF Insert
    <3> HIDE DEF e, f
    <3>6. TypeOK'
      BY <3>1, <3>4, <3>5 DEF TypeOK, EmailIsFree, UidIsFree
    <3>7. Addressed'
      BY <3>1, <3>4, <3>5, NoEmailAssumption DEF Addressed, TypeOK
    <3> QED
      BY <3>6, <3>7
  <2> QED
    BY <1>3, <2>1, <2>2 DEF AddOrganizerAdmin
<1>4. CASE GetOrganizerAdmin(q)
  BY <1>4, <1>a, EndStep DEF GetOrganizerAdmin, End, Go, users, firebase
<1>5. CASE Cleanup(q)
  BY <1>5, EndStep DEF Cleanup, End, Go, users
<1>6. ASSUME NEW u \in Users, DeleteRow(q, u) PROVE TypeOK' /\ Addressed'
  BY <1>6, EndStep DEF DeleteRow, End, Go, firebase
<1>7. ASSUME NEW u \in Users, NEW e \in Emails, UpdateOrganizerAdmin(q, u, e)
      PROVE  TypeOK' /\ Addressed'
  BY <1>7, RenameStep DEF UpdateOrganizerAdmin, End, Go, firebase
<1> QED
  BY <1>1, <1>2, <1>3, <1>4, <1>5, <1>6, <1>7 DEF Admin

LEMMA SignUpStep ==
  ASSUME TypeOK, Addressed, NEW f \in Uids, NEW e \in Emails, SignUp(f, e)
  PROVE  TypeOK' /\ Addressed'
<1>1. /\ mail[f] = NoEmail /\ mail' = [mail EXCEPT ![f] = e] /\ accounts' = accounts \cup {f}
      /\ UNCHANGED <<rows, email, uid, request, disturbed, renamed>>
  BY DEF SignUp, NewAccount, users, history
<1>2. Steady
  BY <1>1 DEF Steady, TypeOK
<1>3. ASSUME NEW p \in Requests PROVE Knows(request[p])'
  <2>1. PICK s \in Request : s = request[p] /\ Knows(s)
    BY DEF TypeOK, Addressed
  <2>2. Knows(s)'
    BY <1>2, <2>1, KnowsStays
  <2> QED
    BY <1>1, <2>1, <2>2 DEF Knows
<1>4. TypeOK'
  BY <1>1 DEF TypeOK
<1>5. Addressed'
  BY <1>1, <1>3 DEF Addressed, TypeOK
<1> QED
  BY <1>4, <1>5

LEMMA FailureStep ==
  ASSUME TypeOK, Addressed, NEW q \in Requests, Error(q) \/ Crash(q)
  PROVE  TypeOK' /\ Addressed'
<1>1. UNCHANGED <<rows, email, uid, accounts, mail, renamed>> /\ disturbed' \in BOOLEAN
  BY DEF Error, Crash, users, firebase
<1>2. CASE request' = [request EXCEPT ![q] = Idle]
  BY <1>1, <1>2, EndStep
<1>3. CASE request' = [request EXCEPT ![q] = [request[q] EXCEPT !.step = "cleanup"]]
  <2> DEFINE r == [request[q] EXCEPT !.step = "cleanup"]
  <2>1. r \in Request /\ Knows(r)
    BY DEF Request, Steps, Knows, TypeOK
  <2> HIDE DEF r
  <2> QED
    BY <1>1, <1>3, <2>1, ReadStep DEF r
<1>4. CASE Error(q) /\ request[q].step \in {"insert", "reread"} /\ CleansUp(q)
  <2>1. request' = [request EXCEPT ![q] = [request[q] EXCEPT !.step = "cleanup"]]
    BY <1>4 DEF Error
  <2> QED
    BY <1>3, <2>1
<1>5. CASE Error(q) /\ ~(request[q].step \in {"insert", "reread"} /\ CleansUp(q))
  <2>1. request' = [request EXCEPT ![q] = Idle]
    BY <1>5 DEF Error
  <2> QED
    BY <1>2, <2>1
<1> QED
  <2>1. CASE Crash(q)
    BY <1>2, <2>1 DEF Crash
  <2> QED
    BY <1>4, <1>5, <2>1

LEMMA AddressedAlways == Spec => [](TypeOK /\ Addressed)
<1>1. Init => TypeOK /\ Addressed
  <2>1. Idle \in Request /\ Knows(Idle)
    BY DEF Idle, Request, Steps, Knows
  <2> QED
    BY <2>1 DEF Init, TypeOK, Addressed, Knows
<1>2. TypeOK /\ Addressed /\ [Next]_vars => (TypeOK /\ Addressed)'
  <2>1. TypeOK /\ Addressed /\ UNCHANGED vars => (TypeOK /\ Addressed)'
    BY DEF TypeOK, Addressed, Knows, vars, users, firebase, history
  <2> QED
    BY <2>1, LoginStep, ProfileStep, AdminStep, SignUpStep, FailureStep DEF Next
<1> QED
  BY <1>1, <1>2, PTL DEF Spec

\* However the calls interleave, an address and a UID belong to one row each.
THEOREM RowsAreUnique == Spec => []TypeOK
  BY AddressedAlways, PTL

\* Until somebody's address is changed, everyone with an account can log in.
\* The row that has an account's UID has its address too, so the login finds it.
THEOREM LoginSucceeds == Spec => []EveryoneLogsIn
<1>1. TypeOK /\ Addressed => EveryoneLogsIn
  <2> SUFFICES ASSUME TypeOK, Addressed, ~renamed, NEW f \in accounts PROVE CanLogIn(f)
    BY DEF EveryoneLogsIn
  <2>1. \A w \in rows : uid[w] = f => email[w] = mail[f]
    BY NoUidAssumption DEF Addressed, TypeOK
  <2> QED
    BY <2>1 DEF CanLogIn, TypeOK
<1> QED
  BY <1>1, AddressedAlways, PTL

-----------------------------------------------------------------------------
\* What a call that is alone, and has not failed, can rely on: an account it has
\* read exists, one that it made has no row yet, and the row it read is there.
Sees(r) ==
  /\ r.step \in {"find", "link", "create", "insert", "reread"} /\ r.uid # NoUid =>
       r.uid \in accounts
  /\ r.created /\ r.step \in {"insert", "cleanup"} => \A u \in rows : uid[u] # r.uid
  /\ r.step = "cleanup" => r.created
  /\ r.step = "provision" => ~r.created
  /\ r.step = "reread" => r.user \in rows
  /\ r.step = "erase" => r.user \in rows /\ uid[r.user] = r.uid

\* The rows have their accounts, but for one that is about to go.
Backed(r) ==
  \A u \in rows :
    uid[u] # NoUid => uid[u] \in accounts \/ (r.step = "delete" /\ r.user = u)

Undisturbed ==
  ~disturbed =>
    /\ \A p, q \in Requests : p # q => request[p] = Idle \/ request[q] = Idle
    /\ \A q \in Requests : Sees(request[q])
    /\ \A q \in Requests : (\A p \in Requests \ {q} : request[p] = Idle) => Backed(request[q])
    /\ Quiet => Backed(Idle)

\* A call goes on to r, and whatever it overlaps is remembered.
Turn(q, r) ==
  /\ request' = [request EXCEPT ![q] = r]
  /\ ~disturbed' => ~disturbed /\ ~Overlaps(q)

LEMMA Alone ==
  ASSUME TypeOK, Undisturbed, NEW q \in Requests, ~disturbed, ~Overlaps(q)
  PROVE  /\ \A p \in Requests \ {q} : request[p] = Idle
         /\ request[q] \in Request
         /\ Sees(request[q])
         /\ Backed(request[q])
  BY DEF Undisturbed, Overlaps, TypeOK

LEMMA TurnStep ==
  ASSUME TypeOK, Undisturbed, NEW q \in Requests, NEW r \in Request, Turn(q, r),
         ~disturbed' => Sees(r)' /\ Backed(r)'
  PROVE  Undisturbed'
<1> SUFFICES ASSUME ~disturbed' PROVE Undisturbed'
  BY DEF Undisturbed
<1>1. ~disturbed /\ ~Overlaps(q)
  BY DEF Turn
<1>2. \A p \in Requests : request'[p] = IF p = q THEN r ELSE Idle
  BY <1>1 DEF Turn, Overlaps, TypeOK
<1>3. Sees(Idle)'
  BY DEF Sees, Idle
<1>4. \A p \in Requests : Sees(request[p])'
  BY <1>2, <1>3 DEF Sees
<1>6. \A p \in Requests : (\A o \in Requests \ {p} : request'[o] = Idle) => Backed(request[p])'
  BY <1>2 DEF Backed, Idle
<1>7. Quiet' => Backed(Idle)'
  BY <1>2 DEF Quiet, Backed
<1> QED
  BY <1>2, <1>4, <1>6, <1>7 DEF Undisturbed

LEMMA EndTurn ==
  ASSUME TypeOK, Undisturbed, NEW q \in Requests, Turn(q, Idle), ~disturbed' => Backed(Idle)'
  PROVE  Undisturbed'
<1>1. Sees(Idle)'
  BY DEF Sees, Idle
<1> QED
  BY <1>1, IdleKnows, TurnStep

LEMMA LoginAlone ==
  ASSUME TypeOK, Undisturbed, NEW q \in Requests, Login(q)
  PROVE  Undisturbed'
<1>1. ASSUME NEW f \in Uids, BeginLogin(q, f) PROVE Undisturbed'
  <2> DEFINE r == [Idle EXCEPT !.step = "find", !.uid = f, !.email = mail[f]]
  <2>0. r \in Request
    BY DEF Idle, Request, Steps, TypeOK
  <2>1. Turn(q, r) /\ UNCHANGED <<rows, uid, accounts>> /\ (~disturbed' => f \in accounts)
        /\ request[q] = Idle
    BY <1>1 DEF BeginLogin, Turn, users, firebase
  <2>2. PICK s \in Request : s = r
    BY <2>0
  <2>3. ASSUME ~disturbed' PROVE Sees(s)' /\ Backed(s)'
    <3>1. Backed(Idle)
      BY <2>1, <2>3, Alone DEF Turn
    <3> QED
      BY <2>1, <2>2, <2>3, <3>1 DEF Sees, Backed, Idle
  <2> QED
    BY <2>1, <2>2, <2>3, TurnStep
<1>2. CASE GetUserByEmail(q)
  <2>0. /\ UNCHANGED <<rows, uid, accounts>> /\ request[q].step = "find"
        /\ request[q] \in Request
    BY <1>2 DEF GetUserByEmail, users, firebase, TypeOK
  <2>1. CASE End(q)
    <3>1. Turn(q, Idle)
      BY <2>1 DEF End, Go, Turn, TypeOK
    <3>2. ~disturbed' => Backed(Idle)'
      BY <2>0, <3>1, Alone DEF Turn, Backed
    <3> QED
      BY <3>1, <3>2, EndTurn
  <2>2. ASSUME NEW s \in Request, Go(q, s), s.step \in {"link", "create"},
               s.uid = request[q].uid, s.created = request[q].created
        PROVE  Undisturbed'
    <3>1. Turn(q, s)
      BY <2>2 DEF Go, Turn, TypeOK
    <3>2. ~disturbed' => Sees(s)' /\ Backed(s)'
      BY <2>0, <2>2, <3>1, Alone DEF Turn, Backed, Sees
    <3> QED
      BY <3>1, <3>2, TurnStep
  <2>3. ASSUME NEW u \in rows, Go(q, [request[q] EXCEPT !.step = "link", !.user = u])
        PROVE  Undisturbed'
    <3>1. PICK s \in Request : s = [request[q] EXCEPT !.step = "link", !.user = u]
      BY <2>0 DEF Request, Steps, TypeOK
    <3>2. s.step = "link" /\ s.uid = request[q].uid /\ s.created = request[q].created
      BY <2>0, <3>1 DEF Request
    <3> QED
      BY <2>2, <2>3, <3>1, <3>2
  <2>4. CASE Step(q, "create")
    <3>1. PICK s \in Request : s = [request[q] EXCEPT !.step = "create"]
      BY <2>0 DEF Request, Steps
    <3>2. s.step = "create" /\ s.uid = request[q].uid /\ s.created = request[q].created
      BY <2>0, <3>1 DEF Request
    <3> QED
      BY <2>2, <2>4, <3>1, <3>2 DEF Step
  <2> QED
    BY <1>2, <2>1, <2>3, <2>4 DEF GetUserByEmail
<1>3. CASE CreateUser(q) \/ UpdateUserFirebaseUID(q)
  <2>1. Turn(q, Idle) /\ UNCHANGED accounts /\ request[q].step \in {"create", "link"}
    BY <1>3 DEF CreateUser, UpdateUserFirebaseUID, End, Go, Turn, firebase, TypeOK
  <2>2. \A u \in rows' : uid'[u] = request[q].uid \/ (u \in rows /\ uid'[u] = uid[u])
    BY <1>3 DEF CreateUser, UpdateUserFirebaseUID, Insert, users, TypeOK
  <2>3. ~disturbed' => Backed(Idle)'
    BY <2>1, <2>2, Alone DEF Turn, Backed, Sees
  <2> QED
    BY <2>1, <2>3, EndTurn
<1> QED
  BY <1>1, <1>2, <1>3 DEF Login

LEMMA ProfileAlone ==
  ASSUME TypeOK, Undisturbed, NEW q \in Requests, Profile(q)
  PROVE  Undisturbed'
<1>1. ASSUME NEW u \in Users, BeginDeleteProfile(q, u) PROVE Undisturbed'
  <2>1. PICK s \in Request :
          s = [Idle EXCEPT !.step = IF uid[u] = NoUid THEN "delete" ELSE "erase",
                           !.user = u, !.uid = uid[u]]
    BY DEF Idle, Request, Steps, TypeOK
  <2>2. Turn(q, s) /\ UNCHANGED <<rows, uid, accounts>> /\ u \in rows /\ request[q] = Idle
    BY <1>1, <2>1 DEF BeginDeleteProfile, Go, Turn, users, firebase, TypeOK
  <2>3. ASSUME ~disturbed' PROVE Sees(s)' /\ Backed(s)'
    <3>1. Backed(Idle)
      BY <2>2, <2>3, Alone DEF Turn
    <3> QED
      BY <2>1, <2>2, <3>1 DEF Sees, Backed, Idle
  <2> QED
    BY <2>2, <2>3, TurnStep
<1>2. ASSUME NEW u \in Users, NEW e \in Emails, BeginUpdateProfile(q, u, e)
      PROVE  Undisturbed'
  <2>1. PICK s \in Request : s = [Idle EXCEPT !.step = "rename", !.user = u, !.email = e]
    BY DEF Idle, Request, Steps
  <2>2. Turn(q, s) /\ UNCHANGED <<rows, uid, accounts>> /\ request[q] = Idle
    BY <1>2, <2>1 DEF BeginUpdateProfile, Go, Turn, users, firebase, TypeOK
  <2>3. ASSUME ~disturbed' PROVE Sees(s)' /\ Backed(s)'
    <3>1. Backed(Idle)
      BY <2>2, <2>3, Alone DEF Turn
    <3> QED
      BY <2>1, <2>2, <3>1 DEF Sees, Backed, Idle
  <2> QED
    BY <2>2, <2>3, TurnStep
<1>3. CASE UpdateUserProfile(q)
  <2>1. Turn(q, Idle) /\ UNCHANGED <<rows, uid, accounts>> /\ request[q].step = "rename"
    BY <1>3 DEF UpdateUserProfile, End, Go, Turn, firebase, TypeOK
  <2>2. ~disturbed' => Backed(Idle)'
    BY <2>1, Alone DEF Turn, Backed
  <2> QED
    BY <2>1, <2>2, EndTurn
<1>4. CASE DeleteFirebaseUser(q)
  <2>0. request[q] \in Request
    BY DEF TypeOK
  <2>1. PICK s \in Request : s = [request[q] EXCEPT !.step = "delete"]
    BY <2>0 DEF Request, Steps
  <2>2. /\ Turn(q, s) /\ UNCHANGED <<rows, uid>> /\ request[q].step = "erase"
        /\ accounts' = accounts \ {request[q].uid}
    BY <1>4, <2>1 DEF DeleteFirebaseUser, Step, Go, Turn, users, TypeOK
  <2>3. s.step = "delete" /\ s.user = request[q].user
    BY <2>0, <2>1 DEF Request
  <2>4. ASSUME ~disturbed' PROVE Sees(s)' /\ Backed(s)'
    <3>1. Backed(request[q]) /\ Sees(request[q])
      BY <2>2, <2>4, Alone DEF Turn
    <3>2. \A u \in rows : u # request[q].user => uid[u] # request[q].uid \/ uid[u] = NoUid
      BY <2>2, <3>1 DEF Sees, TypeOK
    <3> QED
      BY <2>2, <2>3, <3>1, <3>2 DEF Sees, Backed
  <2> QED
    BY <2>2, <2>4, TurnStep
<1>5. CASE DeleteUserByID(q)
  <2>1. /\ Turn(q, Idle) /\ UNCHANGED <<uid, accounts>> /\ request[q].step = "delete"
        /\ rows' = rows \ {request[q].user}
    BY <1>5 DEF DeleteUserByID, End, Go, Turn, firebase, TypeOK
  <2>2. ~disturbed' => Backed(Idle)'
    BY <2>1, Alone DEF Turn, Backed
  <2> QED
    BY <2>1, <2>2, EndTurn
<1> QED
  BY <1>1, <1>2, <1>3, <1>4, <1>5 DEF Profile

LEMMA AdminAlone ==
  ASSUME TypeOK, Addressed, Undisturbed, NEW q \in Requests, Admin(q)
  PROVE  Undisturbed'
<1>0. request[q] \in Request
  BY DEF TypeOK
\* A call that ends, from any step at which it has no row on its way out.
<1>a. ASSUME End(q), UNCHANGED <<rows, uid, accounts>>, request[q].step # "delete"
      PROVE  Undisturbed'
  <2>1. Turn(q, Idle)
    BY <1>a DEF End, Go, Turn, TypeOK
  <2>2. ~disturbed' => Backed(Idle)'
    BY <1>a, <2>1, Alone DEF Turn, Backed
  <2> QED
    BY <2>1, <2>2, EndTurn
\* A call that goes on without a change to rows and accounts.
<1>b. ASSUME NEW s \in Request, Go(q, s), UNCHANGED <<rows, uid, accounts>>,
             request[q].step # "delete", s.step # "delete",
             ~disturbed /\ Sees(request[q]) => Sees(s)
      PROVE  Undisturbed'
  <2>1. Turn(q, s)
    BY <1>b DEF Go, Turn, TypeOK
  <2>2. ~disturbed' => Sees(s)' /\ Backed(s)'
    BY <1>b, <2>1, Alone DEF Turn, Backed, Sees
  <2> QED
    BY <2>1, <2>2, TurnStep
<1>1. ASSUME NEW e \in Emails, EnsureUser(q, e) PROVE Undisturbed'
  <2>0. UNCHANGED <<rows, uid, accounts>> /\ request[q].step = "idle"
    BY <1>1, IdleKnows DEF EnsureUser, users, firebase
  <2>1. PICK s \in Request : Sees(s) /\ Go(q, s) /\ s.step # "delete"
    <3>1. ASSUME NEW f \in accounts
          PROVE  LET s == [Idle EXCEPT !.step = "insert", !.uid = f, !.email = e]
                 IN  s \in Request /\ Sees(s) /\ s.step # "delete"
      BY DEF Idle, Request, Steps, Sees, TypeOK
    <3>2. LET s == [Idle EXCEPT !.step = "provision", !.email = e]
          IN  s \in Request /\ Sees(s) /\ s.step # "delete"
      BY DEF Idle, Request, Steps, Sees
    <3>3. LET s == [Idle EXCEPT !.step = "insert", !.email = e]
          IN  s \in Request /\ Sees(s) /\ s.step # "delete"
      BY DEF Idle, Request, Steps, Sees
    <3> QED
      BY <1>1, <3>1, <3>2, <3>3 DEF EnsureUser
  <2> QED
    BY <2>0, <2>1, <1>b
<1>2. CASE Provision(q)
  <2>1. CASE End(q) /\ UNCHANGED firebase
    BY <1>2, <2>1, <1>a DEF Provision, users, firebase
  <2>2. ASSUME NEW f \in Uids, NewAccount(f, request[q].email),
               Go(q, [request[q] EXCEPT !.step = "insert", !.uid = f, !.created = TRUE])
        PROVE  Undisturbed'
    <3>0. PICK s \in Request : s = [request[q] EXCEPT !.step = "insert", !.uid = f, !.created = TRUE]
      BY <1>0 DEF Request, Steps
    <3>1. /\ Turn(q, s) /\ UNCHANGED <<rows, uid>> /\ request[q].step = "provision"
          /\ mail[f] = NoEmail /\ accounts' = accounts \cup {f}
      BY <1>2, <2>2, <3>0 DEF Provision, users, Go, Turn, NewAccount, TypeOK
    <3>2. s.step = "insert" /\ s.uid = f
      BY <1>0, <3>0 DEF Request
    <3>3. \A u \in rows : uid[u] # f
      BY <3>1, NoUidAssumption DEF Addressed
    <3>4. ~disturbed' => Sees(s)' /\ Backed(s)'
      BY <3>1, <3>2, <3>3, Alone DEF Turn, Sees, Backed
    <3> QED
      BY <3>1, <3>4, TurnStep
  <2> QED
    BY <1>2, <2>1, <2>2 DEF Provision
<1>c. ASSUME GiveUp(q), UNCHANGED <<rows, uid, accounts>>,
             request[q].step = "insert" \/ (request[q].step = "reread" /\ request[q].user \notin rows)
      PROVE  Undisturbed'
  <2>1. CASE End(q)
    BY <1>c, <2>1, <1>a
  <2>2. CASE request[q].created /\ Step(q, "cleanup")
    <3>1. PICK s \in Request : s = [request[q] EXCEPT !.step = "cleanup"]
      BY <1>0 DEF Request, Steps
    <3>2. s.step = "cleanup" /\ s.uid = request[q].uid /\ s.created
      BY <1>0, <2>2, <3>1 DEF Request
    <3>3. Sees(request[q]) => Sees(s)
      BY <1>c, <2>2, <3>2 DEF Sees
    <3> QED
      BY <1>c, <2>2, <3>1, <3>2, <3>3, <1>b DEF Step
  <2> QED
    BY <1>c, <2>1, <2>2 DEF GiveUp, CleansUp
<1>3. CASE AddOrganizerAdmin(q)
  <2>1. CASE GiveUp(q) /\ UNCHANGED users
    BY <1>3, <2>1, <1>c DEF AddOrganizerAdmin, users, firebase
  <2>2. ASSUME NEW u \in Users, Insert(u, request[q].email, request[q].uid),
               Go(q, [request[q] EXCEPT !.step = "reread", !.user = u])
        PROVE  Undisturbed'
    <3>0. PICK s \in Request : s = [request[q] EXCEPT !.step = "reread", !.user = u]
      BY <1>0 DEF Request, Steps
    <3>1. /\ Turn(q, s) /\ UNCHANGED accounts /\ request[q].step = "insert"
          /\ rows' = rows \cup {u} /\ uid' = [uid EXCEPT ![u] = request[q].uid]
      BY <1>3, <2>2, <3>0 DEF AddOrganizerAdmin, firebase, Go, Turn, Insert, TypeOK
    <3>2. s.step = "reread" /\ s.uid = request[q].uid /\ s.user = u
      BY <1>0, <3>0 DEF Request
    <3>3. \A w \in rows' : uid'[w] = request[q].uid \/ (w \in rows /\ uid'[w] = uid[w])
      BY <3>1 DEF TypeOK
    <3>4. ~disturbed' => Sees(s)' /\ Backed(s)'
      BY <3>1, <3>2, <3>3, Alone DEF Turn, Sees, Backed
    <3> QED
      BY <3>1, <3>4, TurnStep
  <2> QED
    BY <1>3, <2>1, <2>2 DEF AddOrganizerAdmin
<1>4. CASE GetOrganizerAdmin(q)
  BY <1>4, <1>a, <1>c DEF GetOrganizerAdmin, users, firebase
<1>5. CASE Cleanup(q)
  <2>1. /\ Turn(q, Idle) /\ UNCHANGED <<rows, uid>> /\ request[q].step = "cleanup"
        /\ accounts' = accounts \ {request[q].uid}
    BY <1>5 DEF Cleanup, End, Go, Turn, users, TypeOK
  <2>2. ~disturbed' => Backed(Idle)'
    BY <2>1, Alone DEF Turn, Sees, Backed
  <2> QED
    BY <2>1, <2>2, EndTurn
<1>6. ASSUME NEW u \in Users,
             DeleteRow(q, u) \/ \E e \in Emails : UpdateOrganizerAdmin(q, u, e)
      PROVE  Undisturbed'
  <2>1. Turn(q, Idle) /\ UNCHANGED <<uid, accounts>> /\ request[q] = Idle /\ rows' \subseteq rows
    BY <1>6 DEF DeleteRow, UpdateOrganizerAdmin, End, Go, Turn, firebase, TypeOK
  <2>2. ~disturbed' => Backed(Idle)'
    BY <2>1, Alone DEF Turn, Backed
  <2> QED
    BY <2>1, <2>2, EndTurn
<1> QED
  BY <1>1, <1>2, <1>3, <1>4, <1>5, <1>6 DEF Admin

LEMMA SignUpAlone ==
  ASSUME TypeOK, Undisturbed, NEW f \in Uids, NEW e \in Emails, SignUp(f, e)
  PROVE  Undisturbed'
<1>1. UNCHANGED <<rows, uid, request, disturbed>> /\ accounts \subseteq accounts'
  BY DEF SignUp, NewAccount, users, history
<1>2. \A q \in Requests : Sees(request[q]) => Sees(request[q])'
  BY <1>1 DEF Sees
<1>3. \A q \in Requests : Backed(request[q]) => Backed(request[q])'
  BY <1>1 DEF Backed
<1>4. Backed(Idle) => Backed(Idle)'
  BY <1>1 DEF Backed
<1> QED
  BY <1>1, <1>2, <1>3, <1>4 DEF Undisturbed, Quiet

\* Nothing that is disturbed is claimed anything of.
LEMMA FailureDisturbs ==
  ASSUME NEW q \in Requests, Error(q) \/ Crash(q)
  PROVE  Undisturbed'
  BY DEF Error, Crash, Undisturbed

LEMMA UndisturbedAlways == Spec => []Undisturbed
<1>1. Init => Undisturbed
  <2>1. ASSUME Init PROVE Sees(Idle) /\ Backed(Idle)
    BY <2>1 DEF Init, Sees, Backed, Idle
  <2> QED
    BY <2>1 DEF Init, Undisturbed, Quiet
<1>2. TypeOK /\ Addressed /\ Undisturbed /\ [Next]_vars => Undisturbed'
  <2>1. Undisturbed /\ UNCHANGED vars => Undisturbed'
    BY DEF Undisturbed, Sees, Backed, Quiet, vars, users, firebase, history
  <2> QED
    BY <2>1, LoginAlone, ProfileAlone, AdminAlone, SignUpAlone, FailureDisturbs DEF Next
<1> QED
  BY <1>1, <1>2, AddressedAlways, PTL DEF Spec

\* Calls that do not overlap and do not fail leave a Firebase account behind every
\* row that names one.
THEOREM RowsAreBacked == Spec => []AccountsBehindRows
<1>1. TypeOK /\ Undisturbed => AccountsBehindRows
  BY DEF Undisturbed, Backed, Idle, AccountsBehindRows
<1> QED
  BY <1>1, AddressedAlways, UndisturbedAlways, PTL
=============================================================================
