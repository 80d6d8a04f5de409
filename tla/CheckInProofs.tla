---------------------------- MODULE CheckInProofs ----------------------------
(***************************************************************************)
(* The safety properties of CheckIn, proved for any tickets, events, staff *)
(* and number of scans at the same time.                                   *)
(***************************************************************************)
EXTENDS CheckIn, TLAPS

\* Somebody was let in with t, is just being let in, or the reply got lost.
LetIn(t) ==
  \/ t \in told \cup lost
  \/ \E q \in Requests : request[q].step = "in" /\ request[q].ticket = t

\* What a scan knows at each of its steps, and what a used ticket has behind it.
\* Two scans hold no lock on the rows of one event, so a ticket that one of them
\* has found unused stays unused until that scan commits.
Scanned ==
  /\ \A q \in Requests :
       /\ request[q].step \in {"locked", "in", "already"} =>
            request[q].ticket \in issued /\ InScope(request[q].user, request[q].ticket)
       /\ request[q].step = "locked" => checkedBy[request[q].ticket] = NoUser
       /\ request[q].step \in {"in", "already"} => checkedBy[request[q].ticket] # NoUser
  /\ \A p, q \in Requests :
       p # q /\ request[p].step = "locked" /\ request[q].step = "locked" =>
         EventOf[request[p].ticket] # EventOf[request[q].ticket]
  /\ \A t \in Tickets :
       /\ granted[t] = (IF checkedBy[t] = NoUser THEN 0 ELSE 1)
       /\ checkedBy[t] # NoUser => LetIn(t)
       /\ t \in turned => checkedBy[t] # NoUser

Scan ==
  [step : {"scan", "locked", "in", "already"}, user : Users,
   ticket : Tickets, event : Events \cup {AnyEvent}]

LEMMA IdleScan == Idle.step = "idle" /\ Idle \notin Scan
  BY DEF Idle, Scan

LEMMA ScanType ==
  ASSUME TypeOK, NEW q \in Requests, request[q].step # "idle"
  PROVE  /\ request[q] \in Scan
         /\ request[q].user \in Users /\ request[q].ticket \in Tickets
         /\ request[q].user # NoUser
  BY IdleScan, NoUserAssumption DEF TypeOK, Scan

\* A scan that goes on, and one that ends: the others are where they were.
LEMMA GoStep ==
  ASSUME TypeOK, NEW q \in Requests, request[q].step # "idle",
         NEW step \in {"locked", "in", "already"}, Go(q, step)
  PROVE  /\ request' \in [Requests -> {Idle} \cup Scan]
         /\ \A p \in Requests \ {q} : request'[p] = request[p]
         /\ request'[q].step = step
         /\ request'[q].user = request[q].user
         /\ request'[q].ticket = request[q].ticket
<1>1. request[q] \in Scan
  BY ScanType
<1> QED
  BY <1>1 DEF Go, TypeOK, Scan

LEMMA EndStep ==
  ASSUME TypeOK, NEW q \in Requests, End(q)
  PROVE  /\ request' \in [Requests -> {Idle} \cup Scan]
         /\ \A p \in Requests \ {q} : request'[p] = request[p]
         /\ request'[q].step = "idle"
  BY IdleScan DEF End, TypeOK, Scan

LEMMA ScopeIsRow ==
  ASSUME NEW u \in Users, NEW t \in Tickets, InScope(u, t)
  PROVE  u \in Doormen(t)
  BY DEF InScope, Doormen

LEMMA SelectStep ==
  ASSUME TypeOK, Scanned, NEW q \in Requests, SelectForUpdate(q)
  PROVE  TypeOK' /\ Scanned'
<1> DEFINE t == request[q].ticket
<1>0. request[q].step = "scan" /\ t \in Tickets /\ UNCHANGED <<access, door, history>>
  BY ScanType DEF SelectForUpdate
<1>1. PICK step \in {"already", "locked"} :
        /\ step = IF checkedBy[t] # NoUser THEN "already" ELSE "locked"
        /\ Go(q, step)
  BY DEF SelectForUpdate, CheckedIn
<1>2. /\ request' \in [Requests -> {Idle} \cup Scan]
      /\ \A p \in Requests \ {q} : request'[p] = request[p]
      /\ request'[q].step = step
      /\ request'[q].user = request[q].user
      /\ request'[q].ticket = t
  BY <1>0, <1>1, GoStep
<1>3. TypeOK'
  BY <1>0, <1>2 DEF TypeOK, Scan, access, door, history, Doormen
<1>4. t \in issued /\ InScope(request[q].user, t)
  BY DEF SelectForUpdate, Acceptable
<1>5. ASSUME NEW p \in Requests \ {q}, step = "locked", request[p].step = "locked"
      PROVE  EventOf[request[p].ticket] # EventOf[t]
  BY <1>5 DEF SelectForUpdate, Unlocked
<1>6. \A x \in Tickets : LetIn(x) => LetIn(x)'
  BY <1>0, <1>2 DEF LetIn, history
<1>7. \A u, x : InScope(u, x)' <=> InScope(u, x)
  BY DEF InScope
<1> HIDE DEF t
<1>8. Scanned'
  BY <1>0, <1>1, <1>2, <1>4, <1>5, <1>6, <1>7 DEF Scanned, door, history
<1> QED
  BY <1>3, <1>8

LEMMA CommitStep ==
  ASSUME TypeOK, Scanned, NEW q \in Requests, CheckInByCode(q)
  PROVE  TypeOK' /\ Scanned'
<1> DEFINE t == request[q].ticket
<1>0. /\ request[q].step = "locked" /\ t \in Tickets /\ request[q].user \in Users
      /\ checkedBy[t] = NoUser /\ request[q].user # NoUser
      /\ t \in issued /\ InScope(request[q].user, t)
  BY ScanType DEF CheckInByCode, Scanned
<1>1. /\ request' \in [Requests -> {Idle} \cup Scan]
      /\ \A p \in Requests \ {q} : request'[p] = request[p]
      /\ request'[q].step = "in"
      /\ request'[q].user = request[q].user
      /\ request'[q].ticket = t
  BY <1>0, GoStep DEF CheckInByCode
<1>2. /\ checkedBy' = [checkedBy EXCEPT ![t] = request[q].user]
      /\ granted' = [granted EXCEPT ![t] = @ + 1]
      /\ UNCHANGED <<access, issued, told, lost, turned>>
  BY <1>0 DEF CheckInByCode
<1>3. TypeOK'
  <2>1. request[q].user \in Doormen(t)
    BY <1>0, ScopeIsRow
  <2>2. \A x : Doormen(x)' = Doormen(x)
    BY DEF Doormen
  <2> HIDE DEF t
  <2> QED
    BY <1>0, <1>1, <1>2, <2>1, <2>2 DEF TypeOK, Scan, access
<1> HIDE DEF t
<1>4. \A x \in Tickets : x # t => checkedBy'[x] = checkedBy[x] /\ granted'[x] = granted[x]
  BY <1>2 DEF TypeOK
<1>5. checkedBy'[t] # NoUser /\ granted'[t] = 1
  BY <1>0, <1>2 DEF TypeOK, Scanned
<1>6. \A x \in Tickets : LetIn(x) => LetIn(x)'
  BY <1>0, <1>1, <1>2 DEF LetIn
<1>7. ASSUME NEW x \in Tickets, x = t PROVE LetIn(x)'
  BY <1>1, <1>7 DEF LetIn
<1>8. ASSUME NEW p \in Requests \ {q}, request[p].step = "locked" PROVE request[p].ticket # t
  BY <1>0, <1>8 DEF Scanned, t
<1>9. \A p \in Requests : request[p].step # "idle" => request[p].ticket \in Tickets
  BY ScanType
<1>10. \A u, x : InScope(u, x)' <=> InScope(u, x)
  BY DEF InScope
<1>11. Scanned'
  <2>1. \A p \in Requests :
          /\ request'[p].step \in {"locked", "in", "already"} =>
               request'[p].ticket \in issued' /\ InScope(request'[p].user, request'[p].ticket)
          /\ request'[p].step = "locked" => checkedBy'[request'[p].ticket] = NoUser
          /\ request'[p].step \in {"in", "already"} => checkedBy'[request'[p].ticket] # NoUser
    BY <1>0, <1>1, <1>2, <1>4, <1>5, <1>8, <1>9 DEF Scanned
  <2>2. \A p, r \in Requests :
          p # r /\ request'[p].step = "locked" /\ request'[r].step = "locked" =>
            EventOf[request'[p].ticket] # EventOf[request'[r].ticket]
    BY <1>1 DEF Scanned
  <2>3. \A x \in Tickets :
          /\ granted'[x] = (IF checkedBy'[x] = NoUser THEN 0 ELSE 1)
          /\ checkedBy'[x] # NoUser => LetIn(x)'
          /\ x \in turned' => checkedBy'[x] # NoUser
    BY <1>2, <1>4, <1>5, <1>6, <1>7 DEF Scanned
  <2> QED
    BY <2>1, <2>2, <2>3, <1>10 DEF Scanned
<1> QED
  BY <1>3, <1>11

\* A scan that ends without having said "in" leaves the doors as they were.
LEMMA GoneStep ==
  ASSUME TypeOK, Scanned, NEW q \in Requests, End(q), request[q].step # "in",
         UNCHANGED <<access, door, history>>
  PROVE  TypeOK' /\ Scanned'
<1>1. /\ request' \in [Requests -> {Idle} \cup Scan]
      /\ \A p \in Requests \ {q} : request'[p] = request[p]
      /\ request'[q].step = "idle"
  BY EndStep
<1>2. \A x \in Tickets : LetIn(x) => LetIn(x)'
  BY <1>1 DEF LetIn, history
<1>3. \A u, x : InScope(u, x)' <=> InScope(u, x)
  BY DEF InScope
<1>4. TypeOK'
  BY <1>1 DEF TypeOK, Scan, access, door, history, Doormen
<1>5. Scanned'
  BY <1>1, <1>2, <1>3 DEF Scanned, door, history
<1> QED
  BY <1>4, <1>5

\* The reply arrives, or does not.
LEMMA ReplyStep ==
  ASSUME TypeOK, Scanned, NEW q \in Requests, Reply(q) \/ LoseReply(q)
  PROVE  TypeOK' /\ Scanned'
<1> DEFINE t == request[q].ticket
<1>0. /\ request[q].step \in {"in", "already"} /\ t \in Tickets
      /\ checkedBy[t] # NoUser /\ End(q) /\ UNCHANGED <<access, door, granted>>
  BY ScanType DEF Reply, LoseReply, Scanned
<1>1. /\ request' \in [Requests -> {Idle} \cup Scan]
      /\ \A p \in Requests \ {q} : request'[p] = request[p]
      /\ request'[q].step = "idle"
  BY <1>0, EndStep
<1>2. /\ told \subseteq told' /\ lost \subseteq lost' /\ turned \subseteq turned'
      /\ told' \subseteq told \cup {t} /\ lost' \subseteq lost \cup {t}
      /\ turned' \subseteq turned \cup {t}
      /\ request[q].step = "in" => t \in told' \cup lost'
  BY DEF Reply, LoseReply
<1> HIDE DEF t
<1>3. TypeOK'
  BY <1>0, <1>1, <1>2 DEF TypeOK, Scan, access, door, Doormen
<1>4. \A x \in Tickets : LetIn(x) => LetIn(x)'
  BY <1>1, <1>2 DEF LetIn, t
<1>5. \A u, x : InScope(u, x)' <=> InScope(u, x)
  BY DEF InScope
<1>6. Scanned'
  BY <1>0, <1>1, <1>2, <1>4, <1>5 DEF Scanned, door
<1> QED
  BY <1>3, <1>6

LEMMA BeginStep ==
  ASSUME TypeOK, Scanned, NEW q \in Requests, NEW u \in Users, NEW t \in Tickets,
         NEW e \in Events \cup {AnyEvent}, Authenticate(q, u, t, e)
  PROVE  TypeOK' /\ Scanned'
<1> DEFINE r == [step |-> "scan", user |-> u, ticket |-> t, event |-> e]
<1>1. r \in Scan /\ r.step = "scan"
  BY DEF Scan
<1>2. request[q].step = "idle" /\ request' = [request EXCEPT ![q] = r]
      /\ UNCHANGED <<access, door, history>>
  BY IdleScan DEF Authenticate
<1> HIDE DEF r
<1>3. \A p \in Requests : request'[p] = IF p = q THEN r ELSE request[p]
  BY <1>2 DEF TypeOK
<1>4. TypeOK'
  BY <1>1, <1>2 DEF TypeOK, Scan, access, door, history, Doormen
<1>5. \A x \in Tickets : LetIn(x) => LetIn(x)'
  BY <1>2, <1>3 DEF LetIn, history
<1>6. \A v, x : InScope(v, x)' <=> InScope(v, x)
  BY DEF InScope
<1>7. Scanned'
  BY <1>1, <1>2, <1>3, <1>5, <1>6 DEF Scanned, door, history
<1> QED
  BY <1>4, <1>7

\* Users, tokens and new tickets do not disturb the scans.
LEMMA OtherStep ==
  ASSUME TypeOK, Scanned, UNCHANGED <<checkedBy, request, history>>, issued \subseteq issued',
         issued' \subseteq Tickets, staff' \subseteq Users, renewing' \subseteq Users,
         tokens' \subseteq Users
  PROVE  TypeOK' /\ Scanned'
<1>1. TypeOK'
  BY DEF TypeOK, history, Doormen
<1>2. \A x \in Tickets : LetIn(x) => LetIn(x)'
  BY DEF LetIn, history
<1>3. \A v, x : InScope(v, x)' <=> InScope(v, x)
  BY DEF InScope
<1>4. Scanned'
  BY <1>2, <1>3 DEF Scanned, history
<1> QED
  BY <1>1, <1>4

LEMMA ScannedStep ==
  ASSUME TypeOK, Scanned, Next
  PROVE  TypeOK' /\ Scanned'
<1>1. ASSUME NEW u \in Users, RemoveUser(u) \/ BeginRefresh(u) \/ Generate(u) \/ ExpireToken(u)
      PROVE  TypeOK' /\ Scanned'
  BY <1>1, OtherStep
     DEF RemoveUser, BeginRefresh, Generate, ExpireToken, door, TypeOK
<1>2. ASSUME NEW t \in Tickets, IssueTicket(t) PROVE TypeOK' /\ Scanned'
  BY <1>2, OtherStep DEF IssueTicket, access, TypeOK
<1>3. ASSUME NEW q \in Requests, Reject(q) \/ Rollback(q) PROVE TypeOK' /\ Scanned'
  BY <1>3, GoneStep DEF Reject, Rollback
<1> QED
  BY <1>1, <1>2, <1>3, SelectStep, CommitStep, ReplyStep, BeginStep DEF Next, Serve

LEMMA ScannedAlways == Spec => [](TypeOK /\ Scanned)
<1>1. Init => TypeOK /\ Scanned
  BY IdleScan DEF Init, TypeOK, Scanned
<1>2. TypeOK /\ Scanned /\ [Next]_vars => (TypeOK /\ Scanned)'
  <2>1. TypeOK /\ Scanned /\ UNCHANGED vars => (TypeOK /\ Scanned)'
    BY OtherStep DEF vars, access, door, TypeOK
  <2> QED
    BY <2>1, ScannedStep
<1> QED
  BY <1>1, <1>2, PTL DEF Spec

\* The rows have their types, and whoever checked a ticket in was staff of its
\* organizer or of the platform.
THEOREM DoorTypes == Spec => []TypeOK
  BY ScannedAlways, PTL

\* However many doors there are, one scan of a ticket is answered "in".
THEOREM OneAdmission == Spec => []AdmittedOnce
<1>1. TypeOK /\ Scanned => AdmittedOnce
  BY DEF Scanned, AdmittedOnce
<1> QED
  BY <1>1, ScannedAlways, PTL

\* Nobody is turned away with a ticket that let nobody in.
THEOREM TurnedAwayRightly == Spec => []TurnedAwayWereLetIn
<1>1. TypeOK /\ Scanned => TurnedAwayWereLetIn
  BY DEF Scanned, LetIn, TurnedAwayWereLetIn, TypeOK
<1> QED
  BY <1>1, ScannedAlways, PTL

-----------------------------------------------------------------------------
(***************************************************************************)
(* The half of RemovedStaffStop that needs no fairness: nothing gives a    *)
(* removed user back what has run out.                                     *)
(***************************************************************************)

\* u has no row, no refresh under way, no token and no scan.
Out(u) ==
  /\ u \notin staff \cup renewing \cup tokens
  /\ \A q \in Requests : request[q].user # u

\* A scan is of the user who began it, and only who has a token begins one.
LEMMA ScansBegin ==
  ASSUME TypeOK, Next, NEW u \in Users, NEW q \in Requests, request'[q].user = u
  PROVE  u \in tokens \/ request[q].user = u
<1>1. Idle.user # u
  BY NoUserAssumption DEF Idle
<1>2. ASSUME NEW p \in Requests, End(p)
      PROVE  request[q].user = u
  BY <1>1, <1>2 DEF End, TypeOK
<1>3. ASSUME NEW p \in Requests, SelectForUpdate(p) \/ CheckInByCode(p)
      PROVE  request[q].user = u
  <2>1. PICK step \in {"locked", "in", "already"} : Go(p, step) /\ request[p].step # "idle"
    BY <1>3 DEF SelectForUpdate, CheckInByCode
  <2> QED
    BY <2>1, GoStep
<1>4. ASSUME NEW p \in Requests, NEW v \in Users, NEW t \in Tickets,
             NEW e \in Events \cup {AnyEvent}, Authenticate(p, v, t, e)
      PROVE  u \in tokens \/ request[q].user = u
  BY <1>4 DEF Authenticate, TypeOK
<1>5. UNCHANGED request => request[q].user = u
  OBVIOUS
<1>6. ASSUME NEW p \in Requests, Serve(p)
      PROVE  request[q].user = u
  BY <1>2, <1>3, <1>6 DEF Serve, Reject, Rollback, Reply, LoseReply
<1> QED
  BY <1>4, <1>5, <1>6
     DEF Next, RemoveUser, BeginRefresh, Generate, ExpireToken, IssueTicket

\* What a user without a row still has comes from what they had: a refresh that was
\* under way, its token, a scan begun with it.
NoWayBack ==
  \A u \in Users : u \notin staff =>
    /\ u \notin staff'
    /\ u \in renewing' => u \in renewing
    /\ u \in tokens' => u \in tokens \cup renewing
    /\ \A q \in Requests : request'[q].user = u => u \in tokens \/ request[q].user = u

\* A removed user does not get a row, a refresh, a token or a scan but by what was
\* under way (middleware/auth.go:44), so once out they are out for good.
THEOREM RemovedStaffStayOut ==
  Spec => /\ [][NoWayBack]_vars
          /\ [][\A u \in Users : Out(u) => Out(u)']_vars
<1>1. TypeOK /\ [Next]_vars => [NoWayBack]_vars
  <2> SUFFICES ASSUME TypeOK, Next, NEW u \in Users, u \notin staff
               PROVE  /\ u \notin staff'
                      /\ u \in renewing' => u \in renewing
                      /\ u \in tokens' => u \in tokens \cup renewing
    BY ScansBegin DEF NoWayBack
  <2> QED
    BY DEF Next, Serve, RemoveUser, BeginRefresh, HasRow, Generate, ExpireToken, IssueTicket,
           Authenticate, Reject, SelectForUpdate, CheckInByCode, Rollback, Reply, LoseReply, access
<1>2. [NoWayBack]_vars => [\A u \in Users : Out(u) => Out(u)']_vars
  BY DEF NoWayBack, Out
<1>3. Spec => [][NoWayBack]_vars
  BY <1>1, ScannedAlways, PTL DEF Spec
<1> QED
  BY <1>2, <1>3, PTL
=============================================================================
