------------------------------- MODULE CheckIn -------------------------------
(***************************************************************************)
(* At the doors: staff scan tickets with access tokens that say who they   *)
(* were when the token was issued (internal/tickets/repository.go,         *)
(* internal/platform/jwt/jwt.go, internal/http/middleware/auth.go).        *)
(*                                                                         *)
(* CheckInByCode is one transaction.  Its first statement locks what it    *)
(* reads, and its reply leaves after the commit, so a scan is four steps:  *)
(* the token is verified, the ticket is read and locked, the check-in is   *)
(* committed, the reply arrives or is lost.  A transaction may fail at any *)
(* point before the commit and then changes nothing.                       *)
(*                                                                         *)
(* The token is never compared with the user's row again.  The row may go; *)
(* no handler changes the role or the organizer of one that exists.  The   *)
(* command cmd/seed-admin, run by hand, may make it a super admin's: its   *)
(* older tokens then allow less than the row, and it is left out.          *)
(***************************************************************************)
EXTENDS Naturals, FiniteSets

CONSTANTS
  Tickets,     \* tickets.code
  Events,      \* events.id
  EventOf,     \* the event of each ticket
  Organizers,  \* organizers.id
  Owner,       \* the organizer of each event
  Users,       \* users.id
  Role,        \* users.role
  Organizer,   \* users.organizer_id of the organizer admins
  Requests,    \* scans the server handles at the same time
  NoUser,      \* checked_in_at IS NULL
  NoTicket,    \* the ticket of a request that is idle
  AnyEvent     \* a scan that names no event

ASSUME EventOfAssumption == EventOf \in [Tickets -> Events]
ASSUME OwnerAssumption == Owner \in [Events -> Organizers]
ASSUME NoUserAssumption == NoUser \notin Users
ASSUME NoTicketAssumption == NoTicket \notin Tickets

VARIABLES
  staff,       \* the users that have a row
  renewing,    \* the users whose login or refresh has read the row
  tokens,      \* the users who have an access token that has not expired
  issued,      \* the tickets that have a row: their order is paid
  checkedBy,   \* tickets.checked_in_by_user_id
  request,     \* each scan: its claims, its ticket, its next step
  granted,     \* history: how many scans of a ticket were answered "in"
  told,        \* history: the tickets whose holder was heard to be let in
  lost,        \* history: the tickets for which that reply was lost
  turned       \* history: the tickets that were turned away as used

access  == <<staff, renewing, tokens>>
door    == <<issued, checkedBy>>
history == <<granted, told, lost, turned>>
vars    == <<access, door, request, history>>

Idle == [step |-> "idle", user |-> NoUser, ticket |-> NoTicket, event |-> AnyEvent]

Go(q, step) == request' = [request EXCEPT ![q].step = step]
End(q) == request' = [request EXCEPT ![q] = Idle]

-----------------------------------------------------------------------------
(* Access tokens. *)

\* The row goes, and with it the sessions that could renew a token.
RemoveUser(u) ==
  /\ u \in staff
  /\ staff' = staff \ {u}
  /\ UNCHANGED <<renewing, tokens, door, request, history>>

\* Mutation: a refresh is for whoever presents a token, row or not.
Anybody(u) == u \in Users
HasRow(u) == u \in staff

BeginRefresh(u) ==
  /\ u \notin renewing
  /\ HasRow(u)
  /\ renewing' = renewing \cup {u}
  /\ UNCHANGED <<staff, tokens, door, request, history>>

\* Generate: the claims are those of the row that was read.
Generate(u) ==
  /\ u \in renewing
  /\ renewing' = renewing \ {u}
  /\ tokens' = tokens \cup {u}
  /\ UNCHANGED <<staff, door, request, history>>

ExpireToken(u) ==
  /\ u \in tokens
  /\ tokens' = tokens \ {u}
  /\ UNCHANGED <<staff, renewing, door, request, history>>

-----------------------------------------------------------------------------
(* The ticket at the door. *)

\* The order is paid.
IssueTicket(t) ==
  /\ t \notin issued
  /\ issued' = issued \cup {t}
  /\ UNCHANGED <<access, checkedBy, request, history>>

\* The claims against the ticket's event.  Mutation: the organizers are not compared.
InAnyScope(u, t) == Role[u] # "user"
InScope(u, t) ==
  \/ Role[u] = "super_admin"
  \/ Role[u] = "organizer_admin" /\ Organizer[u] = Owner[EventOf[t]]

Expected(q) == request[q].event \in {AnyEvent, EventOf[request[q].ticket]}

Acceptable(q) ==
  /\ request[q].ticket \in issued
  /\ InScope(request[q].user, request[q].ticket)
  /\ Expected(q)

\* FOR UPDATE over the ticket, its order and its event: one scan at a time of an
\* event's tickets.  Mutation: the rows are read without locks.
ReadOnly(q) == TRUE
Unlocked(q) ==
  \A p \in Requests \ {q} :
    request[p].step = "locked" => EventOf[request[p].ticket] # EventOf[request[q].ticket]

\* RequireAuth: only the token's signature and expiry count.
Authenticate(q, u, t, e) ==
  /\ request[q] = Idle
  /\ u \in tokens
  /\ request' = [request EXCEPT ![q] = [step |-> "scan", user |-> u, ticket |-> t, event |-> e]]
  /\ UNCHANGED <<access, door, history>>

Reject(q) ==
  /\ request[q].step = "scan"
  /\ ~Acceptable(q)
  /\ End(q)
  /\ UNCHANGED <<access, door, history>>

CheckedIn(t) == checkedBy[t] # NoUser

SelectForUpdate(q) ==
  /\ request[q].step = "scan"
  /\ Acceptable(q)
  /\ Unlocked(q)
  /\ Go(q, IF CheckedIn(request[q].ticket) THEN "already" ELSE "locked")
  /\ UNCHANGED <<access, door, history>>

\* UPDATE ... WHERE checked_in_at IS NULL, and the commit.  However many rows the
\* UPDATE changed, the scan is answered "in".
CheckInByCode(q) ==
  LET t == request[q].ticket IN
  /\ request[q].step = "locked"
  /\ checkedBy' = IF checkedBy[t] = NoUser
                  THEN [checkedBy EXCEPT ![t] = request[q].user] ELSE checkedBy
  /\ granted' = [granted EXCEPT ![t] = @ + 1]
  /\ Go(q, "in")
  /\ UNCHANGED <<access, issued, told, lost, turned>>

\* Mutation: the UPDATE is not part of the transaction.
RollbackTooLate(q) ==
  LET t == request[q].ticket IN
  /\ request[q].step \in {"scan", "locked"}
  /\ checkedBy' = IF request[q].step = "locked" /\ checkedBy[t] = NoUser
                  THEN [checkedBy EXCEPT ![t] = request[q].user] ELSE checkedBy
  /\ End(q)
  /\ UNCHANGED <<access, issued, history>>

Rollback(q) ==
  /\ request[q].step \in {"scan", "locked"}
  /\ End(q)
  /\ UNCHANGED <<access, door, history>>

Reply(q) ==
  LET t == request[q].ticket IN
  /\ \/ request[q].step = "in" /\ told' = told \cup {t} /\ UNCHANGED turned
     \/ request[q].step = "already" /\ turned' = turned \cup {t} /\ UNCHANGED told
  /\ End(q)
  /\ UNCHANGED <<access, door, granted, lost>>

\* The commit took effect and is not heard of: the scanner shows an error.
LoseReply(q) ==
  /\ request[q].step \in {"in", "already"}
  /\ lost' = IF request[q].step = "in" THEN lost \cup {request[q].ticket} ELSE lost
  /\ End(q)
  /\ UNCHANGED <<access, door, granted, told, turned>>

-----------------------------------------------------------------------------
Init ==
  /\ staff = Users
  /\ renewing = {}
  /\ tokens = {}
  /\ issued = {}
  /\ checkedBy = [t \in Tickets |-> NoUser]
  /\ request = [q \in Requests |-> Idle]
  /\ granted = [t \in Tickets |-> 0]
  /\ told = {}
  /\ lost = {}
  /\ turned = {}

Serve(q) ==
  \/ Reject(q)
  \/ SelectForUpdate(q)
  \/ CheckInByCode(q)
  \/ Rollback(q)
  \/ Reply(q)
  \/ LoseReply(q)

Next ==
  \/ \E u \in Users : RemoveUser(u) \/ BeginRefresh(u) \/ Generate(u) \/ ExpireToken(u)
  \/ \E t \in Tickets : IssueTicket(t)
  \/ \E q \in Requests :
       \/ \E u \in Users, t \in Tickets, e \in Events \cup {AnyEvent} : Authenticate(q, u, t, e)
       \/ Serve(q)

Spec == Init /\ [][Next]_vars

\* Requests end, and so does the lifetime of a token (JWT_TTL_MINUTES).
Fairness ==
  /\ \A u \in Users : WF_vars(Generate(u)) /\ WF_vars(ExpireToken(u))
  /\ \A q \in Requests : WF_vars(Serve(q))

FairSpec == Spec /\ Fairness

-----------------------------------------------------------------------------
(* Properties. *)

\* Who may check a ticket in, by the rows.
Doormen(t) ==
  {u \in Users :
     \/ Role[u] = "super_admin"
     \/ Role[u] = "organizer_admin" /\ Organizer[u] = Owner[EventOf[t]]}

\* The types of the variables; a used ticket is one that was issued, and was
\* checked in by staff of its own organizer.
TypeOK ==
  /\ staff \in SUBSET Users
  /\ renewing \in SUBSET Users
  /\ tokens \in SUBSET Users
  /\ issued \in SUBSET Tickets
  /\ checkedBy \in [Tickets -> Users \cup {NoUser}]
  /\ \A t \in Tickets : checkedBy[t] # NoUser => t \in issued /\ checkedBy[t] \in Doormen(t)
  /\ request \in [Requests -> {Idle} \cup
       [step : {"scan", "locked", "in", "already"}, user : Users,
        ticket : Tickets, event : Events \cup {AnyEvent}]]
  /\ granted \in [Tickets -> Nat]
  /\ told \in SUBSET Tickets
  /\ lost \in SUBSET Tickets
  /\ turned \in SUBSET Tickets

\* A ticket lets in once: of all scans of one ticket, at several doors at the
\* same time or again after an error, one is answered "in" (tickets/repository.go:491).
AdmittedOnce == \A t \in Tickets : granted[t] <= 1

\* A holder is turned away as "already checked in" only if somebody was let in
\* with the ticket, is just being let in, or the reply that said so was lost: a
\* transaction that failed never uses a ticket up (tickets/repository.go:609).
TurnedAwayWereLetIn ==
  \A t \in turned :
    \/ t \in told \cup lost
    \/ \E q \in Requests : request[q].step = "in" /\ request[q].ticket = t

\* A user whose row is gone keeps scanning until the token expires, and not
\* longer, whatever refresh was under way when the row went (middleware/auth.go:44).
RemovedStaffStop ==
  \A u \in Users :
    u \notin staff ~> [](u \notin tokens /\ \A q \in Requests : request[q].user # u)
=============================================================================
