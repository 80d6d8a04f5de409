--------------------------- MODULE OrganizerAdmins ---------------------------
(***************************************************************************)
(* Organizers and the accounts that administer them                        *)
(* (internal/admins/service.go and repository.go, internal/users).         *)
(*                                                                         *)
(* CreateOrganizerAdmin and DeleteOrganizer are transactions and one step  *)
(* here.  AddOrganizerAdmin, DeleteOrganizerAdmin and DeleteProfile are    *)
(* statements one after the other, each a step, with other requests in     *)
(* between.  Ids are fresh UUIDs, so an organizer or an account that was   *)
(* deleted never comes back.                                               *)
(***************************************************************************)
EXTENDS Naturals, FiniteSets

CONSTANTS
  Organizers,    \* organizers.id
  Admins,        \* users.id of organizer admins
  Requests,      \* requests the server handles at the same time
  NoOrganizer,   \* no organizer: an account nobody has made yet, an idle request
  NoAdmin        \* no account: an idle request

ASSUME NoOrganizerAssumption == NoOrganizer \notin Organizers
ASSUME NoAdminAssumption == NoAdmin \notin Admins

VARIABLES
  organizer,     \* organizers: "none", "active", "deleted"
  rows,          \* the organizer admins that have a row in users
  organizerOf,   \* users.organizer_id
  request        \* what each request has read and does next

vars == <<organizer, rows, organizerOf, request>>

AdminsOf(o) == {a \in rows : organizerOf[a] = o}

Idle == [step |-> "idle", organizer |-> NoOrganizer, admin |-> NoAdmin, seen |-> {}]

Request ==
  [step      : {"idle", "add", "count", "remove", "leave"},
   organizer : Organizers \cup {NoOrganizer},
   admin     : Admins \cup {NoAdmin},
   seen      : SUBSET Admins]        \* the admins that the COUNT(*) counted

End(q) == request' = [request EXCEPT ![q] = Idle]

Insert(o, a) ==
  /\ organizerOf[a] = NoOrganizer
  /\ rows' = rows \cup {a}
  /\ organizerOf' = [organizerOf EXCEPT ![a] = o]

-----------------------------------------------------------------------------

\* A new organizer comes with its first admin.
CreateOrganizerAdmin(o, a) ==
  /\ organizer[o] = "none"
  /\ organizer' = [organizer EXCEPT ![o] = "active"]
  /\ Insert(o, a)
  /\ UNCHANGED request

\* Mutation: the admins are not deleted first; ON DELETE SET NULL keeps them.
DeleteOrganizerAlone(o) ==
  /\ organizer[o] = "active"
  /\ organizer' = [organizer EXCEPT ![o] = "deleted"]
  /\ organizerOf' = [a \in Admins |-> IF a \in AdminsOf(o) THEN NoOrganizer
                                                           ELSE organizerOf[a]]
  /\ UNCHANGED <<rows, request>>

\* Fails as a whole while orders refer to the organizer's ticket types: a step
\* that does not happen.
DeleteOrganizer(o) ==
  /\ organizer[o] = "active"
  /\ organizer' = [organizer EXCEPT ![o] = "deleted"]
  /\ rows' = rows \ AdminsOf(o)
  /\ UNCHANGED <<organizerOf, request>>

\* AddOrganizerAdmin: ensureOrganizerExists, then the INSERT.
BeginAdd(q, o) ==
  /\ request[q] = Idle
  /\ organizer[o] = "active"
  /\ request' = [request EXCEPT ![q] = [Idle EXCEPT !.step = "add", !.organizer = o]]
  /\ UNCHANGED <<organizer, rows, organizerOf>>

\* users.organizer_id REFERENCES organizers.  Mutation: there is no foreign key.
AnyOrganizer(o) == organizer[o] # "none"
References(o) == organizer[o] = "active"

AddOrganizerAdmin(q, a) ==
  /\ request[q].step = "add"
  /\ References(request[q].organizer)
  /\ Insert(request[q].organizer, a)
  /\ End(q)
  /\ UNCHANGED organizer

\* DeleteOrganizerAdmin: ensureOrganizerAdminExists, the COUNT(*), the DELETE.
BeginRemove(q, o, a) ==
  /\ request[q] = Idle
  /\ a \in AdminsOf(o)
  /\ request' = [request EXCEPT ![q] =
                   [Idle EXCEPT !.step = "count", !.organizer = o, !.admin = a]]
  /\ UNCHANGED <<organizer, rows, organizerOf>>

\* adminCount <= 1 refuses.  Mutation: only a count of zero does.
SomeAreLeft(n) == n >= 1
OthersAreLeft(n) == n > 1

CountAdmins(q) ==
  LET seen == AdminsOf(request[q].organizer) IN
  /\ request[q].step = "count"
  /\ OthersAreLeft(Cardinality(seen))
  /\ request' = [request EXCEPT ![q].step = "remove", ![q].seen = seen]
  /\ UNCHANGED <<organizer, rows, organizerOf>>

\* The DELETE says whose admin it removes, and removes nothing if there is none.
DeleteOrganizerAdmin(q) ==
  /\ request[q].step = "remove"
  /\ rows' = rows \ {request[q].admin}
  /\ End(q)
  /\ UNCHANGED <<organizer, organizerOf>>

\* DELETE /v1/users/me: the row is read, the Firebase account is deleted, then
\* the row.  Nobody counts the admins that stay.
BeginLeave(q, a) ==
  /\ request[q] = Idle
  /\ a \in rows
  /\ request' = [request EXCEPT ![q] = [Idle EXCEPT !.step = "leave", !.admin = a]]
  /\ UNCHANGED <<organizer, rows, organizerOf>>

DeleteProfile(q) ==
  /\ request[q].step = "leave"
  /\ rows' = rows \ {request[q].admin}
  /\ End(q)
  /\ UNCHANGED <<organizer, organizerOf>>

\* Refused (too few admins, a statement that fails), or the server stops.
Fail(q) ==
  /\ request[q] # Idle
  /\ End(q)
  /\ UNCHANGED <<organizer, rows, organizerOf>>

-----------------------------------------------------------------------------
Init ==
  /\ organizer = [o \in Organizers |-> "none"]
  /\ rows = {}
  /\ organizerOf = [a \in Admins |-> NoOrganizer]
  /\ request = [q \in Requests |-> Idle]

Handle(q) ==
  \/ \E o \in Organizers : BeginAdd(q, o)
  \/ \E a \in Admins : AddOrganizerAdmin(q, a) \/ BeginLeave(q, a)
  \/ \E o \in Organizers, a \in Admins : BeginRemove(q, o, a)
  \/ CountAdmins(q)
  \/ DeleteOrganizerAdmin(q)
  \/ DeleteProfile(q)
  \/ Fail(q)

Next ==
  \/ \E o \in Organizers : DeleteOrganizer(o)
  \/ \E o \in Organizers, a \in Admins : CreateOrganizerAdmin(o, a)
  \/ \E q \in Requests : Handle(q)

Spec == Init /\ [][Next]_vars

-----------------------------------------------------------------------------
(* Properties. *)

\* The types of the variables; an account with a row has an organizer.
TypeOK ==
  /\ organizer \in [Organizers -> {"none", "active", "deleted"}]
  /\ rows \in SUBSET {a \in Admins : organizerOf[a] # NoOrganizer}
  /\ organizerOf \in [Admins -> Organizers \cup {NoOrganizer}]
  /\ request \in [Requests -> Request]

\* No admin outlives the organizer, also not one whose addition was under way
\* when the organizer was deleted.
AdminsHaveOrganizers == \A a \in rows : organizer[organizerOf[a]] = "active"

\* The step in which q's DELETE removes an admin of o.
Removes(q, o) ==
  /\ request[q].step = "remove" /\ request[q].organizer = o
  /\ request'[q] = Idle
  /\ request[q].admin \in rows \ rows'

\* A removal that leaves an organizer without admins was overtaken: one of the
\* admins it had counted went before it did.  Alone, the count is a safe check.
OnlyOvertakenRemovalsTakeTheLast ==
  [][\A q \in Requests, o \in Organizers :
       Removes(q, o) /\ request[q].seen \subseteq rows => AdminsOf(o)' # {}]_vars
=============================================================================
