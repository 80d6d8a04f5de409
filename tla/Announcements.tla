---------------------------- MODULE Announcements ----------------------------
(***************************************************************************)
(* An event from draft to bookable to cancelled, and who is told: the      *)
(* organizer's calls on the event, its sessions and its ticket types, and  *)
(* the pushes they send (internal/events/service.go and repository.go).    *)
(*                                                                         *)
(* The calls run without a transaction.  Each reads the event, writes,     *)
(* reads again, and pushes what follows from all it has read; each of      *)
(* these is a step, and other calls run in between.  Ids are fresh UUIDs.  *)
(* A call that fails half-way sends nothing, and so does a server without  *)
(* Firebase: pushes are best effort, and the properties are about calls    *)
(* that come to their end.                                                 *)
(***************************************************************************)
EXTENDS Naturals, FiniteSets

CONSTANTS
  Sessions,    \* event_sessions.id
  Types,       \* ticket_types.id
  Requests,    \* calls the server handles at the same time
  NoSession,   \* a ticket type without a row, a call that is about no session
  NoType       \* a call that has inserted no ticket type

ASSUME NoSessionAssumption == NoSession \notin Sessions
ASSUME NoTypeAssumption == NoType \notin Types
ASSUME TypesAssumption == IsFiniteSet(Types)

VARIABLES
  status,      \* events.status, "deleted" when the row is gone
  sessions,    \* the sessions that have a row
  session,     \* ticket_types.event_session_id
  made,        \* the ids that were used
  request,     \* what each call has read, and its next step
  push,        \* the push the last step sent
  announced,   \* history: everyone was told since the event became bookable
  warned,      \* history: ticket holders were told since it was cancelled
  overlapped   \* history: a call ran while another was under way, since all were last
               \* at rest with an event that nobody need be told of

rows    == <<status, sessions, session, made>>
history == <<announced, warned>>
vars    == <<rows, request, push, history, overlapped>>

Saved == {"draft", "published", "cancelled"}
Idle ==
  [step |-> "idle", was |-> "draft", new |-> "draft",
   session |-> NoSession, type |-> NoType]

Request ==
  [step    : {"idle", "update", "updated", "readback", "insert", "inserted"},
   was     : Saved,                      \* the status the event was read with
   new     : Saved,                      \* the status saved, then the one read back
   session : Sessions \cup {NoSession},  \* where the ticket type goes
   type    : Types \cup {NoType}]        \* the ticket type inserted

\* EventBookingReadiness.
TypeCount == Cardinality({t \in Types : session[t] # NoSession})
HasPieces == sessions # {} /\ TypeCount > 0
Bookable == status = "published" /\ HasPieces

Go(q, r) == request' = [request EXCEPT ![q] = r]

\* A step that writes the tables and pushes nothing.
Writes ==
  /\ push' = "none"
  /\ announced' = (announced /\ Bookable')
  /\ warned' = (warned /\ status' = "cancelled")

\* A step that pushes p, or "none", and writes nothing.
Sends(p) ==
  /\ push' = p
  /\ announced' = (announced \/ (p = "event_available" /\ Bookable))
  /\ warned' = (warned \/ (p = "event_cancelled" /\ status = "cancelled"))
  /\ UNCHANGED rows

-----------------------------------------------------------------------------
(* Update: the event is read, written, read back, and announced. *)

BeginUpdate(q, new) ==
  /\ request[q] = Idle
  /\ status # "deleted"
  /\ Go(q, [Idle EXCEPT !.step = "update", !.was = status, !.new = new])
  /\ Sends("none")

WriteUpdate(q) ==
  /\ request[q].step = "update"
  /\ status # "deleted"
  /\ status' = request[q].new
  /\ UNCHANGED <<sessions, session, made>>
  /\ Go(q, [request[q] EXCEPT !.step = "updated"])
  /\ Writes

ReadUpdated(q) ==
  /\ request[q].step = "updated"
  /\ status # "deleted"
  /\ Go(q, [request[q] EXCEPT !.step = "readback", !.new = status])
  /\ Sends("none")

\* Mutation: only a published event warns its ticket holders.
Unpublished(was, new) == new = "cancelled" /\ was = "published"
Cancelled(was, new) == new = "cancelled" /\ was # "cancelled"

\* Mutation: what the event was before is not looked at.
Republished(was, new) == TRUE
JustPublished(was, new) == was # "published"

\* Mutation: a published event is bookable whatever it has.
SessionsEnough == sessions # {}
PiecesEnough == HasPieces

NotifyUpdate(q) ==
  LET was == request[q].was
      new == request[q].new
  IN
  /\ request[q].step = "readback"
  /\ Go(q, Idle)
  /\ \/ Cancelled(was, new) /\ Sends("event_cancelled")
     \/ /\ ~Cancelled(was, new)
        /\ \/ /\ new = "published" /\ PiecesEnough
              /\ Sends(IF JustPublished(was, new) THEN "event_available" ELSE "audience")
           \/ ~(new = "published" /\ PiecesEnough) /\ Sends("none")

-----------------------------------------------------------------------------
(* CreateTicketType: the event and the session are read, the row is        *)
(* inserted and read back, the ticket types are counted.                   *)

BeginTicketType(q, s) ==
  /\ request[q] = Idle
  /\ s \in sessions
  /\ Go(q, [Idle EXCEPT !.step = "insert", !.was = status, !.session = s])
  /\ Sends("none")

\* ticket_types.event_session_id REFERENCES event_sessions.  Mutation: there is
\* no foreign key, and the read before the insert is trusted.
AsRead(s) == s # NoSession
References(s) == s \in sessions

InsertTicketType(q, t) ==
  /\ request[q].step = "insert"
  /\ References(request[q].session)
  /\ t \notin made
  /\ session' = [session EXCEPT ![t] = request[q].session]
  /\ made' = made \cup {t}
  /\ UNCHANGED <<status, sessions>>
  /\ Go(q, [request[q] EXCEPT !.step = "inserted", !.type = t])
  /\ Writes

\* Mutation: the count is taken for the one before the insert.
NoneBefore(n) == n = 0
First(n) == n = 1

NotifyTicketType(q) ==
  /\ request[q].step = "inserted"
  /\ Go(q, Idle)
  /\ \/ /\ request[q].was = "published" /\ HasPieces
        /\ Sends(IF First(TypeCount) THEN "event_available" ELSE "audience")
     \/ ~(request[q].was = "published" /\ HasPieces) /\ Sends("none")

\* What the call reads, reads back or refers to is gone.
NotFound(q) ==
  /\ \/ request[q].step \in {"update", "updated"} /\ status = "deleted"
     \/ request[q].step = "insert" /\ request[q].session \notin sessions
     \/ request[q].step = "inserted" /\ session[request[q].type] = NoSession
  /\ Go(q, Idle)
  /\ Sends("none")

-----------------------------------------------------------------------------
(* Calls that write once: what they read before matters to nobody, and what *)
(* they push is for ticket holders.                                        *)

CreateSession(q, s) ==
  /\ request[q] = Idle
  /\ status # "deleted"
  /\ s \notin made
  /\ sessions' = sessions \cup {s}
  /\ made' = made \cup {s}
  /\ UNCHANGED <<status, session, request>>
  /\ Writes

CascadeTypes(gone) ==
  [t \in Types |-> IF session[t] \in gone THEN NoSession ELSE session[t]]

\* The DELETEs fail as a whole once a ticket type was ordered: a step that does
\* not happen.
DeleteSession(q, s) ==
  /\ request[q] = Idle
  /\ s \in sessions
  /\ sessions' = sessions \ {s}
  /\ session' = CascadeTypes({s})
  /\ UNCHANGED <<status, made, request>>
  /\ Writes

DeleteTicketType(q, t) ==
  /\ request[q] = Idle
  /\ session[t] # NoSession
  /\ session' = [session EXCEPT ![t] = NoSession]
  /\ UNCHANGED <<status, sessions, made, request>>
  /\ Writes

Delete(q) ==
  /\ request[q] = Idle
  /\ status # "deleted"
  /\ status' = "deleted"
  /\ sessions' = {}
  /\ session' = CascadeTypes(sessions)
  /\ UNCHANGED <<made, request>>
  /\ Writes

-----------------------------------------------------------------------------
\* Create has just made the event, with any status, and told nobody.
Init ==
  /\ status \in Saved
  /\ sessions = {}
  /\ session = [t \in Types |-> NoSession]
  /\ made = {}
  /\ request = [q \in Requests |-> Idle]
  /\ push = "none"
  /\ announced = FALSE
  /\ warned = (status = "cancelled")
  /\ overlapped = FALSE

Update(q) ==
  \/ \E new \in Saved : BeginUpdate(q, new)
  \/ WriteUpdate(q)
  \/ ReadUpdated(q)
  \/ NotifyUpdate(q)

CreateTicketType(q) ==
  \/ \E s \in Sessions : BeginTicketType(q, s)
  \/ \E t \in Types : InsertTicketType(q, t)
  \/ NotifyTicketType(q)

Handle(q) ==
  \/ Update(q)
  \/ CreateTicketType(q)
  \/ NotFound(q)
  \/ \E s \in Sessions : CreateSession(q, s) \/ DeleteSession(q, s)
  \/ \E t \in Types : DeleteTicketType(q, t)
  \/ Delete(q)

Overlaps(q) == \E p \in Requests \ {q} : request[p] # Idle

Quiet == \A q \in Requests : request[q] = Idle
FreshStart == Quiet /\ ~Bookable /\ status # "cancelled"

Remember(q) == overlapped' = (~FreshStart' /\ (overlapped \/ Overlaps(q)))

Next == \E q \in Requests : Handle(q) /\ Remember(q)

Spec == Init /\ [][Next]_vars

-----------------------------------------------------------------------------
(* Properties. *)

\* The types of the variables; a ticket type's session has a row, and so has
\* the event of a session.
TypeOK ==
  /\ status \in Saved \cup {"deleted"}
  /\ sessions \in SUBSET Sessions
  /\ status = "deleted" => sessions = {}
  /\ session \in [Types -> sessions \cup {NoSession}]
  /\ made \in SUBSET (Sessions \cup Types)
  /\ request \in [Requests -> Request]
  /\ push \in {"none", "event_available", "audience", "event_cancelled"}
  /\ announced \in BOOLEAN
  /\ warned \in BOOLEAN
  /\ overlapped \in BOOLEAN

\* An event that can be booked was announced, however it came to be so: by its
\* status or by its first ticket type, and again after it was emptied or
\* unpublished.  Only calls that overlap may miss it (of two first ticket types each
\* counts two, service.go:684), and no longer than until the event is next at rest
\* and not bookable: then they have left nothing behind.
BookableIsAnnounced == ~overlapped /\ Quiet /\ Bookable => announced

\* The holders of tickets for a cancelled event have been warned, with the same
\* exception.
CancellationWarns == ~overlapped /\ Quiet /\ status = "cancelled" => warned

\* Everyone is told of an event only when it can be booked, and once until it no
\* longer can: "Callers must only invoke this when the event is currently bookable"
\* (service.go:90).  Only calls that overlapped, deciding on a status or a count
\* that another has changed, do otherwise.
OnlyNewsIsAnnounced ==
  [][push' = "event_available" /\ ~overlapped => Bookable /\ ~announced]_vars
=============================================================================
