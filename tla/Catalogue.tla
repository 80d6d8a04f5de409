------------------------------ MODULE Catalogue ------------------------------
(***************************************************************************)
(* What the public sees of an event, and what it can reserve: the event's  *)
(* status, the times and statuses of its sessions, and their ticket types, *)
(* against the clock, the organizer's edits and the maintenance job        *)
(* (internal/events/repository.go, service.go, validation.go, app/app.go). *)
(*                                                                         *)
(* A public page, one of the list or an event's own, is read without a     *)
(* transaction: first the event, then its sessions, then the ticket types  *)
(* of one session after the other.  Anything may happen in between.        *)
(*                                                                         *)
(* An organizer's call is one step here.  It reads before it writes, but   *)
(* an event's sessions and a session's types never move, so all that can   *)
(* change in between is that the row is gone, and then the call fails.     *)
(* Ids are fresh UUIDs: a slot is not used again while a page names it.    *)
(***************************************************************************)
EXTENDS Naturals

CONSTANTS
  Sessions,    \* event_sessions.id
  Types,       \* ticket_types.id
  NoSession,   \* a ticket type without a row
  Plans,       \* the times an organizer may send for a session
  NoEnd,       \* sales_ends_at IS NULL: later than all times
  MaxTime      \* bound: the clock stops here

ASSUME NoSessionAssumption == NoSession \notin Sessions
ASSUME TimeAssumption == MaxTime \in Nat /\ NoEnd \in Nat /\ NoEnd > MaxTime
\* opens is 0 when sales_starts_at IS NULL.
Plan == [starts : 0..MaxTime, ends : 0..MaxTime, opens : 0..MaxTime,
         closes : 0..MaxTime \cup {NoEnd}]
ASSUME PlansAssumption == Plans \subseteq Plan

VARIABLES
  now,         \* UTC_TIMESTAMP()
  status,      \* events.status, "deleted" when the row is gone
  plan,        \* the times of a session
  state,       \* event_sessions.status, "none" without a row
  session,     \* ticket_types.event_session_id
  page,        \* a public page that is being read
  edited,      \* history: the organizer wrote while the page was read
  seen,        \* history: the types that could be reserved while the page was read
  lasting      \* history: those listed and reservable all that while

event   == <<status, plan, state, session>>
vars    == <<now, event, page, edited, seen, lasting>>

NoPage == [step |-> "none", todo |-> {}, shown |-> {}]
NoPlan == [starts |-> 0, ends |-> 0, opens |-> 0, closes |-> 0]

-----------------------------------------------------------------------------
(* Three queries that must agree. *)

Open(s) == plan[s].opens <= now /\ now <= plan[s].closes

\* UpsertReservation accepts an item of t, as far as the catalogue decides.
Reservable(t) ==
  /\ session[t] # NoSession
  /\ status = "published"
  /\ state[session[t]] = "scheduled"
  /\ Open(session[t])

\* The WHERE of ListPublicSessionsByEventID, and of next_sessions in
\* listPublicEventsQuery.  Mutation: the sales window is left out.
ListedAnyTime(s) ==
  /\ state[s] = "scheduled"
  /\ now <= plan[s].ends
  /\ \E t \in Types : session[t] = s
Listed(s) ==
  /\ state[s] = "scheduled"
  /\ now <= plan[s].ends
  /\ Open(s)
  /\ \E t \in Types : session[t] = s

\* ListPublicTicketTypesBySessionID.
PublicTypes(s) ==
  {t \in Types : session[t] = s /\ state[s] = "scheduled" /\ status = "published"}

Offered == {t \in Types : Reservable(t) /\ Listed(session[t])}

\* The histories follow every step of a page that is being read.
Watch ==
  IF page'.step = "none"
    THEN seen' = {} /\ lasting' = {}
    ELSE /\ seen' = (IF page.step = "none" THEN {} ELSE seen)
                      \cup {t \in Types : Reservable(t)'}
         /\ lasting' = (IF page.step = "none" THEN Types ELSE lasting) \cap Offered'

-----------------------------------------------------------------------------
(* The organizer. *)

Edits ==
  /\ edited' = (page.step # "none")
  /\ UNCHANGED <<now, page>>
  /\ Watch

Update(new) ==
  /\ status # "deleted"
  /\ status' = new
  /\ UNCHANGED <<plan, state, session>>
  /\ Edits

\* sessions and types go with their event: ON DELETE CASCADE.
Delete ==
  /\ status # "deleted"
  /\ status' = "deleted"
  /\ plan' = [s \in Sessions |-> NoPlan]
  /\ state' = [s \in Sessions |-> "none"]
  /\ session' = [t \in Types |-> NoSession]
  /\ Edits

\* validateEventSessionInput.
Valid(p) ==
  /\ p.starts < p.ends
  /\ p.opens <= p.closes
  /\ p.opens <= p.starts
  /\ p.closes # NoEnd => p.closes <= p.ends

SaveSession(s, p, st) ==
  /\ Valid(p)
  /\ plan' = [plan EXCEPT ![s] = p]
  /\ state' = [state EXCEPT ![s] = st]
  /\ UNCHANGED <<status, session>>
  /\ Edits

CreateSession(s, p, st) ==
  /\ status # "deleted"
  /\ state[s] = "none"
  /\ s \notin page.todo
  /\ SaveSession(s, p, st)

\* Any status, whatever it was: a completed session may be scheduled again.
UpdateSession(s, p, st) ==
  /\ state[s] # "none"
  /\ SaveSession(s, p, st)

\* Mutation: the ticket types of a session stay.
KeptTypes(s) == session
TypesWithout(s) == [t \in Types |-> IF session[t] = s THEN NoSession ELSE session[t]]

DeleteSession(s) ==
  /\ state[s] # "none"
  /\ plan' = [plan EXCEPT ![s] = NoPlan]
  /\ state' = [state EXCEPT ![s] = "none"]
  /\ session' = TypesWithout(s)
  /\ UNCHANGED status
  /\ Edits

CreateTicketType(t, s) ==
  /\ session[t] = NoSession
  /\ state[s] # "none"
  /\ t \notin page.shown
  /\ session' = [session EXCEPT ![t] = s]
  /\ UNCHANGED <<status, plan, state>>
  /\ Edits

DeleteTicketType(t) ==
  /\ session[t] # NoSession
  /\ session' = [session EXCEPT ![t] = NoSession]
  /\ UNCHANGED <<status, plan, state>>
  /\ Edits

-----------------------------------------------------------------------------
(* The clock and the maintenance job. *)

Tick ==
  /\ now < MaxTime
  /\ now' = now + 1
  /\ UNCHANGED <<event, page, edited>>
  /\ Watch

\* Mutation: only sessions of which nothing is on sale are completed.
ClosedAndPast(s) == state[s] = "scheduled" /\ plan[s].ends <= now /\ ~Open(s)
Past(s) == state[s] = "scheduled" /\ plan[s].ends <= now

CompletePastEventSessions ==
  /\ \E s \in Sessions : Past(s)
  /\ state' = [s \in Sessions |-> IF Past(s) THEN "completed" ELSE state[s]]
  /\ UNCHANGED <<now, status, plan, session, page, edited>>
  /\ Watch

-----------------------------------------------------------------------------
(* A public page. *)

\* The event is found when it is published and one of its sessions is listed.
ReadEvent ==
  /\ page.step = "none"
  /\ status = "published"
  /\ \E s \in Sessions : Listed(s)
  /\ page' = [NoPage EXCEPT !.step = "sessions"]
  /\ edited' = FALSE
  /\ UNCHANGED <<now, event>>
  /\ Watch

ReadSessions ==
  /\ page.step = "sessions"
  /\ page' = [page EXCEPT !.step = "types", !.todo = {s \in Sessions : Listed(s)}]
  /\ UNCHANGED <<now, event, edited>>
  /\ Watch

ReadTypes(s) ==
  /\ page.step = "types"
  /\ s \in page.todo
  /\ page' = [page EXCEPT !.todo = @ \ {s}, !.shown = @ \cup PublicTypes(s)]
  /\ UNCHANGED <<now, event, edited>>
  /\ Watch

\* The page, or 404 when there is no ticket type on it; and the next is read.
Answer ==
  /\ page.step = "types"
  /\ page.todo = {}
  /\ page' = NoPage
  /\ edited' = FALSE
  /\ UNCHANGED <<now, event>>
  /\ Watch

-----------------------------------------------------------------------------
\* Create has just made the event.
Init ==
  /\ now = 0
  /\ status \in {"draft", "published", "cancelled"}
  /\ plan = [s \in Sessions |-> NoPlan]
  /\ state = [s \in Sessions |-> "none"]
  /\ session = [t \in Types |-> NoSession]
  /\ page = NoPage
  /\ edited = FALSE
  /\ seen = {}
  /\ lasting = {}

Organizer ==
  \/ \E new \in {"draft", "published", "cancelled"} : Update(new)
  \/ Delete
  \/ \E s \in Sessions :
       \/ \E p \in Plans, st \in {"scheduled", "completed", "cancelled"} :
            CreateSession(s, p, st) \/ UpdateSession(s, p, st)
       \/ DeleteSession(s)
       \/ \E t \in Types : CreateTicketType(t, s)
  \/ \E t \in Types : DeleteTicketType(t)

Reader ==
  \/ ReadEvent
  \/ ReadSessions
  \/ \E s \in Sessions : ReadTypes(s)
  \/ Answer

Next == Organizer \/ Tick \/ CompletePastEventSessions \/ Reader

Spec == Init /\ [][Next]_vars

\* The job runs every minute for as long as the server does (app.go:101).
FairSpec == Spec /\ WF_vars(CompletePastEventSessions)

-----------------------------------------------------------------------------
(* Properties. *)

\* The types of the variables; a ticket type's session has a row, and a
\* session's times are in the order that was asked for when they were saved.
TypeOK ==
  /\ now \in 0..MaxTime
  /\ status \in {"draft", "published", "cancelled", "deleted"}
  /\ plan \in [Sessions -> Plan]
  /\ state \in [Sessions -> {"none", "scheduled", "completed", "cancelled"}]
  /\ session \in [Types -> {s \in Sessions : state[s] # "none"} \cup {NoSession}]
  /\ page \in [step : {"none", "sessions", "types"},
               todo : SUBSET Sessions, shown : SUBSET Types]
  /\ edited \in BOOLEAN
  /\ seen \in SUBSET Types
  /\ lasting \in SUBSET Types
  /\ \A s \in Sessions : state[s] # "none" => Valid(plan[s])

Read == page.step = "types" /\ page.todo = {}

\* A page that is put together from several reads misses nothing that was on
\* sale all the while, whatever was edited in between; and if nothing was, all
\* it shows could be reserved at some time while it was read.
PagesShowWhatIsOnSale ==
  Read => /\ lasting \subseteq page.shown
          /\ ~edited => page.shown \subseteq seen

\* A reservation does not look at ends_at, so a session without sales_ends_at
\* sells on when it is over: but not for ever, the job sees to that, also when
\* the organizer schedules it again (repository.go:1474 and :1283).
PastSessionsStopSelling ==
  \A t \in Types, s \in Sessions :
    (session[t] = s /\ Reservable(t) /\ plan[s].ends < now)
      ~> ~(session[t] = s /\ Reservable(t) /\ plan[s].ends < now)
=============================================================================
