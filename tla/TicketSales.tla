----------------------------- MODULE TicketSales -----------------------------
(***************************************************************************)
(* Selling tickets: holds (ticket_reservations), orders (checkout_orders), *)
(* Stripe checkout sessions, Stripe's webhooks, and issued tickets, over   *)
(* the stock of the ticket types an organizer lists                        *)
(* (internal/events/repository.go, internal/events/service.go).            *)
(*                                                                         *)
(* Each handler that changes this state runs in one InnoDB transaction     *)
(* that takes its row locks before it reads what it decides on, so a       *)
(* handler is one atomic action here; a transaction that fails or loses a  *)
(* deadlock rolls back and changes nothing, which is a stuttering step.    *)
(* What is not in the transaction is a step of its own: the passage of     *)
(* time, the customer on Stripe's page, and the delivery of a webhook,     *)
(* which Stripe repeats until it is answered with success.                 *)
(*                                                                         *)
(* An order is named by its reservation: checkout_orders.reservation_id    *)
(* is UNIQUE.  A reservation names a row slot: a deleted row leaves no     *)
(* trace, so its slot can stand for the next reservation.                  *)
(***************************************************************************)
EXTENDS Integers, FiniteSets, FiniteSetsExt

CONSTANTS
  Types,          \* ticket types
  Reservations,   \* reservation slots, which name their orders too
  Sessions,       \* Stripe checkout sessions
  NoSession,      \* stripe_checkout_session_id IS NULL
  NoBuyer,        \* nobody was sent to this Stripe session
  Listings,       \* the <<quantity, max_per_order>> an organizer may save
  Requests        \* the (normalised) item lists a customer may ask for

Nothing == [t \in Types |-> 0]

ASSUME NoSessionAssumption == NoSession \notin Sessions
ASSUME NoBuyerAssumption == NoBuyer \notin Reservations
\* The rows of a table can be counted, and what they hold can be added up.
ASSUME ReservationsAssumption == IsFiniteSet(Reservations)
\* validateTicketTypeInput: 0 < max_per_order <= quantity.
ASSUME ListingsAssumption ==
  Listings \subseteq {l \in (Nat \ {0}) \X (Nat \ {0}) : l[2] <= l[1]}
\* UpsertReservation refuses an empty list and quantities that are not positive.
ASSUME RequestsAssumption == Requests \subseteq [Types -> Nat] \ {Nothing}

VARIABLES
  \* ticket_types
  listed,         \* the ticket types that have a row
  onSale,         \* those whose event is published, session scheduled, window open
  quantity,       \* ticket_types.quantity: what is left to sell
  maxPerOrder,    \* ticket_types.max_per_order
  \* ticket_reservations, ticket_reservation_items
  hold,           \* the row and its expires_at
  held,           \* the items of the row
  \* checkout_orders, checkout_order_items
  status,         \* checkout_orders.status, "none" without a row
  ordered,        \* the order's items
  recorded,       \* checkout_orders.stripe_checkout_session_id
  \* tickets
  tickets,        \* how many tickets of each type the order has
  \* Stripe
  stripe,         \* the session at Stripe
  buyer           \* the order whose customer was given the session's URL

listing == <<listed, onSale, quantity, maxPerOrder>>
holds   == <<hold, held>>
orders  == <<status, ordered, recorded>>
payment == <<stripe, buyer>>
vars    == <<listing, holds, orders, tickets, payment>>

-----------------------------------------------------------------------------
\* expires_at > UTC_TIMESTAMP().  A "live" hold has at most ten minutes to go,
\* a "kept" one ten years: the reservation of a paid order.
Live(r) == hold[r] \in {"live", "kept"}

\* What other live reservations hold of t.
\* Mutation: a hold with an order is taken for one that was sold.
ReservedWithoutOrder(r, t) ==
  MapThenSumSet(LAMBDA o : held[o][t],
                {o \in Reservations \ {r} : Live(o) /\ status[o] = "none"})
ReservedByOthers(r, t) ==
  MapThenSumSet(LAMBDA o : held[o][t], {o \in Reservations \ {r} : Live(o)})

\* Rows CleanupExpiredReservations deletes: expired, and no order refers to them.
\* Mutation: the NOT IN subquery is lost.
StaleAnyOrder(r) == hold[r] = "lapsed"
Stale(r) == hold[r] = "lapsed" /\ status[r] = "none"

SweptHold == [r \in Reservations |-> IF Stale(r) THEN "none" ELSE hold[r]]
SweptHeld == [r \in Reservations |-> IF Stale(r) THEN Nothing ELSE held[r]]

-----------------------------------------------------------------------------
(* The organizer's side. *)

CreateTicketType(t, l) ==
  /\ t \notin listed
  /\ listed' = listed \cup {t}
  /\ quantity' = [quantity EXCEPT ![t] = l[1]]
  /\ maxPerOrder' = [maxPerOrder EXCEPT ![t] = l[2]]
  /\ UNCHANGED <<onSale, holds, orders, tickets, payment>>

\* The saved quantity replaces the stock, whatever was sold since it was read.
UpdateTicketType(t, l) ==
  /\ t \in listed
  /\ quantity' = [quantity EXCEPT ![t] = l[1]]
  /\ maxPerOrder' = [maxPerOrder EXCEPT ![t] = l[2]]
  /\ UNCHANGED <<listed, onSale, holds, orders, tickets, payment>>

\* checkout_order_items.ticket_type_id ON DELETE RESTRICT: a type that was
\* ever ordered stays.  Mutation: the constraint is only looked at for paid orders.
NeverSold(t) == \A r \in Reservations : status[r] = "paid" => ordered[r][t] = 0
NeverOrdered(t) == \A r \in Reservations : ordered[r][t] = 0

\* Held items go with the type: ticket_reservation_items ... ON DELETE CASCADE.
DeleteTicketType(t) ==
  /\ t \in listed
  /\ NeverOrdered(t)
  /\ listed' = listed \ {t}
  /\ onSale' = onSale \ {t}
  /\ quantity' = [quantity EXCEPT ![t] = 0]
  /\ maxPerOrder' = [maxPerOrder EXCEPT ![t] = 0]
  /\ held' = [r \in Reservations |-> [held[r] EXCEPT ![t] = 0]]
  /\ UNCHANGED <<hold, orders, tickets, payment>>

\* Event published, session scheduled, sales window reached; and the opposite:
\* cancelled, completed by the maintenance job, window over.
OpenSales(t) ==
  /\ t \in listed \ onSale
  /\ onSale' = onSale \cup {t}
  /\ UNCHANGED <<listed, quantity, maxPerOrder, holds, orders, tickets, payment>>

CloseSales(t) ==
  /\ t \in onSale
  /\ onSale' = onSale \ {t}
  /\ UNCHANGED <<listed, quantity, maxPerOrder, holds, orders, tickets, payment>>

-----------------------------------------------------------------------------
(* Holding. *)

\* GetReservation, and every call that cleans up and is then refused.
CleanupExpiredReservations ==
  /\ \E r \in Reservations : Stale(r)
  /\ hold' = SweptHold
  /\ held' = SweptHeld
  /\ UNCHANGED <<listing, orders, tickets, payment>>

\* The checks of UpsertReservation on one item.
Grantable(r, t, n) ==
  /\ t \in onSale
  /\ n <= maxPerOrder[t]
  /\ n <= quantity[t] - ReservedByOthers(r, t)

\* A new reservation, or new items for one that is still live.  Whether an
\* order was already made from the reservation is not looked at.
UpsertReservation(r, want) ==
  /\ SweptHold[r] # "lapsed"
  /\ \A t \in Types : want[t] > 0 => Grantable(r, t, want[t])
  /\ hold' = [SweptHold EXCEPT ![r] = "live"]
  /\ held' = [SweptHeld EXCEPT ![r] = want]
  /\ UNCHANGED <<listing, orders, tickets, payment>>

\* With an order the row is kept, and the call succeeds without effect.
DeleteReservation(r) ==
  /\ hold[r] # "none"
  /\ status[r] = "none"
  /\ hold' = [hold EXCEPT ![r] = "none"]
  /\ held' = [held EXCEPT ![r] = Nothing]
  /\ UNCHANGED <<listing, orders, tickets, payment>>

\* Ten minutes pass.
Lapse(r) ==
  /\ hold[r] = "live"
  /\ hold' = [hold EXCEPT ![r] = "lapsed"]
  /\ UNCHANGED <<listing, held, orders, tickets, payment>>

-----------------------------------------------------------------------------
(* Ordering and paying. *)

Orderable(r) == Live(r) /\ held[r] # Nothing /\ status[r] = "none"

\* The held items are copied into the order.  If the reservation has an order
\* already, that one is returned and only the cleanup takes effect.
CreateCheckoutOrder(r) ==
  /\ Orderable(r)
  /\ status' = [status EXCEPT ![r] = "pending_payment"]
  /\ ordered' = [ordered EXCEPT ![r] = held[r]]
  /\ hold' = SweptHold
  /\ held' = SweptHeld
  /\ UNCHANGED <<listing, recorded, tickets, payment>>

\* An order gets a session while it is pending and has none: a second call is
\* answered with the recorded one.  Whether the hold is still live is not looked
\* at.  Mutation: a second call starts a second session.
NeedsAnother(r) == status[r] = "pending_payment"
NeedsSession(r) == status[r] = "pending_payment" /\ recorded[r] = NoSession

CreateStripeCheckoutSession(r, s) ==
  /\ NeedsSession(r)
  /\ stripe[s] = "unused"
  /\ stripe' = [stripe EXCEPT ![s] = "open"]
  /\ recorded' = [recorded EXCEPT ![r] = s]
  /\ buyer' = [buyer EXCEPT ![s] = r]
  /\ UNCHANGED <<listing, holds, status, ordered, tickets>>

\* Stripe made the session, then the UPDATE or the commit failed, or the server
\* stopped: the order does not know the session and the customer never sees it.
LoseStripeCheckoutSession(r, s) ==
  /\ NeedsSession(r)
  /\ stripe[s] = "unused"
  /\ stripe' = [stripe EXCEPT ![s] = "open"]
  /\ UNCHANGED <<listing, holds, orders, tickets, buyer>>

\* The customer completes the session.  A card is charged at once ("paid"); a
\* delayed method leaves the payment "processing", to be settled or "failed".
CompleteStripeSession(s, outcome) ==
  /\ stripe[s] = "open"
  /\ buyer[s] # NoBuyer
  /\ stripe' = [stripe EXCEPT ![s] = outcome]
  /\ UNCHANGED <<listing, holds, orders, tickets, buyer>>

SettleStripePayment(s, outcome) ==
  /\ stripe[s] = "processing"
  /\ stripe' = [stripe EXCEPT ![s] = outcome]
  /\ UNCHANGED <<listing, holds, orders, tickets, buyer>>

\* At least 31 minutes after it was made: the hold is long gone by then.
ExpireStripeSession(s) ==
  /\ stripe[s] = "open"
  /\ stripe' = [stripe EXCEPT ![s] = "expired"]
  /\ UNCHANGED <<listing, holds, orders, tickets, buyer>>

-----------------------------------------------------------------------------
(* Stripe's webhooks: any number of times, in any order, at any later time. *)

\* checkout.session.completed was sent when the customer finished, whatever
\* became of the payment; async_payment_succeeded has the same handler.
\* Mutation: the event's type is not looked at.
AnyEvent(s) == stripe[s] # "open"
Completed(s) == stripe[s] \in {"processing", "paid", "failed"}

\* Mutation: a redelivered webhook is not recognised.
HasOrder(r) == status[r] # "none"
Payable(r) == status[r] = "pending_payment"

\* The quantity >= ? of every UPDATE: one item short fails the whole webhook,
\* which changes nothing and is delivered again.  Mutation: it is lost.
Unchecked(r) == TRUE
InStock(r) == \A t \in Types : ordered[r][t] <= quantity[t]

StockAfter(r) == [t \in Types |-> quantity[t] - ordered[r][t]]

MarkCheckoutOrderPaid(r, s) ==
  /\ recorded[r] = s
  /\ Completed(s)
  /\ Payable(r)
  /\ InStock(r)
  /\ quantity' = StockAfter(r)
  /\ hold' = [hold EXCEPT ![r] = "kept"]
  /\ held' = [held EXCEPT ![r] = Nothing]
  /\ tickets' = [tickets EXCEPT ![r] = [t \in Types |-> @[t] + ordered[r][t]]]
  /\ status' = [status EXCEPT ![r] = "paid"]
  /\ UNCHANGED <<listed, onSale, maxPerOrder, ordered, recorded, payment>>

\* Mutation: the reservation is left to its own expiry.
ReleasedNever(r) == hold
Released(r) == [hold EXCEPT ![r] = "lapsed"]

\* Mutation: only a hold that is still live is released.
StillHolding(r) == status[r] = "pending_payment" /\ Live(r)
Expirable(r) == status[r] = "pending_payment"

MarkCheckoutOrderExpired(r, s) ==
  /\ recorded[r] = s
  /\ stripe[s] = "expired"
  /\ Expirable(r)
  /\ status' = [status EXCEPT ![r] = "expired"]
  /\ hold' = Released(r)
  /\ UNCHANGED <<listing, held, ordered, recorded, tickets, payment>>

-----------------------------------------------------------------------------
Init ==
  /\ listed = {}
  /\ onSale = {}
  /\ quantity = Nothing
  /\ maxPerOrder = Nothing
  /\ hold = [r \in Reservations |-> "none"]
  /\ held = [r \in Reservations |-> Nothing]
  /\ status = [r \in Reservations |-> "none"]
  /\ ordered = [r \in Reservations |-> Nothing]
  /\ recorded = [r \in Reservations |-> NoSession]
  /\ tickets = [r \in Reservations |-> Nothing]
  /\ stripe = [s \in Sessions |-> "unused"]
  /\ buyer = [s \in Sessions |-> NoBuyer]

Organizer ==
  \E t \in Types :
    \/ \E l \in Listings : CreateTicketType(t, l) \/ UpdateTicketType(t, l)
    \/ DeleteTicketType(t)
    \/ OpenSales(t)
    \/ CloseSales(t)

Customer ==
  \/ CleanupExpiredReservations
  \/ \E r \in Reservations :
       \/ \E want \in Requests : UpsertReservation(r, want)
       \/ DeleteReservation(r)
       \/ CreateCheckoutOrder(r)
       \/ \E s \in Sessions :
            \/ CreateStripeCheckoutSession(r, s)
            \/ LoseStripeCheckoutSession(r, s)
  \/ \E s \in Sessions, o \in {"paid", "processing"} : CompleteStripeSession(s, o)

Clock ==
  \/ \E r \in Reservations : Lapse(r)
  \/ \E s \in Sessions : ExpireStripeSession(s)
  \/ \E s \in Sessions, o \in {"paid", "failed"} : SettleStripePayment(s, o)

Webhook(r, s) == MarkCheckoutOrderPaid(r, s) \/ MarkCheckoutOrderExpired(r, s)

Next ==
  \/ Organizer
  \/ Customer
  \/ Clock
  \/ \E r \in Reservations, s \in Sessions : Webhook(r, s)

Spec == Init /\ [][Next]_vars

\* Stripe repeats a webhook until it is accepted, and closes what it opened.
\* Nothing obliges a customer, an organizer or the cleanup to act.
Fairness ==
  /\ \A r \in Reservations, s \in Sessions : WF_vars(Webhook(r, s))
  /\ \A s \in Sessions : WF_vars(ExpireStripeSession(s))

FairSpec == Spec /\ Fairness

-----------------------------------------------------------------------------
(* Type invariant. *)

Statuses == {"none", "pending_payment", "paid", "expired"}

\* Type correctness of every row; quantity \in Nat says that stock is never
\* sold below zero.
TypeOK ==
  /\ listed \subseteq Types
  /\ onSale \subseteq listed
  /\ quantity \in [Types -> Nat]
  /\ maxPerOrder \in [Types -> Nat]
  /\ hold \in [Reservations -> {"none", "live", "lapsed", "kept"}]
  /\ held \in [Reservations -> [Types -> Nat]]
  /\ status \in [Reservations -> Statuses]
  /\ ordered \in [Reservations -> [Types -> Nat]]
  /\ recorded \in [Reservations -> Sessions \cup {NoSession}]
  /\ tickets \in [Reservations -> [Types -> Nat]]
  /\ stripe \in [Sessions -> {"unused", "open", "processing", "paid", "failed", "expired"}]
  /\ buyer \in [Sessions -> Reservations \cup {NoBuyer}]

-----------------------------------------------------------------------------
(* Safety. *)

\* However often Stripe delivers a webhook, and whatever failed on the way, a
\* paid order has exactly the tickets it ordered and any other order has none
\* (markCheckoutOrderPaidByStripeSession).
PaidOrdersHaveTheirTickets ==
  \A r \in Reservations :
    tickets[r] = IF status[r] = "paid" THEN ordered[r] ELSE Nothing

\* An order outlives its hold: neither the cleanup nor the customer's DELETE
\* removes the reservation row an order refers to, which would cascade to the
\* order, its items and its tickets (repository.go:1606).
OrdersKeepTheirReservation ==
  \A r \in Reservations : status[r] # "none" => hold[r] # "none"

\* Nothing a customer holds or has ordered is of a deleted ticket type, so no
\* later sale finds its type missing (RESTRICT and CASCADE of the foreign keys).
NoTraceOfDeletedTypes ==
  \A t \in Types \ listed, r \in Reservations :
    held[r][t] = 0 /\ ordered[r][t] = 0

\* An expired order never has a live hold again: its reservation was released
\* with it and can be neither renewed nor paid for (repository.go:2692).
ExpiredOrdersHoldNothing ==
  \A r \in Reservations : status[r] = "expired" => hold[r] = "lapsed"

\* An order is settled the way its Stripe session ended, in whatever order the
\* webhooks arrive: nobody who completed checkout finds the order expired.
OrdersAgreeWithStripe ==
  \A r \in Reservations :
    /\ status[r] = "paid" =>
         recorded[r] \in Sessions /\ stripe[recorded[r]] \in {"processing", "paid", "failed"}
    /\ status[r] = "expired" => recorded[r] \in Sessions /\ stripe[recorded[r]] = "expired"

\* No webhook is lost for want of its order.  An expiry that finds no order with
\* its session, and either webhook that finds the order in another state, is
\* answered with success and never repeated (repository.go:2673, :2679, :2741); a
\* payment that finds none is an error to the mail (:2731, service.go:428) and
\* repeated in vain.  But the order a customer was sent to Stripe for still records
\* that session, across retries and failed commits, and as long as it is not
\* settled it is as the session's webhook asks for, whatever became of the hold.
WebhooksFindTheirOrder ==
  \A s \in Sessions, r \in Reservations :
    buyer[s] = r =>
      /\ recorded[r] = s
      /\ stripe[s] = "paid" => status[r] = "paid" \/ Payable(r)
      /\ stripe[s] = "expired" => status[r] = "expired" \/ Expirable(r)

-----------------------------------------------------------------------------
(* Action properties. *)

Held(t) == MapThenSumSet(LAMBDA r : held[r][t], {r \in Reservations : Live(r)})

\* How many units of t are promised to live holds without being in stock.
Shortfall(t) == IF Held(t) > quantity[t] THEN Held(t) - quantity[t] ELSE 0

\* An order is paid for more of t than its own live hold covers.
UncoveredSale(t) ==
  \E r \in Reservations :
    /\ status[r] = "pending_payment" /\ status'[r] = "paid"
    /\ ordered[r][t] > IF Live(r) THEN held[r][t] ELSE 0

OrganizerCut(t) == quantity'[t] < quantity[t] /\ UNCHANGED <<holds, orders>>

\* UpsertReservation never promises more than there is, over all competing
\* holds, renewals and expiries: the only ways to leave live holds without
\* stock are a payment that its own hold does not cover and an organizer who
\* lowers the quantity.
HoldsAreBacked ==
  [][\A t \in Types :
       Shortfall(t)' > Shortfall(t) => UncoveredSale(t) \/ OrganizerCut(t)]_vars

\* Once an order is made, its items never change, and once it is settled its
\* status does not either.
SettledOrdersStay ==
  [][\A r \in Reservations :
       /\ status[r] # "none" => ordered'[r] = ordered[r]
       /\ status[r] \in {"paid", "expired"} => status'[r] = status[r]]_vars

-----------------------------------------------------------------------------
(* Refinement. *)

Ledger == INSTANCE SeatLedger WITH
  Orders <- Reservations, stock <- quantity, items <- ordered, outcome <- status

\* Holds, renewals, lapses, Stripe's retries and lost sessions change nothing
\* about what is sold: every step is one of SeatLedger or invisible to it.  So a
\* unit leaves the stock only together with its ticket, all units of an order or
\* none, and no order outlives a type it is for (repository.go:1305 to 2887).
SellsFromTheLedger == Ledger!Spec

-----------------------------------------------------------------------------
(* Liveness. *)

\* A customer who was charged gets the tickets, or the stock is short of them
\* (and stays so until the organizer adds to it): Stripe's retries find the
\* order, however the webhooks and the customer's other calls interleave.
ChargedOrdersAreSettled ==
  \A s \in Sessions, r \in Reservations :
    (stripe[s] = "paid" /\ buyer[s] = r) ~> (status[r] = "paid" \/ ~InStock(r))

\* An order whose customer was sent to Stripe and did not pay in time does not
\* stay pending (and payable) for ever: the expiry of the session reaches it.
AbandonedOrdersExpire ==
  \A s \in Sessions, r \in Reservations :
    (stripe[s] = "expired" /\ buyer[s] = r) ~> (status[r] = "expired")

-----------------------------------------------------------------------------
(* What the code's own texts say of it and the model refutes. *)

\* repository.go:2819: "Reservation items are only meant to hold inventory
\* pre-payment. After the order is paid we [...] drop the items".
PaidReservationsHoldNothing ==
  \A r \in Reservations : status[r] = "paid" => held[r] = Nothing

=============================================================================
