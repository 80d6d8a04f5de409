-------------------------- MODULE TicketSalesProofs --------------------------
(***************************************************************************)
(* The state invariants of TicketSales, proved for every set of ticket     *)
(* types, reservations and Stripe sessions, every listing an organizer may *)
(* save and every request a customer may make.                             *)
(***************************************************************************)
EXTENDS TicketSales, FiniteSetTheorems, TLAPS

USE DEF Nothing

\* The cleanup keeps the types of what it does not delete.
LEMMA SweptType ==
  ASSUME TypeOK
  PROVE  /\ SweptHold \in [Reservations -> {"none", "live", "lapsed", "kept"}]
         /\ SweptHeld \in [Reservations -> [Types -> Nat]]
  BY DEF TypeOK, SweptHold, SweptHeld

\* The stock a paid order leaves is not negative, because every UPDATE of the
\* webhook asks for enough of it.
LEMMA StockAfterType ==
  ASSUME TypeOK, NEW r \in Reservations, InStock(r)
  PROVE  StockAfter(r) \in [Types -> Nat]
  BY DEF TypeOK, InStock, StockAfter

LEMMA InitTypeOK == Init => TypeOK
  BY DEF Init, TypeOK, Statuses

LEMMA OrganizerTypeOK ==
  ASSUME TypeOK, Organizer
  PROVE  TypeOK'
<1> USE DEF TypeOK, holds, orders, payment
<1> PICK t \in Types : \/ \E l \in Listings : CreateTicketType(t, l) \/ UpdateTicketType(t, l)
                       \/ DeleteTicketType(t)
                       \/ OpenSales(t)
                       \/ CloseSales(t)
  BY DEF Organizer
<1>1. CASE \E l \in Listings : CreateTicketType(t, l) \/ UpdateTicketType(t, l)
  <2> PICK l \in Listings : CreateTicketType(t, l) \/ UpdateTicketType(t, l)
    BY <1>1
  <2>1. l[1] \in Nat /\ l[2] \in Nat
    BY ListingsAssumption
  <2>2. CASE CreateTicketType(t, l)
    BY <2>1, <2>2 DEF CreateTicketType
  <2>3. CASE UpdateTicketType(t, l)
    BY <2>1, <2>3 DEF UpdateTicketType
  <2> QED
    BY <2>2, <2>3
<1>2. CASE DeleteTicketType(t)
  BY <1>2 DEF DeleteTicketType
<1>3. CASE OpenSales(t)
  BY <1>3 DEF OpenSales
<1>4. CASE CloseSales(t)
  BY <1>4 DEF CloseSales
<1> QED
  BY <1>1, <1>2, <1>3, <1>4

LEMMA ReservingTypeOK ==
  ASSUME TypeOK,
         \/ CleanupExpiredReservations
         \/ \E r \in Reservations :
              \/ \E want \in Requests : UpsertReservation(r, want)
              \/ DeleteReservation(r)
              \/ CreateCheckoutOrder(r)
              \/ Lapse(r)
  PROVE  TypeOK'
<1> USE SweptType DEF TypeOK, Statuses, listing, orders, payment
<1>1. CASE CleanupExpiredReservations
  BY <1>1 DEF CleanupExpiredReservations
<1>2. ASSUME NEW r \in Reservations, NEW want \in Requests, UpsertReservation(r, want)
      PROVE  TypeOK'
  BY <1>2, RequestsAssumption DEF UpsertReservation
<1>3. ASSUME NEW r \in Reservations, DeleteReservation(r)
      PROVE  TypeOK'
  BY <1>3 DEF DeleteReservation
<1>4. ASSUME NEW r \in Reservations, CreateCheckoutOrder(r)
      PROVE  TypeOK'
  BY <1>4 DEF CreateCheckoutOrder
<1>5. ASSUME NEW r \in Reservations, Lapse(r)
      PROVE  TypeOK'
  BY <1>5 DEF Lapse
<1> QED
  BY <1>1, <1>2, <1>3, <1>4, <1>5

LEMMA StripeTypeOK ==
  ASSUME TypeOK, NEW s \in Sessions,
         \/ \E r \in Reservations :
              CreateStripeCheckoutSession(r, s) \/ LoseStripeCheckoutSession(r, s)
         \/ \E o \in {"paid", "processing"} : CompleteStripeSession(s, o)
         \/ \E o \in {"paid", "failed"} : SettleStripePayment(s, o)
         \/ ExpireStripeSession(s)
  PROVE  TypeOK'
<1> USE DEF TypeOK, listing, holds, orders
<1>1. ASSUME NEW r \in Reservations, CreateStripeCheckoutSession(r, s)
      PROVE  TypeOK'
  BY <1>1 DEF CreateStripeCheckoutSession
<1>2. ASSUME NEW r \in Reservations, LoseStripeCheckoutSession(r, s)
      PROVE  TypeOK'
  BY <1>2 DEF LoseStripeCheckoutSession
<1>3. ASSUME NEW o \in {"paid", "processing"}, CompleteStripeSession(s, o)
      PROVE  TypeOK'
  BY <1>3 DEF CompleteStripeSession
<1>4. ASSUME NEW o \in {"paid", "failed"}, SettleStripePayment(s, o)
      PROVE  TypeOK'
  BY <1>4 DEF SettleStripePayment
<1>5. CASE ExpireStripeSession(s)
  BY <1>5 DEF ExpireStripeSession
<1> QED
  BY <1>1, <1>2, <1>3, <1>4, <1>5

LEMMA WebhookTypeOK ==
  ASSUME TypeOK, NEW r \in Reservations, NEW s \in Sessions, Webhook(r, s)
  PROVE  TypeOK'
<1> USE DEF TypeOK, Statuses, listing, payment
<1>1. CASE MarkCheckoutOrderPaid(r, s)
  <2>1. StockAfter(r) \in [Types -> Nat]
    BY <1>1, StockAfterType DEF MarkCheckoutOrderPaid
  <2> QED
    BY <1>1, <2>1 DEF MarkCheckoutOrderPaid
<1>2. CASE MarkCheckoutOrderExpired(r, s)
  BY <1>2 DEF MarkCheckoutOrderExpired, Released
<1> QED
  BY <1>1, <1>2 DEF Webhook

LEMMA NextTypeOK == TypeOK /\ [Next]_vars => TypeOK'
<1> SUFFICES ASSUME TypeOK, [Next]_vars
             PROVE  TypeOK'
  OBVIOUS
<1>1. CASE Organizer
  BY <1>1, OrganizerTypeOK
<1>2. CASE Customer
  BY <1>2, ReservingTypeOK, StripeTypeOK DEF Customer
<1>3. CASE Clock
  BY <1>3, ReservingTypeOK, StripeTypeOK DEF Clock
<1>4. CASE \E r \in Reservations, s \in Sessions : Webhook(r, s)
  BY <1>4, WebhookTypeOK
<1>5. CASE UNCHANGED vars
  BY <1>5 DEF TypeOK, vars, listing, holds, orders, payment
<1> QED
  BY <1>1, <1>2, <1>3, <1>4, <1>5 DEF Next

\* Every row stays of its type; in particular no sequence of sales, edits and
\* redelivered webhooks takes a ticket type's quantity below zero.
THEOREM TypeCorrect == Spec => []TypeOK
<1>1. Init => TypeOK
  BY InitTypeOK
<1>2. TypeOK /\ [Next]_vars => TypeOK'
  BY NextTypeOK
<1> QED
  BY <1>1, <1>2, PTL DEF Spec

-----------------------------------------------------------------------------
(***************************************************************************)
(* Which steps touch what: every other step leaves these variables alone.  *)
(***************************************************************************)

\* Orders and tickets change only by ordering, by recording a session and by
\* the two webhooks.
LEMMA OrderSteps ==
  ASSUME [Next]_vars
  PROVE  \/ UNCHANGED <<orders, tickets>>
         \/ \E r \in Reservations : CreateCheckoutOrder(r)
         \/ \E r \in Reservations, s \in Sessions :
              \/ CreateStripeCheckoutSession(r, s)
              \/ MarkCheckoutOrderPaid(r, s)
              \/ MarkCheckoutOrderExpired(r, s)
<1>1. CASE Organizer
  BY <1>1 DEF Organizer, CreateTicketType, UpdateTicketType, DeleteTicketType,
              OpenSales, CloseSales
<1>2. CASE Customer
  BY <1>2 DEF Customer, CleanupExpiredReservations, UpsertReservation, DeleteReservation,
              LoseStripeCheckoutSession, CompleteStripeSession
<1>3. CASE Clock
  BY <1>3 DEF Clock, Lapse, ExpireStripeSession, SettleStripePayment
<1>4. CASE \E r \in Reservations, s \in Sessions : Webhook(r, s)
  BY <1>4 DEF Webhook
<1>5. CASE UNCHANGED vars
  BY <1>5 DEF vars
<1> QED
  BY <1>1, <1>2, <1>3, <1>4, <1>5 DEF Next

\* Sessions are recorded and handed out by one action only.
LEMMA SessionSteps ==
  ASSUME [Next]_vars
  PROVE  \/ UNCHANGED <<recorded, buyer>>
         \/ \E r \in Reservations, s \in Sessions : CreateStripeCheckoutSession(r, s)
<1>1. CASE Organizer
  BY <1>1 DEF Organizer, CreateTicketType, UpdateTicketType, DeleteTicketType,
              OpenSales, CloseSales, orders, payment
<1>2. CASE Customer
  BY <1>2 DEF Customer, CleanupExpiredReservations, UpsertReservation, DeleteReservation,
              CreateCheckoutOrder, LoseStripeCheckoutSession, CompleteStripeSession,
              orders, payment
<1>3. CASE Clock
  BY <1>3 DEF Clock, Lapse, ExpireStripeSession, SettleStripePayment, orders, payment
<1>4. CASE \E r \in Reservations, s \in Sessions : Webhook(r, s)
  BY <1>4 DEF Webhook, MarkCheckoutOrderPaid, MarkCheckoutOrderExpired, payment
<1>5. CASE UNCHANGED vars
  BY <1>5 DEF vars, orders, payment
<1> QED
  BY <1>1, <1>2, <1>3, <1>4, <1>5 DEF Next

\* A step that leaves the orders alone moves Stripe's sessions only forward.
LEMMA StripeSteps ==
  ASSUME TypeOK, [Next]_vars
  PROVE  \/ /\ UNCHANGED <<status, recorded>>
            /\ \A s \in Sessions :
                 /\ stripe[s] \in {"processing", "paid", "failed"} =>
                      stripe'[s] \in {"processing", "paid", "failed"}
                 /\ stripe[s] = "expired" => stripe'[s] = "expired"
         \/ \E r \in Reservations : CreateCheckoutOrder(r)
         \/ \E r \in Reservations, s \in Sessions :
              \/ CreateStripeCheckoutSession(r, s)
              \/ MarkCheckoutOrderPaid(r, s)
              \/ MarkCheckoutOrderExpired(r, s)
<1> USE DEF TypeOK, orders, payment
<1>1. CASE Organizer
  BY <1>1 DEF Organizer, CreateTicketType, UpdateTicketType, DeleteTicketType,
              OpenSales, CloseSales
<1>2. CASE Customer
  BY <1>2 DEF Customer, CleanupExpiredReservations, UpsertReservation, DeleteReservation,
              LoseStripeCheckoutSession, CompleteStripeSession
<1>3. CASE Clock
  BY <1>3 DEF Clock, Lapse, ExpireStripeSession, SettleStripePayment
<1>4. CASE \E r \in Reservations, s \in Sessions : Webhook(r, s)
  BY <1>4 DEF Webhook
<1>5. CASE UNCHANGED vars
  BY <1>5 DEF vars
<1> QED
  BY <1>1, <1>2, <1>3, <1>4, <1>5 DEF Next

\* What changes the state of a hold, or of the order made from it.
LEMMA HoldSteps ==
  ASSUME [Next]_vars
  PROVE  \/ UNCHANGED <<hold, status>>
         \/ CleanupExpiredReservations
         \/ \E r \in Reservations, want \in Requests : UpsertReservation(r, want)
         \/ \E r \in Reservations : DeleteReservation(r)
         \/ \E r \in Reservations : Lapse(r)
         \/ \E r \in Reservations : CreateCheckoutOrder(r)
         \/ \E r \in Reservations, s \in Sessions :
              MarkCheckoutOrderPaid(r, s) \/ MarkCheckoutOrderExpired(r, s)
<1> USE DEF holds, orders
<1>1. CASE Organizer
  BY <1>1 DEF Organizer, CreateTicketType, UpdateTicketType, DeleteTicketType,
              OpenSales, CloseSales
<1>2. CASE Customer
  BY <1>2 DEF Customer, CreateStripeCheckoutSession, LoseStripeCheckoutSession,
              CompleteStripeSession
<1>3. CASE Clock
  BY <1>3 DEF Clock, ExpireStripeSession, SettleStripePayment
<1>4. CASE \E r \in Reservations, s \in Sessions : Webhook(r, s)
  BY <1>4 DEF Webhook
<1>5. CASE UNCHANGED vars
  BY <1>5 DEF vars
<1> QED
  BY <1>1, <1>2, <1>3, <1>4, <1>5 DEF Next

-----------------------------------------------------------------------------
\* A paid order has its tickets, each once, and no other order has any: the
\* webhook issues them in the step that marks the order paid, only a pending
\* order takes that step, and the items never change after they were copied.
THEOREM PaidOrdersTicketed == Spec => []PaidOrdersHaveTheirTickets
<1>1. Init => PaidOrdersHaveTheirTickets
  BY DEF Init, PaidOrdersHaveTheirTickets
<1>2. TypeOK /\ PaidOrdersHaveTheirTickets /\ [Next]_vars => PaidOrdersHaveTheirTickets'
  <2> SUFFICES ASSUME TypeOK, PaidOrdersHaveTheirTickets, [Next]_vars
               PROVE  PaidOrdersHaveTheirTickets'
    OBVIOUS
  <2> USE DEF TypeOK, Statuses, PaidOrdersHaveTheirTickets
  <2>1. CASE UNCHANGED <<orders, tickets>>
    BY <2>1 DEF orders
  <2>2. ASSUME NEW r \in Reservations, CreateCheckoutOrder(r)
        PROVE  PaidOrdersHaveTheirTickets'
    BY <2>2 DEF CreateCheckoutOrder, Orderable
  <2>3. ASSUME NEW r \in Reservations, NEW s \in Sessions, CreateStripeCheckoutSession(r, s)
        PROVE  PaidOrdersHaveTheirTickets'
    BY <2>3 DEF CreateStripeCheckoutSession
  <2>4. ASSUME NEW r \in Reservations, NEW s \in Sessions, MarkCheckoutOrderPaid(r, s)
        PROVE  PaidOrdersHaveTheirTickets'
    <3>1. tickets[r] = Nothing
      BY <2>4 DEF MarkCheckoutOrderPaid, Payable
    <3>2. [t \in Types |-> tickets[r][t] + ordered[r][t]] = ordered[r]
      BY <3>1
    <3>3. tickets' = [tickets EXCEPT ![r] = ordered[r]]
      BY <2>4, <3>2 DEF MarkCheckoutOrderPaid
    <3> QED
      BY <2>4, <3>3 DEF MarkCheckoutOrderPaid
  <2>5. ASSUME NEW r \in Reservations, NEW s \in Sessions, MarkCheckoutOrderExpired(r, s)
        PROVE  PaidOrdersHaveTheirTickets'
    BY <2>5 DEF MarkCheckoutOrderExpired, Expirable
  <2> QED
    BY <2>1, <2>2, <2>3, <2>4, <2>5, OrderSteps
<1> QED
  BY <1>1, <1>2, TypeCorrect, PTL DEF Spec

-----------------------------------------------------------------------------
LinkedSessionsAreRecorded ==
  \A s \in Sessions : buyer[s] # NoBuyer => recorded[buyer[s]] = s

\* Whoever was sent to Stripe was sent there for the order that records the
\* session: a session is recorded and handed out in one transaction, and an
\* order that records one never gets another.
THEOREM LinksRecorded == Spec => []LinkedSessionsAreRecorded
<1>1. Init => LinkedSessionsAreRecorded
  BY DEF Init, LinkedSessionsAreRecorded
<1>2. TypeOK /\ LinkedSessionsAreRecorded /\ [Next]_vars => LinkedSessionsAreRecorded'
  <2> SUFFICES ASSUME TypeOK, LinkedSessionsAreRecorded, [Next]_vars
               PROVE  LinkedSessionsAreRecorded'
    OBVIOUS
  <2> USE DEF TypeOK, LinkedSessionsAreRecorded
  <2>1. CASE UNCHANGED <<recorded, buyer>>
    BY <2>1
  <2>2. ASSUME NEW r \in Reservations, NEW s \in Sessions, CreateStripeCheckoutSession(r, s)
        PROVE  LinkedSessionsAreRecorded'
    BY <2>2, NoSessionAssumption DEF CreateStripeCheckoutSession, NeedsSession
  <2> QED
    BY <2>1, <2>2, SessionSteps
<1> QED
  BY <1>1, <1>2, TypeCorrect, PTL DEF Spec

\* An order is settled the way its Stripe session ended: the session an order
\* records is never replaced, and an ended session never reopens.
THEOREM AgreementWithStripe == Spec => []OrdersAgreeWithStripe
<1>1. Init => OrdersAgreeWithStripe
  BY DEF Init, OrdersAgreeWithStripe
<1>2. TypeOK /\ OrdersAgreeWithStripe /\ [Next]_vars => OrdersAgreeWithStripe'
  <2> SUFFICES ASSUME TypeOK, OrdersAgreeWithStripe, [Next]_vars
               PROVE  OrdersAgreeWithStripe'
    OBVIOUS
  <2> USE DEF TypeOK, Statuses, OrdersAgreeWithStripe
  <2>1. ASSUME UNCHANGED <<status, recorded>>,
               \A s \in Sessions :
                 /\ stripe[s] \in {"processing", "paid", "failed"} =>
                      stripe'[s] \in {"processing", "paid", "failed"}
                 /\ stripe[s] = "expired" => stripe'[s] = "expired"
        PROVE  OrdersAgreeWithStripe'
    BY <2>1
  <2>2. ASSUME NEW r \in Reservations, CreateCheckoutOrder(r)
        PROVE  OrdersAgreeWithStripe'
    BY <2>2 DEF CreateCheckoutOrder, Orderable, payment
  <2>3. ASSUME NEW r \in Reservations, NEW s \in Sessions, CreateStripeCheckoutSession(r, s)
        PROVE  OrdersAgreeWithStripe'
    BY <2>3, NoSessionAssumption DEF CreateStripeCheckoutSession, NeedsSession
  <2>4. ASSUME NEW r \in Reservations, NEW s \in Sessions, MarkCheckoutOrderPaid(r, s)
        PROVE  OrdersAgreeWithStripe'
    BY <2>4 DEF MarkCheckoutOrderPaid, Completed, payment
  <2>5. ASSUME NEW r \in Reservations, NEW s \in Sessions, MarkCheckoutOrderExpired(r, s)
        PROVE  OrdersAgreeWithStripe'
    BY <2>5 DEF MarkCheckoutOrderExpired, payment
  <2> QED
    BY <2>1, <2>2, <2>3, <2>4, <2>5, StripeSteps
<1> QED
  BY <1>1, <1>2, TypeCorrect, PTL DEF Spec

\* The safety half of the webhooks' liveness: every payment and every expiry of a
\* session that a customer was sent to finds its order as its handler asks for it.
\* An order that records a session exists, and none is settled against its session.
Recording == \A r \in Reservations : recorded[r] # NoSession => status[r] # "none"

THEOREM WebhooksFindOrders == Spec => []WebhooksFindTheirOrder
<1>1. Init => Recording
  BY DEF Init, Recording
<1>2. TypeOK /\ Recording /\ [Next]_vars => Recording'
  <2> SUFFICES ASSUME TypeOK, Recording, [Next]_vars
               PROVE  Recording'
    OBVIOUS
  <2> USE DEF TypeOK, Statuses, Recording
  <2>1. CASE UNCHANGED <<orders, tickets>>
    BY <2>1 DEF orders
  <2>2. ASSUME NEW r \in Reservations, CreateCheckoutOrder(r)
        PROVE  Recording'
    BY <2>2 DEF CreateCheckoutOrder
  <2>3. ASSUME NEW r \in Reservations, NEW s \in Sessions, CreateStripeCheckoutSession(r, s)
        PROVE  Recording'
    BY <2>3 DEF CreateStripeCheckoutSession, NeedsSession
  <2>4. ASSUME NEW r \in Reservations, NEW s \in Sessions,
               MarkCheckoutOrderPaid(r, s) \/ MarkCheckoutOrderExpired(r, s)
        PROVE  Recording'
    BY <2>4 DEF MarkCheckoutOrderPaid, MarkCheckoutOrderExpired
  <2> QED
    BY <2>1, <2>2, <2>3, <2>4, OrderSteps
<1>3. TypeOK /\ Recording /\ LinkedSessionsAreRecorded /\ OrdersAgreeWithStripe
        => WebhooksFindTheirOrder
  BY NoSessionAssumption, NoBuyerAssumption
     DEF TypeOK, Statuses, Recording, LinkedSessionsAreRecorded, OrdersAgreeWithStripe,
         WebhooksFindTheirOrder, Payable, Expirable
<1> QED
  BY <1>1, <1>2, <1>3, TypeCorrect, LinksRecorded, AgreementWithStripe, PTL DEF Spec

\* An order's reservation row is never deleted: only a stale row is swept, and a
\* stale row has no order, nor has one the customer may delete.
THEOREM ReservationsKept == Spec => []OrdersKeepTheirReservation
<1>1. Init => OrdersKeepTheirReservation
  BY DEF Init, OrdersKeepTheirReservation
<1>2. TypeOK /\ OrdersKeepTheirReservation /\ [Next]_vars => OrdersKeepTheirReservation'
  <2> SUFFICES ASSUME TypeOK, OrdersKeepTheirReservation, [Next]_vars
               PROVE  OrdersKeepTheirReservation'
    OBVIOUS
  <2> USE DEF TypeOK, Statuses, OrdersKeepTheirReservation
  <2>1. ASSUME UNCHANGED <<hold, status>> PROVE OrdersKeepTheirReservation'
    BY <2>1
  <2>2. CASE CleanupExpiredReservations
    BY <2>2 DEF CleanupExpiredReservations, SweptHold, Stale, orders
  <2>3. ASSUME NEW r \in Reservations, NEW want \in Requests, UpsertReservation(r, want)
        PROVE  OrdersKeepTheirReservation'
    BY <2>3 DEF UpsertReservation, SweptHold, Stale, orders
  <2>4. ASSUME NEW r \in Reservations, DeleteReservation(r)
        PROVE  OrdersKeepTheirReservation'
    BY <2>4 DEF DeleteReservation, orders
  <2>5. ASSUME NEW r \in Reservations, Lapse(r)
        PROVE  OrdersKeepTheirReservation'
    BY <2>5 DEF Lapse, orders
  <2>6. ASSUME NEW r \in Reservations, CreateCheckoutOrder(r)
        PROVE  OrdersKeepTheirReservation'
    BY <2>6 DEF CreateCheckoutOrder, Orderable, Live, SweptHold, Stale
  <2>7. ASSUME NEW r \in Reservations, NEW s \in Sessions,
               MarkCheckoutOrderPaid(r, s) \/ MarkCheckoutOrderExpired(r, s)
        PROVE  OrdersKeepTheirReservation'
    BY <2>7 DEF MarkCheckoutOrderPaid, MarkCheckoutOrderExpired, Released, Payable, Expirable
  <2> QED
    BY <2>1, <2>2, <2>3, <2>4, <2>5, <2>6, <2>7, HoldSteps
<1> QED
  BY <1>1, <1>2, TypeCorrect, PTL DEF Spec

\* An expired order's hold stays lapsed: it is too old to be renewed, and the
\* cleanup does not take it for a stale one.
THEOREM ExpiredHoldNothing == Spec => []ExpiredOrdersHoldNothing
<1>1. Init => ExpiredOrdersHoldNothing
  BY DEF Init, ExpiredOrdersHoldNothing
<1>2. TypeOK /\ ExpiredOrdersHoldNothing /\ [Next]_vars => ExpiredOrdersHoldNothing'
  <2> SUFFICES ASSUME TypeOK, ExpiredOrdersHoldNothing, [Next]_vars
               PROVE  ExpiredOrdersHoldNothing'
    OBVIOUS
  <2> USE DEF TypeOK, Statuses, ExpiredOrdersHoldNothing
  <2>1. ASSUME UNCHANGED <<hold, status>> PROVE ExpiredOrdersHoldNothing'
    BY <2>1
  <2>2. CASE CleanupExpiredReservations
    BY <2>2 DEF CleanupExpiredReservations, SweptHold, Stale, orders
  <2>3. ASSUME NEW r \in Reservations, NEW want \in Requests, UpsertReservation(r, want)
        PROVE  ExpiredOrdersHoldNothing'
    BY <2>3 DEF UpsertReservation, SweptHold, Stale, orders
  <2>4. ASSUME NEW r \in Reservations, DeleteReservation(r)
        PROVE  ExpiredOrdersHoldNothing'
    BY <2>4 DEF DeleteReservation, orders
  <2>5. ASSUME NEW r \in Reservations, Lapse(r)
        PROVE  ExpiredOrdersHoldNothing'
    BY <2>5 DEF Lapse, orders
  <2>6. ASSUME NEW r \in Reservations, CreateCheckoutOrder(r)
        PROVE  ExpiredOrdersHoldNothing'
    BY <2>6 DEF CreateCheckoutOrder, Orderable, Live, SweptHold, Stale
  <2>7. ASSUME NEW r \in Reservations, NEW s \in Sessions,
               MarkCheckoutOrderPaid(r, s) \/ MarkCheckoutOrderExpired(r, s)
        PROVE  ExpiredOrdersHoldNothing'
    BY <2>7 DEF MarkCheckoutOrderPaid, MarkCheckoutOrderExpired, Released, Payable, Expirable
  <2> QED
    BY <2>1, <2>2, <2>3, <2>4, <2>5, <2>6, <2>7, HoldSteps
<1> QED
  BY <1>1, <1>2, TypeCorrect, PTL DEF Spec

\* A settled order stays settled, and the items of an order never change, from
\* every reachable state and by every step.
THEOREM SettledForGood == Spec => SettledOrdersStay
<1>1. TypeOK /\ [Next]_vars =>
        \A r \in Reservations :
          /\ status[r] # "none" => ordered'[r] = ordered[r]
          /\ status[r] \in {"paid", "expired"} => status'[r] = status[r]
  <2> SUFFICES ASSUME TypeOK, [Next]_vars, NEW q \in Reservations
               PROVE  /\ status[q] # "none" => ordered'[q] = ordered[q]
                      /\ status[q] \in {"paid", "expired"} => status'[q] = status[q]
    OBVIOUS
  <2> USE DEF TypeOK, Statuses
  <2>1. CASE UNCHANGED <<orders, tickets>>
    BY <2>1 DEF orders
  <2>2. CASE \E r \in Reservations : CreateCheckoutOrder(r)
    BY <2>2 DEF CreateCheckoutOrder, Orderable
  <2>3. CASE \E r \in Reservations, s \in Sessions :
               \/ CreateStripeCheckoutSession(r, s)
               \/ MarkCheckoutOrderPaid(r, s)
               \/ MarkCheckoutOrderExpired(r, s)
    BY <2>3 DEF CreateStripeCheckoutSession, MarkCheckoutOrderPaid, Payable,
                MarkCheckoutOrderExpired, Expirable
  <2> QED
    BY <2>1, <2>2, <2>3, OrderSteps
<1> QED
  BY <1>1, TypeCorrect, PTL DEF Spec, SettledOrdersStay

\* Nothing held or ordered is of a type without a row: only a listed type is on
\* sale, only a type on sale is granted, an order copies what is held, and the
\* foreign keys clear the holds of a deleted type and keep an ordered one.
THEOREM NoTrace == Spec => []NoTraceOfDeletedTypes
<1>1. Init => NoTraceOfDeletedTypes
  BY DEF Init, NoTraceOfDeletedTypes
<1>2. TypeOK /\ NoTraceOfDeletedTypes /\ [Next]_vars => NoTraceOfDeletedTypes'
  <2> SUFFICES ASSUME TypeOK, NoTraceOfDeletedTypes, [Next]_vars
               PROVE  NoTraceOfDeletedTypes'
    OBVIOUS
  <2> USE DEF TypeOK, NoTraceOfDeletedTypes
  <2>0. ASSUME listed \subseteq listed', UNCHANGED <<held, ordered>>
        PROVE  NoTraceOfDeletedTypes'
    BY <2>0
  <2>1. CASE Organizer
    <3>1. ASSUME NEW t \in Types, DeleteTicketType(t)
          PROVE  NoTraceOfDeletedTypes'
      BY <3>1 DEF DeleteTicketType, NeverOrdered, orders
    <3>2. CASE listed \subseteq listed' /\ UNCHANGED <<held, ordered>>
      BY <3>2, <2>0
    <3>3. ASSUME NEW t \in Types, NEW l \in Listings, CreateTicketType(t, l) \/ UpdateTicketType(t, l)
          PROVE  NoTraceOfDeletedTypes'
      BY <3>3, <3>2 DEF CreateTicketType, UpdateTicketType, holds, orders
    <3>4. ASSUME NEW t \in Types, OpenSales(t) \/ CloseSales(t)
          PROVE  NoTraceOfDeletedTypes'
      BY <3>4, <3>2 DEF OpenSales, CloseSales, holds, orders
    <3> QED
      BY <2>1, <3>1, <3>3, <3>4 DEF Organizer
  <2>2. CASE CleanupExpiredReservations
    BY <2>2 DEF CleanupExpiredReservations, SweptHeld, listing, orders
  <2>3. ASSUME NEW r \in Reservations, NEW want \in Requests, UpsertReservation(r, want)
        PROVE  NoTraceOfDeletedTypes'
    <3>1. \A t \in Types \ listed : want[t] = 0
      BY <2>3, RequestsAssumption DEF UpsertReservation, Grantable
    <3> QED
      BY <2>3, <3>1 DEF UpsertReservation, SweptHeld, listing, orders
  <2>4. ASSUME NEW r \in Reservations, DeleteReservation(r)
        PROVE  NoTraceOfDeletedTypes'
    BY <2>4 DEF DeleteReservation, listing, orders
  <2>5. ASSUME NEW r \in Reservations, CreateCheckoutOrder(r)
        PROVE  NoTraceOfDeletedTypes'
    BY <2>5 DEF CreateCheckoutOrder, SweptHeld, listing
  <2>6. ASSUME NEW r \in Reservations, NEW s \in Sessions, Webhook(r, s)
        PROVE  NoTraceOfDeletedTypes'
    BY <2>6 DEF Webhook, MarkCheckoutOrderPaid, MarkCheckoutOrderExpired, listing
  <2>7. CASE \E s \in Sessions :
               \/ \E r \in Reservations :
                    CreateStripeCheckoutSession(r, s) \/ LoseStripeCheckoutSession(r, s)
               \/ \E o \in {"paid", "processing"} : CompleteStripeSession(s, o)
    BY <2>7, <2>0 DEF CreateStripeCheckoutSession, LoseStripeCheckoutSession,
                      CompleteStripeSession, listing, holds, orders
  <2>8. CASE Clock
    BY <2>8, <2>0 DEF Clock, Lapse, ExpireStripeSession, SettleStripePayment,
                      listing, holds, orders
  <2>9. CASE UNCHANGED vars
    BY <2>9, <2>0 DEF vars, listing, holds, orders
  <2> QED
    BY <2>1, <2>2, <2>3, <2>4, <2>5, <2>6, <2>7, <2>8, <2>9 DEF Next, Customer
<1> QED
  BY <1>1, <1>2, TypeCorrect, PTL DEF Spec

-----------------------------------------------------------------------------
(***************************************************************************)
(* Sums over rows.  MapThenSumSet picks elements in some order; that the   *)
(* sum does not depend on it, and grows with the rows and with their       *)
(* entries, is shown by looking at a least set for which it would fail.    *)
(***************************************************************************)

\* The sum of the entries h[r][t] of the rows r \in S; Adds says what the
\* recursion inside MapThenSumSet solves.
Sum(h, t, S) == MapThenSumSet(LAMBDA r : h[r][t], S)
Pick(s) == CHOOSE x \in s : TRUE
Adds(h, t, S, g) ==
  g = [s \in SUBSET S |-> IF s = {} THEN 0 ELSE h[Pick(s)][t] + g[s \ {Pick(s)}]]

LEMMA SumAdds ==
  ASSUME NEW h, NEW t, NEW S
  PROVE  Sum(h, t, S) = (CHOOSE g : Adds(h, t, S, g))[S]
  BY DEF Sum, Adds, Pick, MapThenSumSet, MapThenFoldSet

LEMMA Least ==
  ASSUME NEW S, IsFiniteSet(S), NEW W, W \subseteq SUBSET S, W # {}
  PROVE  \E T \in W : \A U \in SUBSET T : U # T => U \notin W
<1>1. IsWellFoundedOn(StrictSubsetOrdering(S), SUBSET S)
  BY FS_StrictSubsetOrderingWellFounded, FS_FiniteSubsetsOfFinite
<1>2. PICK T \in W : \A U \in W : ~(<<U, T>> \in StrictSubsetOrdering(S))
  BY <1>1, WFMin
<1> QED
  BY <1>2 DEF StrictSubsetOrdering

LEMMA PickIn == ASSUME NEW s, s # {} PROVE Pick(s) \in s
  BY DEF Pick

\* One equation, one solution, also on a smaller set.
LEMMA OneSolution ==
  ASSUME NEW h, NEW t, NEW S, IsFiniteSet(S), NEW T \in SUBSET S,
         NEW g, Adds(h, t, S, g), NEW k, Adds(h, t, T, k)
  PROVE  \A s \in SUBSET T : g[s] = k[s]
<1> DEFINE W == {s \in SUBSET T : g[s] # k[s]}
<1> SUFFICES ASSUME W # {} PROVE FALSE
  OBVIOUS
<1>1. PICK s \in W : \A u \in SUBSET s : u # s => u \notin W
  <2>1. IsFiniteSet(T) /\ W \subseteq SUBSET T
    BY FS_Subset
  <2> HIDE DEF W
  <2> QED BY <2>1, Least
<1>2. s \in SUBSET S /\ s \in SUBSET T /\ s # {}
  BY DEF Adds
<1> DEFINE u == s \ {Pick(s)}
<1>3. u \in SUBSET s /\ u # s
  BY <1>2, PickIn
<1>4. g[u] = k[u]
  BY <1>1, <1>2, <1>3
<1>5. g[s] = h[Pick(s)][t] + g[u] /\ k[s] = h[Pick(s)][t] + k[u]
  BY <1>2 DEF Adds
<1> QED
  BY <1>4, <1>5

LEMMA SumSolves ==
  ASSUME NEW h, NEW t, NEW S, IsFiniteSet(S)
  PROVE  \E g : Adds(h, t, S, g)
<1> DEFINE W == {T \in SUBSET S : ~ \E g : Adds(h, t, T, g)}
<1> SUFFICES ASSUME W # {} PROVE FALSE
  OBVIOUS
<1>1. PICK T \in W : \A U \in SUBSET T : U # T => U \notin W
  <2>1. W \subseteq SUBSET S
    OBVIOUS
  <2> HIDE DEF W
  <2> QED BY <2>1, Least
<1>2. IsFiniteSet(T) /\ T \in SUBSET S
  BY FS_Subset
<1> DEFINE G(s) == CHOOSE g : Adds(h, t, s, g)
           R(s) == h[Pick(s)][t] + G(s \ {Pick(s)})[s \ {Pick(s)}]
           k == [s \in SUBSET T |-> IF s = {} THEN 0 ELSE R(s)]
<1>3. ASSUME NEW s \in SUBSET T, s # T
      PROVE  Adds(h, t, s, G(s))
  BY <1>1, <1>2, <1>3
<1>4. ASSUME NEW s \in SUBSET T, s # T, s # {}
      PROVE  G(s)[s] = R(s)
  <2> DEFINE u == s \ {Pick(s)}
  <2>1. u \in SUBSET s /\ u \in SUBSET T /\ u # T
    BY <1>4
  <2>2. Adds(h, t, s, G(s)) /\ Adds(h, t, u, G(u))
    BY <1>3, <1>4, <2>1
  <2>3. IsFiniteSet(s)
    BY <1>2, FS_Subset
  <2> HIDE DEF G
  <2>4. G(s)[u] = G(u)[u]
    BY <2>1, <2>2, <2>3, OneSolution
  <2>5. G(s)[s] = h[Pick(s)][t] + G(s)[u]
    BY <2>2, <1>4 DEF Adds
  <2> QED
    BY <2>4, <2>5
<1>5. ASSUME NEW s \in SUBSET T, s # {}
      PROVE  k[s] = h[Pick(s)][t] + k[s \ {Pick(s)}]
  <2> DEFINE u == s \ {Pick(s)}
  <2>1. u \in SUBSET T /\ u # T
    BY <1>5, PickIn
  <2>2. k[s] = h[Pick(s)][t] + G(u)[u]
    BY <1>5
  <2>3. CASE u = {}
    <3>1. G(u)[u] = 0
      <4> HIDE DEF G
      <4>1. Adds(h, t, u, G(u))
        BY <1>3, <2>1
      <4> QED BY <4>1, <2>3 DEF Adds
    <3> QED BY <2>1, <2>2, <2>3, <3>1
  <2>4. CASE u # {}
    <3>1. G(u)[u] = R(u)
      BY <1>4, <2>1, <2>4
    <3> QED BY <2>1, <2>2, <2>4, <3>1
  <2> QED BY <2>3, <2>4
<1>6. Adds(h, t, T, k)
  <2> DEFINE kk == [s \in SUBSET T |->
                      IF s = {} THEN 0 ELSE h[Pick(s)][t] + k[s \ {Pick(s)}]]
  <2>1. \A s \in SUBSET T : k[s] = kk[s]
    <3>1. k[{}] = kk[{}]
      OBVIOUS
    <3>2. ASSUME NEW s \in SUBSET T, s # {} PROVE k[s] = kk[s]
      <4> HIDE DEF k
      <4> QED BY <1>5, <3>2
    <3> HIDE DEF k, kk
    <3> QED BY <3>1, <3>2
  <2>2. k = kk
    <3>1. k = [s \in SUBSET T |-> k[s]] /\ kk = [s \in SUBSET T |-> kk[s]]
      OBVIOUS
    <3> HIDE DEF k, kk
    <3> QED BY <2>1, <3>1
  <2> HIDE DEF k
  <2> QED BY <2>2 DEF Adds
<1> QED
  BY <1>1, <1>6

\* The sum of a set that is not empty, whichever element is taken out.
LEMMA SumPick ==
  ASSUME NEW h, NEW t, NEW S, IsFiniteSet(S)
  PROVE  /\ S = {} => Sum(h, t, S) = 0
         /\ S # {} => Sum(h, t, S) = h[Pick(S)][t] + Sum(h, t, S \ {Pick(S)})
<1> DEFINE G(s) == CHOOSE g : Adds(h, t, s, g)
           U == S \ {Pick(S)}
<1>1. Adds(h, t, S, G(S)) /\ Adds(h, t, U, G(U)) /\ U \in SUBSET S
  <2>1. IsFiniteSet(U) BY FS_Subset
  <2> QED BY <2>1, SumSolves
<1>2. Sum(h, t, S) = G(S)[S] /\ Sum(h, t, U) = G(U)[U]
  BY SumAdds
<1> HIDE DEF G
<1>3. G(S)[U] = G(U)[U]
  <2> HIDE DEF U
  <2>1. \A s \in SUBSET U : G(S)[s] = G(U)[s]
    BY <1>1, OneSolution
  <2> QED BY <2>1
<1>4. S = {} => G(S)[S] = 0
  BY <1>1 DEF Adds
<1>5. S # {} => G(S)[S] = h[Pick(S)][t] + G(S)[U]
  BY <1>1 DEF Adds
<1> QED
  BY <1>2, <1>3, <1>4, <1>5

LEMMA SumType ==
  ASSUME NEW h, NEW t, NEW S, IsFiniteSet(S), \A r \in S : h[r][t] \in Nat
  PROVE  Sum(h, t, S) \in Nat
<1> DEFINE W == {T \in SUBSET S : Sum(h, t, T) \notin Nat}
<1> SUFFICES ASSUME W # {} PROVE FALSE
  OBVIOUS
<1>1. PICK T \in W : \A U \in SUBSET T : U # T => U \notin W
  <2>1. W \subseteq SUBSET S
    OBVIOUS
  <2> HIDE DEF W
  <2> QED BY <2>1, Least
<1>2. IsFiniteSet(T)
  BY FS_Subset
<1>3. Sum(h, t, T) \notin Nat
  OBVIOUS
<1>4. Pick(T) \in T => Sum(h, t, T \ {Pick(T)}) \in Nat
  BY <1>1
<1>5. T \in SUBSET S
  OBVIOUS
<1> HIDE DEF W
<1>6. T # {}
  <2>1. T = {} => Sum(h, t, T) = 0
    BY <1>2, SumPick
  <2> QED BY <1>3, <2>1
<1>7. Pick(T) \in S /\ Pick(T) \in T
  BY <1>5, <1>6, PickIn
<1>8. Sum(h, t, T) = h[Pick(T)][t] + Sum(h, t, T \ {Pick(T)})
  BY <1>2, <1>6, SumPick
<1>9. h[Pick(T)][t] \in Nat /\ Sum(h, t, T \ {Pick(T)}) \in Nat
  BY <1>4, <1>7
<1> QED
  BY <1>3, <1>8, <1>9

\* Whichever element is taken out.
LEMMA SumOut ==
  ASSUME NEW h, NEW t, NEW S, IsFiniteSet(S), \A r \in S : h[r][t] \in Nat, NEW x \in S
  PROVE  Sum(h, t, S) = h[x][t] + Sum(h, t, S \ {x})
<1> DEFINE W == {T \in SUBSET S : \E y \in T : Sum(h, t, T) # h[y][t] + Sum(h, t, T \ {y})}
<1> SUFFICES ASSUME W # {} PROVE FALSE
  OBVIOUS
<1>1. PICK T \in W : \A U \in SUBSET T : U # T => U \notin W
  <2>1. W \subseteq SUBSET S
    OBVIOUS
  <2> HIDE DEF W
  <2> QED BY <2>1, Least
<1>2. PICK y \in T : Sum(h, t, T) # h[y][t] + Sum(h, t, T \ {y})
  OBVIOUS
<1> DEFINE p == Pick(T)
           U == T \ {p}
           V == T \ {y}
<1>3. p \in T /\ p # y /\ Sum(h, t, T) = h[p][t] + Sum(h, t, U)
  <2>1. IsFiniteSet(T) BY FS_Subset
  <2> QED BY <2>1, <1>2, PickIn, SumPick
<1>4. Sum(h, t, U) = h[y][t] + Sum(h, t, U \ {y})
  BY <1>1, <1>3
<1>5. Sum(h, t, V) = h[p][t] + Sum(h, t, V \ {p})
  BY <1>1, <1>3
<1>6. U \ {y} = V \ {p}
  OBVIOUS
<1>7. h[p][t] \in Nat /\ h[y][t] \in Nat /\ Sum(h, t, U \ {y}) \in Nat
  <2>1. IsFiniteSet(U \ {y}) BY FS_Subset
  <2>2. \A r \in U \ {y} : h[r][t] \in Nat OBVIOUS
  <2> QED BY <2>1, <2>2, <1>3, SumType
<1>8. Sum(h, t, T) # h[y][t] + Sum(h, t, V)
  BY <1>2
<1> DEFINE a == h[p][t]
           b == h[y][t]
           c == Sum(h, t, U \ {y})
<1>9. Sum(h, t, T) = a + (b + c) /\ Sum(h, t, T) # b + (a + c)
  <2>1. Sum(h, t, V) = a + c
    BY <1>5, <1>6
  <2>2. Sum(h, t, U) = b + c
    BY <1>4
  <2> HIDE DEF a, b, c, U, V
  <2>3. Sum(h, t, T) # b + (a + c)
    BY <1>8, <2>1 DEF b
  <2> QED
    BY <1>3, <2>2, <2>3 DEF a
<1>10. a \in Nat /\ b \in Nat /\ c \in Nat
  BY <1>7
<1> HIDE DEF a, b, c
<1> QED
  BY <1>9, <1>10

\* Pointwise less, and over fewer elements, is less in sum.
LEMMA SumGrows ==
  ASSUME NEW h, NEW k, NEW t, NEW S, IsFiniteSet(S), NEW R \in SUBSET S,
         \A r \in S : k[r][t] \in Nat,
         \A r \in R : h[r][t] \in Nat /\ h[r][t] <= k[r][t]
  PROVE  Sum(h, t, R) <= Sum(k, t, S)
<1> DEFINE W == {T \in SUBSET S : Sum(h, t, R \cap T) > Sum(k, t, T)}
<1> SUFFICES ASSUME W # {} PROVE FALSE
  <2>1. S \notin W => ~(Sum(h, t, R \cap S) > Sum(k, t, S))
    OBVIOUS
  <2>2. R \cap S = R /\ Sum(h, t, R) \in Nat /\ Sum(k, t, S) \in Nat
    <3>1. IsFiniteSet(R) BY FS_Subset
    <3> QED BY <3>1, SumType
  <2> QED BY <2>1, <2>2
<1>1. PICK T \in W : \A U \in SUBSET T : U # T => U \notin W
  <2>1. W \subseteq SUBSET S
    OBVIOUS
  <2> HIDE DEF W
  <2> QED BY <2>1, Least
<1>2. IsFiniteSet(T) /\ IsFiniteSet(R \cap T)
  BY FS_Subset
<1>3. T # {}
  <2>1. T = {} => Sum(k, t, T) = 0 /\ Sum(h, t, R \cap T) = 0
    BY <1>2, SumPick
  <2> QED BY <2>1
<1>4. PICK x \in T : TRUE
  BY <1>3
<1> DEFINE U == T \ {x}
<1>5. U \in SUBSET S /\ U \notin W /\ IsFiniteSet(U) /\ IsFiniteSet(R \cap U)
  BY <1>1, <1>2, <1>4, FS_Subset
<1>6. Sum(k, t, T) = k[x][t] + Sum(k, t, U)
  BY <1>2, SumOut
<1>7. IF x \in R THEN Sum(h, t, R \cap T) = h[x][t] + Sum(h, t, R \cap U)
                 ELSE R \cap T = R \cap U
  <2>1. CASE x \in R
    <3>1. (R \cap T) \ {x} = R \cap U /\ x \in R \cap T
      BY <2>1
    <3>2. \A r \in R \cap T : h[r][t] \in Nat
      OBVIOUS
    <3> HIDE DEF U, W
    <3> QED BY <1>2, <2>1, <3>1, <3>2, SumOut
  <2>2. CASE x \notin R
    BY <2>2
  <2> QED BY <2>1, <2>2
<1>8. Sum(k, t, U) \in Nat /\ Sum(h, t, R \cap U) \in Nat
  BY <1>5, SumType
<1>9. Sum(h, t, R \cap U) <= Sum(k, t, U)
  BY <1>5, <1>8
<1>10. Sum(h, t, R \cap T) > Sum(k, t, T)
  OBVIOUS
<1>11. k[x][t] \in Nat /\ (x \in R => h[x][t] \in Nat /\ h[x][t] <= k[x][t])
  OBVIOUS
<1> HIDE DEF U, W
<1>12. CASE x \in R
  BY <1>6, <1>7, <1>8, <1>9, <1>10, <1>11, <1>12
<1>13. CASE x \notin R
  <2>1. Sum(h, t, R \cap T) = Sum(h, t, R \cap U)
    BY <1>7, <1>13
  <2> QED
    BY <1>6, <1>8, <1>9, <1>10, <1>11, <2>1
<1> QED
  BY <1>12, <1>13

LEMMA SumSame ==
  ASSUME NEW h, NEW k, NEW t, NEW S, IsFiniteSet(S),
         \A r \in S : h[r][t] \in Nat, \A r \in S : k[r] = h[r]
  PROVE  Sum(k, t, S) = Sum(h, t, S)
<1>1. Sum(h, t, S) \in Nat /\ Sum(k, t, S) \in Nat
  BY SumType
<1>2. Sum(h, t, S) <= Sum(k, t, S)
  BY SumGrows
<1>3. Sum(k, t, S) <= Sum(h, t, S)
  BY SumGrows
<1> QED
  BY <1>1, <1>2, <1>3

LEMMA SumZero ==
  ASSUME NEW h, NEW t, NEW S, IsFiniteSet(S), \A r \in S : h[r][t] = 0
  PROVE  Sum(h, t, S) = 0
<1> DEFINE W == {T \in SUBSET S : Sum(h, t, T) # 0}
<1> SUFFICES ASSUME W # {} PROVE FALSE
  OBVIOUS
<1>1. PICK T \in W : \A U \in SUBSET T : U # T => U \notin W
  <2>1. W \subseteq SUBSET S
    OBVIOUS
  <2> HIDE DEF W
  <2> QED BY <2>1, Least
<1>2. T \in SUBSET S /\ Sum(h, t, T) # 0 /\ IsFiniteSet(T)
  BY FS_Subset
<1>3. Pick(T) \in T => Sum(h, t, T \ {Pick(T)}) = 0
  BY <1>1
<1> HIDE DEF W
<1>4. T # {} /\ Pick(T) \in T
  BY <1>2, SumPick, PickIn
<1> QED
  BY <1>2, <1>3, <1>4, SumPick

-----------------------------------------------------------------------------
(***************************************************************************)
(* Live holds and the stock behind them.                                   *)
(***************************************************************************)

LiveOnes == {r \in Reservations : Live(r)}

LEMMA HeldIsSum ==
  ASSUME NEW t
  PROVE  /\ Held(t) = Sum(held, t, LiveOnes)
         /\ Held(t)' = Sum(held', t, LiveOnes')
<1>1. Held(t) = Sum(held, t, LiveOnes)
  BY DEF Held, Sum, LiveOnes
<1>2. Held(t)' = Sum(held', t, LiveOnes')
  BY DEF Held, Sum, LiveOnes, MapThenSumSet, MapThenFoldSet
<1> QED
  BY <1>1, <1>2

LEMMA HeldType ==
  ASSUME TypeOK, NEW t \in Types
  PROVE  Held(t) \in Nat
<1>1. IsFiniteSet(LiveOnes) /\ \A r \in LiveOnes : held[r][t] \in Nat
  BY ReservationsAssumption, FS_Subset DEF LiveOnes, TypeOK
<1> QED
  BY <1>1, HeldIsSum, SumType

LEMMA HeldTypeNext ==
  ASSUME TypeOK', NEW t \in Types
  PROVE  Held(t)' \in Nat
<1>1. IsFiniteSet(LiveOnes') /\ \A r \in LiveOnes' : held'[r][t] \in Nat
  BY ReservationsAssumption, FS_Subset DEF LiveOnes, TypeOK
<1> QED
  BY <1>1, HeldIsSum, SumType

\* No hold comes to life and none grows: nothing is promised that was not.
LEMMA HeldShrinks ==
  ASSUME TypeOK, TypeOK', NEW t \in Types,
         \A r \in Reservations : Live(r)' => Live(r) /\ held'[r][t] <= held[r][t]
  PROVE  Held(t)' <= Held(t)
<1>1. IsFiniteSet(LiveOnes) /\ \A r \in LiveOnes : held[r][t] \in Nat
  BY ReservationsAssumption, FS_Subset DEF LiveOnes, TypeOK
<1>2. LiveOnes' \in SUBSET LiveOnes
  BY DEF LiveOnes
<1>3. \A r \in LiveOnes' : held'[r][t] \in Nat /\ held'[r][t] <= held[r][t]
  BY DEF LiveOnes, TypeOK
<1>4. Sum(held', t, LiveOnes') <= Sum(held, t, LiveOnes)
  BY <1>1, <1>2, <1>3, SumGrows
<1> QED
  BY <1>4, HeldIsSum

\* Holds that do not grow over stock that does not shrink.
LEMMA NoNewShortfall ==
  ASSUME TypeOK, TypeOK', NEW t \in Types,
         Held(t)' <= Held(t), quantity[t] <= quantity'[t]
  PROVE  ~(Shortfall(t)' > Shortfall(t))
<1>1. quantity[t] \in Nat /\ quantity'[t] \in Nat
  BY DEF TypeOK
<1>2. Held(t) \in Nat
  BY HeldType
<1>3. Held(t)' \in Nat
  BY HeldTypeNext
<1> QED
  BY <1>1, <1>2, <1>3 DEF Shortfall

LEMMA EndsBacked ==
  ASSUME TypeOK, TypeOK', NEW t \in Types, quantity'[t] = quantity[t],
         \A r \in Reservations : Live(r)' => Live(r) /\ held'[r][t] <= held[r][t]
  PROVE  ~(Shortfall(t)' > Shortfall(t))
<1>1. quantity[t] <= quantity'[t]
  BY DEF TypeOK
<1> QED
  BY <1>1, HeldShrinks, NoNewShortfall

\* Whoever edits the listing either lowers the stock or leaves no new shortfall;
\* the holds of a deleted type go with it.
LEMMA OrganizerBacked ==
  ASSUME TypeOK, TypeOK', NEW t \in Types, Organizer
  PROVE  Shortfall(t)' > Shortfall(t) => OrganizerCut(t)
<1> USE DEF TypeOK, holds, orders
<1>1. ASSUME UNCHANGED <<holds, orders>>
      PROVE  Shortfall(t)' > Shortfall(t) => OrganizerCut(t)
  <2>1. Held(t)' <= Held(t)
    BY <1>1, HeldShrinks DEF Live
  <2> QED
    BY <1>1, <2>1, NoNewShortfall DEF OrganizerCut
<1>2. ASSUME NEW u \in Types, DeleteTicketType(u)
      PROVE  ~(Shortfall(t)' > Shortfall(t))
  <2>1. CASE u # t
    <3>1. \A r \in Reservations : Live(r)' => Live(r) /\ held'[r][t] <= held[r][t]
      BY <1>2, <2>1 DEF DeleteTicketType, Live
    <3>2. quantity'[t] = quantity[t]
      BY <1>2, <2>1 DEF DeleteTicketType
    <3> QED
      BY <3>1, <3>2, EndsBacked
  <2>2. CASE u = t
    <3>1. \A r \in LiveOnes' : held'[r][t] = 0
      BY <1>2, <2>2 DEF DeleteTicketType, LiveOnes
    <3>2. Held(t)' = 0
      <4>1. IsFiniteSet(LiveOnes')
        BY ReservationsAssumption, FS_Subset DEF LiveOnes
      <4> QED
        BY <3>1, <4>1, HeldIsSum, SumZero
    <3> QED
      BY <3>2, HeldType DEF Shortfall
  <2> QED
    BY <2>1, <2>2
<1>3. CASE \E u \in Types, l \in Listings : CreateTicketType(u, l) \/ UpdateTicketType(u, l)
  BY <1>1, <1>3 DEF CreateTicketType, UpdateTicketType
<1>4. CASE \E u \in Types : OpenSales(u) \/ CloseSales(u)
  BY <1>1, <1>4 DEF OpenSales, CloseSales
<1> QED
  BY <1>2, <1>3, <1>4 DEF Organizer

\* Sweeping, deleting, lapsing, ordering and expiring only ever end holds.
LEMMA EndingBacked ==
  ASSUME TypeOK, TypeOK', NEW t \in Types,
         \/ CleanupExpiredReservations
         \/ \E r \in Reservations :
              \/ DeleteReservation(r)
              \/ Lapse(r)
              \/ CreateCheckoutOrder(r)
              \/ \E s \in Sessions : MarkCheckoutOrderExpired(r, s)
  PROVE  ~(Shortfall(t)' > Shortfall(t))
<1>1. CASE CleanupExpiredReservations
  <2>1. \A r \in Reservations : Live(r)' => Live(r) /\ held'[r][t] <= held[r][t]
    BY <1>1 DEF TypeOK, Live, CleanupExpiredReservations, SweptHold, SweptHeld, Stale
  <2>2. quantity'[t] = quantity[t]
    BY <1>1 DEF CleanupExpiredReservations, listing
  <2> QED
    BY <2>1, <2>2, EndsBacked
<1>2. ASSUME NEW q \in Reservations, DeleteReservation(q)
      PROVE  ~(Shortfall(t)' > Shortfall(t))
  <2>1. \A r \in Reservations : Live(r)' => Live(r) /\ held'[r][t] <= held[r][t]
    BY <1>2 DEF TypeOK, Live, DeleteReservation
  <2>2. quantity'[t] = quantity[t]
    BY <1>2 DEF DeleteReservation, listing
  <2> QED
    BY <2>1, <2>2, EndsBacked
<1>3. ASSUME NEW q \in Reservations, Lapse(q)
      PROVE  ~(Shortfall(t)' > Shortfall(t))
  <2>1. \A r \in Reservations : Live(r)' => Live(r) /\ held'[r][t] <= held[r][t]
    BY <1>3 DEF TypeOK, Live, Lapse
  <2>2. quantity'[t] = quantity[t]
    BY <1>3 DEF Lapse, listing
  <2> QED
    BY <2>1, <2>2, EndsBacked
<1>4. ASSUME NEW q \in Reservations, CreateCheckoutOrder(q)
      PROVE  ~(Shortfall(t)' > Shortfall(t))
  <2>1. \A r \in Reservations : Live(r)' => Live(r) /\ held'[r][t] <= held[r][t]
    BY <1>4 DEF TypeOK, Live, CreateCheckoutOrder, SweptHold, SweptHeld, Stale
  <2>2. quantity'[t] = quantity[t]
    BY <1>4 DEF CreateCheckoutOrder, listing
  <2> QED
    BY <2>1, <2>2, EndsBacked
<1>5. ASSUME NEW q \in Reservations, NEW s \in Sessions, MarkCheckoutOrderExpired(q, s)
      PROVE  ~(Shortfall(t)' > Shortfall(t))
  <2>1. \A r \in Reservations : Live(r)' => Live(r) /\ held'[r][t] <= held[r][t]
    BY <1>5 DEF TypeOK, Live, MarkCheckoutOrderExpired, Released
  <2>2. quantity'[t] = quantity[t]
    BY <1>5 DEF MarkCheckoutOrderExpired, listing
  <2> QED
    BY <2>1, <2>2, EndsBacked
<1> QED
  BY <1>1, <1>2, <1>3, <1>4, <1>5

\* A hold is granted out of what the others leave of the stock.
LEMMA UpsertBacked ==
  ASSUME TypeOK, TypeOK', NEW t \in Types,
         NEW q \in Reservations, NEW want \in Requests, UpsertReservation(q, want)
  PROVE  ~(Shortfall(t)' > Shortfall(t))
<1> USE DEF TypeOK
<1> DEFINE Others == {o \in Reservations \ {q} : Live(o)}
<1>1. IsFiniteSet(Others) /\ Others \in SUBSET LiveOnes /\ q \notin Others
  BY ReservationsAssumption, FS_Subset DEF LiveOnes
<1>2. LiveOnes' = Others \cup {q}
  BY DEF UpsertReservation, SweptHold, Stale, Live, LiveOnes
<1>3. \A o \in Others : held'[o] = held[o]
  BY DEF UpsertReservation, SweptHeld, Stale, Live
<1>4. held'[q] = want /\ want[t] \in Nat /\ quantity' = quantity
  BY RequestsAssumption DEF UpsertReservation, SweptHeld, listing
<1>5. \A o \in Others : held[o][t] \in Nat
  OBVIOUS
<1>6. Sum(held, t, Others) \in Nat
  BY <1>1, <1>5, SumType
<1>7. Held(t)' = want[t] + Sum(held, t, Others)
  <2>1. IsFiniteSet(LiveOnes') /\ q \in LiveOnes' /\ LiveOnes' \ {q} = Others
    BY <1>1, <1>2, ReservationsAssumption, FS_Subset DEF LiveOnes
  <2>2. \A r \in LiveOnes' : held'[r][t] \in Nat
    BY DEF LiveOnes
  <2>3. \A r \in Others : held[r][t] \in Nat /\ held'[r] = held[r]
    BY <1>1, <1>3, <1>5
  <2> HIDE DEF Others, TypeOK
  <2>4. Sum(held', t, LiveOnes') = held'[q][t] + Sum(held', t, LiveOnes' \ {q})
    BY <2>1, <2>2, SumOut
  <2>5. Held(t)' = held'[q][t] + Sum(held', t, Others)
    BY <2>1, <2>4, HeldIsSum
  <2>6. Sum(held', t, Others) = Sum(held, t, Others)
    BY <1>1, <2>3, SumSame
  <2> QED
    BY <1>4, <2>5, <2>6
<1>8. CASE want[t] > 0
  <2>1. want[t] <= quantity[t] - Sum(held, t, Others)
    BY <1>8 DEF UpsertReservation, Grantable, ReservedByOthers, Sum
  <2>2. quantity[t] \in Nat /\ Held(t) \in Nat
    BY HeldType
  <2> HIDE DEF Others
  <2>3. Held(t)' <= quantity'[t]
    BY <1>4, <1>6, <1>7, <2>1, <2>2
  <2> QED
    BY <1>4, <1>6, <1>7, <2>2, <2>3 DEF Shortfall
<1>9. CASE want[t] = 0
  <2>1. \A o \in Others : held[o][t] \in Nat /\ held[o][t] <= held[o][t]
    BY <1>5
  <2>2. IsFiniteSet(LiveOnes) /\ \A r \in LiveOnes : held[r][t] \in Nat
    BY ReservationsAssumption, FS_Subset DEF LiveOnes
  <2> HIDE DEF Others
  <2>3. Sum(held, t, Others) <= Sum(held, t, LiveOnes)
    BY <1>1, <2>1, <2>2, SumGrows
  <2>4. Held(t)' <= Held(t)
    BY <1>4, <1>6, <1>7, <1>9, <2>3, HeldIsSum
  <2> QED
    BY <1>4, <2>4, NoNewShortfall
<1> QED
  BY <1>4, <1>8, <1>9

\* A sale takes out of the stock what its hold no longer claims.
LEMMA SaleBacked ==
  ASSUME TypeOK, TypeOK', NEW t \in Types,
         NEW q \in Reservations, NEW s \in Sessions, MarkCheckoutOrderPaid(q, s)
  PROVE  Shortfall(t)' > Shortfall(t) => UncoveredSale(t)
<1> USE DEF TypeOK
<1> SUFFICES ASSUME ~UncoveredSale(t)
             PROVE  ~(Shortfall(t)' > Shortfall(t))
  OBVIOUS
<1> DEFINE Others == LiveOnes \ {q}
<1>1. ordered[q][t] <= IF Live(q) THEN held[q][t] ELSE 0
  BY DEF MarkCheckoutOrderPaid, Payable, UncoveredSale
<1>2. quantity'[t] = quantity[t] - ordered[q][t] /\ quantity'[t] \in Nat
  BY DEF MarkCheckoutOrderPaid, StockAfter
<1>3. LiveOnes' = Others \cup {q} /\ q \notin Others
  BY DEF MarkCheckoutOrderPaid, Live, LiveOnes
<1>4. \A o \in Others : held'[o] = held[o] /\ held[o][t] \in Nat
  BY DEF MarkCheckoutOrderPaid, LiveOnes
<1>5. held'[q][t] = 0
  BY DEF MarkCheckoutOrderPaid
<1>6. IsFiniteSet(Others)
  BY ReservationsAssumption, FS_Subset DEF LiveOnes
<1>7. Sum(held, t, Others) \in Nat
  BY <1>4, <1>6, SumType
<1>8. Held(t)' = Sum(held, t, Others)
  <2>1. IsFiniteSet(LiveOnes') /\ q \in LiveOnes' /\ LiveOnes' \ {q} = Others
    BY <1>3, ReservationsAssumption, FS_Subset DEF LiveOnes
  <2>2. \A r \in LiveOnes' : held'[r][t] \in Nat
    BY DEF LiveOnes
  <2>3. \A r \in Others : held[r][t] \in Nat /\ held'[r] = held[r]
    BY <1>4, <1>6
  <2> HIDE DEF Others, TypeOK
  <2>4. Sum(held', t, LiveOnes') = held'[q][t] + Sum(held', t, LiveOnes' \ {q})
    BY <2>1, <2>2, SumOut
  <2>5. Held(t)' = held'[q][t] + Sum(held', t, Others)
    BY <2>1, <2>4, HeldIsSum
  <2>6. Sum(held', t, Others) = Sum(held, t, Others)
    BY <1>6, <2>3, SumSame
  <2> QED
    BY <1>5, <1>7, <2>5, <2>6
<1>9. Held(t) = (IF Live(q) THEN held[q][t] ELSE 0) + Sum(held, t, Others)
  <2>1. CASE Live(q)
    <3>1. q \in LiveOnes /\ IsFiniteSet(LiveOnes) /\ \A r \in LiveOnes : held[r][t] \in Nat
      BY <2>1, ReservationsAssumption, FS_Subset DEF LiveOnes
    <3> HIDE DEF TypeOK
    <3>2. Sum(held, t, LiveOnes) = held[q][t] + Sum(held, t, Others)
      BY <3>1, SumOut
    <3> QED
      BY <2>1, <3>2, HeldIsSum
  <2>2. CASE ~Live(q)
    <3>1. Others = LiveOnes
      BY <2>2 DEF LiveOnes
    <3> HIDE DEF Others, TypeOK
    <3>2. Held(t) = Sum(held, t, Others)
      BY <3>1, HeldIsSum
    <3> QED
      BY <1>7, <2>2, <3>2
  <2> QED
    BY <2>1, <2>2
<1>10. quantity[t] \in Nat /\ ordered[q][t] \in Nat /\ held[q][t] \in Nat
  OBVIOUS
<1> HIDE DEF Others
<1> QED
  BY <1>1, <1>2, <1>7, <1>8, <1>9, <1>10 DEF Shortfall

\* Live holds never come to claim more of a type than there is, but by a sale
\* their own hold does not cover or by an organizer who lowers the quantity, in
\* whatever order customers hold, renew, order, pay and expire.
THEOREM Backed == Spec => HoldsAreBacked
<1>1. TypeOK /\ TypeOK' /\ [Next]_vars =>
        \A t \in Types : Shortfall(t)' > Shortfall(t) => UncoveredSale(t) \/ OrganizerCut(t)
  <2> SUFFICES ASSUME TypeOK, TypeOK', [Next]_vars, NEW t \in Types
               PROVE  Shortfall(t)' > Shortfall(t) => UncoveredSale(t) \/ OrganizerCut(t)
    OBVIOUS
  <2>1. CASE Organizer
    BY <2>1, OrganizerBacked
  <2>2. ASSUME NEW r \in Reservations, NEW want \in Requests, UpsertReservation(r, want)
        PROVE  ~(Shortfall(t)' > Shortfall(t))
    BY <2>2, UpsertBacked
  <2>3. ASSUME NEW r \in Reservations, NEW s \in Sessions, MarkCheckoutOrderPaid(r, s)
        PROVE  Shortfall(t)' > Shortfall(t) => UncoveredSale(t)
    BY <2>3, SaleBacked
  <2>4. ASSUME UNCHANGED <<quantity, holds>>
        PROVE  ~(Shortfall(t)' > Shortfall(t))
    <3>1. \A r \in Reservations : Live(r)' => Live(r) /\ held'[r][t] <= held[r][t]
      BY <2>4 DEF TypeOK, Live, holds
    <3> QED
      BY <2>4, <3>1, EndsBacked
  <2>5. CASE \E s \in Sessions :
               \/ \E r \in Reservations :
                    CreateStripeCheckoutSession(r, s) \/ LoseStripeCheckoutSession(r, s)
               \/ \E o \in {"paid", "processing"} : CompleteStripeSession(s, o)
               \/ \E o \in {"paid", "failed"} : SettleStripePayment(s, o)
               \/ ExpireStripeSession(s)
    BY <2>4, <2>5 DEF CreateStripeCheckoutSession, LoseStripeCheckoutSession,
                      CompleteStripeSession, SettleStripePayment, ExpireStripeSession, listing
  <2>6. CASE UNCHANGED vars
    BY <2>4, <2>6 DEF vars, listing
  <2> QED
    BY <2>1, <2>2, <2>3, <2>5, <2>6, EndingBacked DEF Next, Customer, Clock, Webhook
<1> QED
  BY <1>1, TypeCorrect, PTL DEF Spec, HoldsAreBacked

\* The stock covers what live holds claim.
NoShortfall == \A t \in Types : Held(t) <= quantity[t]

\* Every payment is for what its own live hold covers, and no organizer lowers a
\* quantity.
Orderly == \A t \in Types : ~UncoveredSale(t) /\ ~OrganizerCut(t)

\* An order that may be paid and whose hold is still there is in stock.
CoveredOrdersAreInStock ==
  \A r \in Reservations :
    Payable(r) /\ Live(r) /\ (\A t \in Types : ordered[r][t] <= held[r][t]) => InStock(r)

LEMMA CoveredByStock ==
  ASSUME TypeOK, NoShortfall
  PROVE  CoveredOrdersAreInStock
<1> SUFFICES ASSUME NEW r \in Reservations, Live(r), NEW t \in Types, ordered[r][t] <= held[r][t]
             PROVE  ordered[r][t] <= quantity[t]
  BY DEF CoveredOrdersAreInStock, InStock
<1>1. r \in LiveOnes /\ IsFiniteSet(LiveOnes) /\ \A o \in LiveOnes : held[o][t] \in Nat
  BY ReservationsAssumption, FS_Subset DEF LiveOnes, TypeOK
<1>2. Sum(held, t, LiveOnes) = held[r][t] + Sum(held, t, LiveOnes \ {r})
  BY <1>1, SumOut
<1>3. Sum(held, t, LiveOnes \ {r}) \in Nat
  <2>1. IsFiniteSet(LiveOnes \ {r}) /\ \A o \in LiveOnes \ {r} : held[o][t] \in Nat
    BY <1>1, FS_Subset
  <2> QED
    BY <2>1, SumType
<1>4. Held(t) <= quantity[t] /\ Held(t) = Sum(held, t, LiveOnes)
  BY HeldIsSum DEF NoShortfall
<1>5. ordered[r][t] \in Nat /\ held[r][t] \in Nat /\ quantity[t] \in Nat
  BY DEF TypeOK
<1> QED
  BY <1>2, <1>3, <1>4, <1>5

\* As long as every payment is covered by its own hold and no organizer lowers a
\* quantity, whoever pays while the hold lasts gets the tickets: the units are
\* there, whoever else held, paid and renewed in the meantime.
THEOREM HoldersGetTheirTickets ==
  Spec /\ [][Orderly]_vars => [](NoShortfall /\ CoveredOrdersAreInStock)
<1>1. Init => NoShortfall
  <2> SUFFICES ASSUME Init, NEW t \in Types
               PROVE  Held(t) <= quantity[t]
    BY DEF NoShortfall
  <2>1. IsFiniteSet(LiveOnes) /\ \A r \in LiveOnes : held[r][t] = 0
    BY ReservationsAssumption, FS_Subset DEF Init, LiveOnes, Nothing
  <2>2. Held(t) = 0
    BY <2>1, HeldIsSum, SumZero
  <2> QED
    BY <2>2 DEF Init, Nothing
<1>2. ASSUME TypeOK, TypeOK', NoShortfall, NEW t \in Types, ~(Shortfall(t)' > Shortfall(t))
      PROVE  Held(t)' <= quantity'[t]
  <2>1. quantity'[t] \in Nat /\ Held(t) \in Nat /\ quantity[t] \in Nat
    BY <1>2, HeldType DEF TypeOK
  <2>2. Held(t)' \in Nat
    BY <1>2, HeldTypeNext
  <2>3. Shortfall(t) = 0
    BY <1>2, <2>1 DEF NoShortfall, Shortfall
  <2> QED
    BY <1>2, <2>1, <2>2, <2>3 DEF Shortfall
<1>3. TypeOK /\ TypeOK' /\ NoShortfall /\ [Orderly]_vars
        /\ [\A t \in Types : Shortfall(t)' > Shortfall(t) => UncoveredSale(t) \/ OrganizerCut(t)]_vars
      => NoShortfall'
  <2>1. ASSUME TypeOK, TypeOK', NoShortfall, UNCHANGED vars
        PROVE  NoShortfall'
    <3>1. \A r \in Reservations, t \in Types : Live(r)' => Live(r) /\ held'[r][t] <= held[r][t]
      BY <2>1 DEF TypeOK, Live, vars, holds
    <3>2. \A t \in Types : ~(Shortfall(t)' > Shortfall(t))
      BY <2>1, <3>1, EndsBacked DEF vars, listing
    <3> QED
      BY <1>2, <2>1, <3>2 DEF NoShortfall
  <2> QED
    BY <1>2, <2>1 DEF Orderly, NoShortfall
<1>4. Spec /\ [][Orderly]_vars => []NoShortfall
  BY <1>1, <1>3, TypeCorrect, Backed, PTL DEF Spec, HoldsAreBacked
<1>5. TypeOK /\ NoShortfall => CoveredOrdersAreInStock
  BY CoveredByStock
<1> QED
  BY <1>4, <1>5, TypeCorrect, PTL

-----------------------------------------------------------------------------
(***************************************************************************)
(* TicketSales implements SeatLedger.                                      *)
(***************************************************************************)

LEMMA LedgerInit == Init => Ledger!Init
  BY DEF Init, Ledger!Init, Ledger!NoItems

LEMMA LedgerOrganizer ==
  ASSUME TypeOK, Organizer
  PROVE  [Ledger!Next]_Ledger!vars
<1> USE DEF TypeOK, holds, orders
<1>1. ASSUME NEW t \in Types, NEW l \in Listings, CreateTicketType(t, l) \/ UpdateTicketType(t, l)
      PROVE  Ledger!Restock(t)
  <2>1. l[1] \in Nat
    BY ListingsAssumption
  <2> QED
    BY <1>1, <2>1 DEF CreateTicketType, UpdateTicketType, Ledger!Restock
<1>2. ASSUME NEW t \in Types, DeleteTicketType(t)
      PROVE  Ledger!Withdraw(t)
  BY <1>2 DEF DeleteTicketType, NeverOrdered, Ledger!Withdraw
<1>3. ASSUME NEW t \in Types, OpenSales(t) \/ CloseSales(t)
      PROVE  UNCHANGED Ledger!vars
  BY <1>3 DEF OpenSales, CloseSales, Ledger!vars
<1> QED
  BY <1>1, <1>2, <1>3 DEF Organizer, Ledger!Next

\* An order is placed for what is held, and nothing held is of a deleted type.
LEMMA LedgerPlace ==
  ASSUME TypeOK, NoTraceOfDeletedTypes, NEW r \in Reservations, CreateCheckoutOrder(r)
  PROVE  Ledger!Place(r)
<1> USE DEF TypeOK
<1>1. status[r] = "none" /\ held[r] # Nothing /\ ordered' = [ordered EXCEPT ![r] = held[r]]
  BY DEF CreateCheckoutOrder, Orderable
<1>2. ordered'[r] = held[r]
  BY <1>1
<1>3. \A t \in Types \ listed : held[r][t] = 0
  BY DEF NoTraceOfDeletedTypes
<1> QED
  BY <1>1, <1>2, <1>3 DEF CreateCheckoutOrder, listing, Ledger!Place, Ledger!NoItems

\* The tickets of a pending order are issued on top of none.
LEMMA LedgerIssue ==
  ASSUME TypeOK, PaidOrdersHaveTheirTickets,
         NEW r \in Reservations, NEW s \in Sessions, MarkCheckoutOrderPaid(r, s)
  PROVE  Ledger!Issue(r)
<1> USE DEF TypeOK
<1>1. tickets[r] = Nothing
  BY DEF MarkCheckoutOrderPaid, Payable, PaidOrdersHaveTheirTickets
<1>2. [t \in Types |-> tickets[r][t] + ordered[r][t]] = ordered[r]
  BY <1>1
<1>3. tickets' = [tickets EXCEPT ![r] = ordered[r]]
  BY <1>2 DEF MarkCheckoutOrderPaid
<1> QED
  BY <1>3 DEF MarkCheckoutOrderPaid, Payable, InStock, StockAfter, Ledger!Issue

LEMMA LedgerExpire ==
  ASSUME NEW r \in Reservations, NEW s \in Sessions, MarkCheckoutOrderExpired(r, s)
  PROVE  Ledger!Expire(r)
  BY DEF MarkCheckoutOrderExpired, Expirable, listing, Ledger!Expire

LEMMA LedgerStep ==
  ASSUME TypeOK, NoTraceOfDeletedTypes, PaidOrdersHaveTheirTickets, [Next]_vars
  PROVE  [Ledger!Next]_Ledger!vars
<1>1. CASE Organizer
  BY <1>1, LedgerOrganizer
<1>2. ASSUME NEW r \in Reservations, CreateCheckoutOrder(r)
      PROVE  Ledger!Next
  BY <1>2, LedgerPlace DEF Ledger!Next
<1>3. ASSUME NEW r \in Reservations, NEW s \in Sessions, Webhook(r, s)
      PROVE  Ledger!Next
  BY <1>3, LedgerIssue, LedgerExpire DEF Webhook, Ledger!Next
<1>4. ASSUME \/ CleanupExpiredReservations
             \/ \E r \in Reservations :
                  \/ \E want \in Requests : UpsertReservation(r, want)
                  \/ DeleteReservation(r)
                  \/ \E s \in Sessions :
                       \/ CreateStripeCheckoutSession(r, s)
                       \/ LoseStripeCheckoutSession(r, s)
             \/ \E s \in Sessions, o \in {"paid", "processing"} : CompleteStripeSession(s, o)
             \/ Clock
             \/ UNCHANGED vars
      PROVE  UNCHANGED Ledger!vars
  BY <1>4 DEF CleanupExpiredReservations, UpsertReservation, DeleteReservation,
              CreateStripeCheckoutSession, LoseStripeCheckoutSession, CompleteStripeSession,
              Clock, Lapse, ExpireStripeSession, SettleStripePayment,
              vars, listing, orders, Ledger!vars
<1> QED
  BY <1>1, <1>2, <1>3, <1>4 DEF Next, Customer

\* Selling implements the ledger for any number of types, reservations and
\* Stripe sessions: placing, issuing and expiring are its steps, the organizer's
\* edits are restocks and withdrawals, and all else is invisible to it.
THEOREM ImplementsLedger == Spec => SellsFromTheLedger
<1>1. Init => Ledger!Init
  BY LedgerInit
<1>2. TypeOK /\ NoTraceOfDeletedTypes /\ PaidOrdersHaveTheirTickets /\ [Next]_vars
        => [Ledger!Next]_Ledger!vars
  BY LedgerStep
<1> QED
  BY <1>1, <1>2, TypeCorrect, NoTrace, PaidOrdersTicketed, PTL
     DEF Spec, SellsFromTheLedger, Ledger!Spec
=============================================================================
