------------------------------ MODULE TicketMail ------------------------------
(***************************************************************************)
(* The mail with the tickets of a paid order: HandleStripeWebhook of       *)
(* internal/events/service.go, from Stripe's checkout.session.completed to *)
(* the push "Payment confirmed".                                           *)
(*                                                                         *)
(* Every delivery of the webhook is a request of its own.  It marks the    *)
(* order paid (one transaction, the action MarkCheckoutOrderPaid of        *)
(* TicketSales), reads the order again, lists its tickets, hands the mail  *)
(* to Mailjet, sets tickets_emailed_at, and pushes.  Nothing joins these   *)
(* steps: the server may stop, or Stripe hang up and cancel the request's  *)
(* context, between any two, and two deliveries may run side by side.      *)
(* Stripe delivers again until it is answered with success, and may        *)
(* deliver once more after that.                                           *)
(***************************************************************************)
EXTENDS Naturals, FiniteSets

CONSTANTS
  Orders,       \* checkout_orders.id, each with its Stripe session
  NoOrder,      \* the order of no delivery
  Requests,     \* deliveries the server handles at the same time
  MaxFailures   \* bound: how many requests fail on the way, in all

ASSUME NoOrderAssumption == NoOrder \notin Orders
ASSUME RequestsAssumption == IsFiniteSet(Requests)
ASSUME MaxFailuresAssumption == MaxFailures \in Nat

VARIABLES
  status,       \* checkout_orders.status
  emailed,      \* checkout_orders.tickets_emailed_at IS NOT NULL
  stripe,       \* what Stripe still has to do about the order's webhook
  request,      \* each delivery: its order and its next step
  failures,     \* how many requests have failed
  sent,         \* the mails Mailjet accepted
  confirmed,    \* history: the orders whose customer got a push
  excuses       \* history: the reasons there were to send a mail again

tables == <<status, emailed>>
vars   == <<tables, stripe, request, failures, sent, confirmed, excuses>>

Idle == [step |-> "idle", order |-> NoOrder]
Steps == {"pay", "read", "send", "mark", "push"}
Request == {Idle} \cup [step : Steps, order : Orders]

Go(q, step) == request' = [request EXCEPT ![q].step = step]
End(q) == request' = [request EXCEPT ![q] = Idle]

\* q has found the mail not sent and has not yet recorded it as sent.
Mailing(q) == request[q].step \in {"send", "mark"}
OthersMail(q, o) == \E p \in Requests \ {q} : Mailing(p) /\ request[p].order = o

-----------------------------------------------------------------------------
(* Stripe. *)

CompleteCheckout(o) ==
  /\ stripe[o] = "open"
  /\ stripe' = [stripe EXCEPT ![o] = "owed"]
  /\ UNCHANGED <<tables, request, failures, sent, confirmed, excuses>>

Deliver(q, o) ==
  /\ request[q] = Idle
  /\ stripe[o] # "open"
  /\ request' = [request EXCEPT ![q] = [step |-> "pay", order |-> o]]
  /\ UNCHANGED <<tables, stripe, failures, sent, confirmed, excuses>>

\* 200 OK.
Answer(q) ==
  /\ End(q)
  /\ stripe' = [stripe EXCEPT ![request[q].order] = "answered"]

-----------------------------------------------------------------------------
(* One delivery. *)

\* ShouldEmailTickets is set for an order that was paid before as well.
\* Mutation: only for one that this delivery has marked paid.
OnlyNew(o) == status[o] = "pending_payment"
ShouldEmailTickets(o) == TRUE

MarkPaid(q) ==
  LET o == request[q].order IN
  /\ request[q].step = "pay"
  /\ status' = [status EXCEPT ![o] = "paid"]
  /\ IF ShouldEmailTickets(o)
     THEN Go(q, "read") /\ UNCHANGED stripe
     ELSE Answer(q)
  /\ UNCHANGED <<emailed, failures, sent, confirmed, excuses>>

\* Mutation: the error is logged and the handler goes on.
Carry(q) == Go(q, "read")
ReportError(q) == End(q)

\* Mutation: the stock is looked at before the status is.
AlwaysMayBeShort(o) == TRUE
MayBeShort(o) == status[o] = "pending_payment"

\* The stock is short of the order, which stays as it is: an error.
RefusePaid(q) ==
  /\ request[q].step = "pay"
  /\ MayBeShort(request[q].order)
  /\ ReportError(q)
  /\ UNCHANGED <<tables, stripe, failures, sent, confirmed, excuses>>

\* Mutation: tickets_emailed_at is not looked at.
Whatever(o) == FALSE
TicketsEmailed(o) == emailed[o]

\* GetCheckoutOrderByStripeSessionID.  Whoever finds the mail unsent while
\* another delivery does so too is one reason more for a second mail.
ReadOrder(q) ==
  LET o == request[q].order IN
  /\ request[q].step = "read"
  /\ IF status[o] # "paid" \/ TicketsEmailed(o)
     THEN Answer(q) /\ UNCHANGED excuses
     ELSE /\ Go(q, "send")
          /\ excuses' = [excuses EXCEPT ![o] = @ + (IF OthersMail(q, o) THEN 1 ELSE 0)]
          /\ UNCHANGED stripe
  /\ UNCHANGED <<tables, failures, sent, confirmed>>

\* ListByOrderID, the receipt, and Mailjet.
SendTicketsIssued(q) ==
  LET o == request[q].order IN
  /\ request[q].step = "send"
  /\ sent' = [sent EXCEPT ![o] = @ + 1]
  /\ Go(q, "mark")
  /\ UNCHANGED <<tables, stripe, failures, confirmed, excuses>>

MarkCheckoutOrderTicketsEmailed(q) ==
  /\ request[q].step = "mark"
  /\ emailed' = [emailed EXCEPT ![request[q].order] = TRUE]
  /\ Go(q, "push")
  /\ UNCHANGED <<status, stripe, failures, sent, confirmed, excuses>>

\* The push is best effort and fails silently.
NotifyUserByEmail(q) ==
  /\ request[q].step = "push"
  /\ confirmed' \in {confirmed, confirmed \cup {request[q].order}}
  /\ Answer(q)
  /\ UNCHANGED <<tables, failures, sent, excuses>>

\* The request ends without an answer: an error, a cancelled context, a server
\* that stops.  Mailjet may have taken a mail it was not heard to take.
Fail(q) ==
  LET o == request[q].order IN
  /\ request[q] # Idle
  /\ failures < MaxFailures
  /\ failures' = failures + 1
  /\ End(q)
  /\ \/ UNCHANGED sent
     \/ request[q].step = "send" /\ sent' = [sent EXCEPT ![o] = @ + 1]
  /\ excuses' = IF Mailing(q) THEN [excuses EXCEPT ![o] = @ + 1] ELSE excuses
  /\ UNCHANGED <<tables, stripe, confirmed>>

-----------------------------------------------------------------------------
Init ==
  /\ status = [o \in Orders |-> "pending_payment"]
  /\ emailed = [o \in Orders |-> FALSE]
  /\ stripe = [o \in Orders |-> "open"]
  /\ request = [q \in Requests |-> Idle]
  /\ failures = 0
  /\ sent = [o \in Orders |-> 0]
  /\ confirmed = {}
  /\ excuses = [o \in Orders |-> 0]

HandleStripeWebhook(q) ==
  \/ MarkPaid(q)
  \/ RefusePaid(q)
  \/ ReadOrder(q)
  \/ SendTicketsIssued(q)
  \/ MarkCheckoutOrderTicketsEmailed(q)
  \/ NotifyUserByEmail(q)

Next ==
  \/ \E o \in Orders : CompleteCheckout(o)
  \/ \E q \in Requests :
       \/ \E o \in Orders : Deliver(q, o)
       \/ HandleStripeWebhook(q)
       \/ Fail(q)

Spec == Init /\ [][Next]_vars

\* A request that runs goes on.  Stripe repeats what was not answered; it is not
\* kept waiting by other deliveries, each of which has a goroutine of its own.
Redeliver(o) == stripe[o] = "owed" /\ \E q \in Requests : Deliver(q, o)
Fairness ==
  /\ \A q \in Requests : WF_vars(HandleStripeWebhook(q))
  /\ \A o \in Orders : SF_vars(Redeliver(o))

FairSpec == Spec /\ Fairness

-----------------------------------------------------------------------------
(* Properties. *)

\* The types of the variables; a delivery that has got past MarkPaid is of a
\* paid order.
TypeOK ==
  /\ status \in [Orders -> {"pending_payment", "paid"}]
  /\ emailed \in [Orders -> BOOLEAN]
  /\ stripe \in [Orders -> {"open", "owed", "answered"}]
  /\ request \in [Requests -> Request]
  /\ \A q \in Requests :
       request[q].step \notin {"idle", "pay"} => status[request[q].order] = "paid"
  /\ failures \in 0..MaxFailures
  /\ sent \in [Orders -> Nat]
  /\ confirmed \in SUBSET Orders
  /\ excuses \in [Orders -> Nat]

\* A customer gets a second mail only because a request failed between reading
\* the order and recording the mail, or because two deliveries ran side by side
\* there: however often Stripe repeats itself otherwise, there is one mail
\* (service.go:437, :497).
MailsHaveReasons == \A o \in Orders : sent[o] <= 1 + excuses[o]

\* Neither tickets_emailed_at nor the push "Payment confirmed" ever claims a mail
\* that Mailjet was not given, whatever fails on the way; and no delivery is
\* answered with success before that, so Stripe repeats until there is a mail.
ClaimsAreTrue ==
  \A o \in Orders :
    emailed[o] \/ o \in confirmed \/ stripe[o] = "answered" =>
      sent[o] > 0 /\ status[o] = "paid"

\* Every order that is paid gets its mail recorded, though requests fail: the
\* redelivery finds the order paid and goes on from there.
PaidOrdersAreMailed == \A o \in Orders : (status[o] = "paid") ~> emailed[o]
=============================================================================
