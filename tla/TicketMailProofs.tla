--------------------------- MODULE TicketMailProofs ---------------------------
(***************************************************************************)
(* The safety properties of TicketMail, proved for any orders, any finite  *)
(* number of deliveries at the same time, and any number of failures.      *)
(***************************************************************************)
EXTENDS TicketMail, FiniteSetTheorems, TLAPS

\* A delivery on its way has an order.
LEMMA OrderType ==
  ASSUME TypeOK, NEW q \in Requests, request[q] # Idle
  PROVE  /\ request[q] \in [step : Steps, order : Orders]
         /\ request[q].order \in Orders
         /\ request[q].step \in Steps
  BY DEF TypeOK, Request

LEMMA Busy ==
  ASSUME TypeOK, NEW q \in Requests, request[q].step # "idle"
  PROVE  request[q] # Idle
  BY DEF Idle

LEMMA IdleType == Idle \in Request /\ Idle.step = "idle"
  BY DEF Idle, Request

\* A delivery that is put at another step, or is over.
LEMMA RequestType ==
  ASSUME TypeOK, NEW q \in Requests, NEW r \in Request,
         request' = [request EXCEPT ![q] = r],
         status' \in [Orders -> {"pending_payment", "paid"}],
         \A o \in Orders : status[o] = "paid" => status'[o] = "paid",
         r.step \notin {"idle", "pay"} => status'[r.order] = "paid"
  PROVE  /\ request' \in [Requests -> Request]
         /\ \A p \in Requests :
              request'[p].step \notin {"idle", "pay"} => status'[request'[p].order] = "paid"
<1>1. request' \in [Requests -> Request]
  BY DEF TypeOK
<1>2. ASSUME NEW p \in Requests, request'[p].step \notin {"idle", "pay"}
      PROVE  status'[request'[p].order] = "paid"
  <2>1. CASE p = q
    BY <1>2, <2>1 DEF TypeOK
  <2>2. CASE p # q
    <3>1. request'[p] = request[p] /\ request[p].step # "idle"
      BY <1>2, <2>2 DEF TypeOK
    <3>2. request[p].order \in Orders
      BY <3>1, Busy, OrderType
    <3> QED
      BY <1>2, <3>1, <3>2 DEF TypeOK
  <2> QED
    BY <2>1, <2>2
<1> QED
  BY <1>1, <1>2

LEMMA GoType ==
  ASSUME TypeOK, NEW q \in Requests, request[q] # Idle, NEW step \in Steps, Go(q, step)
  PROVE  /\ [request[q] EXCEPT !.step = step] \in Request
         /\ [request[q] EXCEPT !.step = step].order = request[q].order
         /\ request' = [request EXCEPT ![q] = [request[q] EXCEPT !.step = step]]
<1>1. request[q] \in [step : Steps, order : Orders]
  BY OrderType
<1> QED
  BY <1>1 DEF Go, Request, TypeOK

\* Every handler step, and every failure, keeps the types.
LEMMA HandlerType ==
  ASSUME TypeOK, NEW q \in Requests, HandleStripeWebhook(q)
  PROVE  TypeOK'
<1> DEFINE o == request[q].order
<1>0. request[q] # Idle /\ o \in Orders /\ (request[q].step # "pay" => status[o] = "paid")
  BY Busy, OrderType
     DEF HandleStripeWebhook, MarkPaid, RefusePaid, ReadOrder, SendTicketsIssued,
         MarkCheckoutOrderTicketsEmailed, NotifyUserByEmail, TypeOK
<1>a. ASSUME NEW step \in Steps, Go(q, step),
             status' \in [Orders -> {"pending_payment", "paid"}], status'[o] = "paid",
             \A x \in Orders : status[x] = "paid" => status'[x] = "paid"
      PROVE  /\ request' \in [Requests -> Request]
             /\ \A p \in Requests :
                  request'[p].step \notin {"idle", "pay"} => status'[request'[p].order] = "paid"
  <2> DEFINE r == [request[q] EXCEPT !.step = step]
  <2>1. r \in Request /\ r.order = o /\ request' = [request EXCEPT ![q] = r]
    BY <1>0, <1>a, GoType
  <2>2. status'[r.order] = "paid"
    BY <1>a, <2>1
  <2> HIDE DEF r, o
  <2> QED
    BY <1>a, <2>1, <2>2, RequestType
<1>b. ASSUME End(q), status' = status
      PROVE  /\ request' \in [Requests -> Request]
             /\ \A p \in Requests :
                  request'[p].step \notin {"idle", "pay"} => status'[request'[p].order] = "paid"
  BY <1>b, IdleType, RequestType DEF End, TypeOK
<1>c. ASSUME Answer(q) PROVE stripe' \in [Orders -> {"open", "owed", "answered"}] /\ End(q)
  BY <1>0, <1>c DEF Answer, TypeOK
<1>d. {"read", "send", "mark", "push"} \subseteq Steps
  BY DEF Steps
<1> HIDE DEF o
<1>1. CASE MarkPaid(q)
  <2>1. Go(q, "read") /\ UNCHANGED stripe /\ status' = [status EXCEPT ![o] = "paid"]
    BY <1>1 DEF MarkPaid, ShouldEmailTickets, o
  <2>2. /\ status' \in [Orders -> {"pending_payment", "paid"}]
        /\ status'[o] = "paid"
        /\ \A x \in Orders : status[x] = "paid" => status'[x] = "paid"
    BY <1>0, <2>1 DEF TypeOK
  <2> QED
    BY <1>1, <2>1, <2>2, <1>a, <1>d DEF MarkPaid, TypeOK
<1>2. CASE RefusePaid(q)
  BY <1>2, <1>b DEF RefusePaid, ReportError, tables, TypeOK
<1>3. CASE ReadOrder(q)
  <2>1. status' = status /\ status[o] = "paid"
    BY <1>0, <1>3 DEF ReadOrder, tables
  <2>2. CASE TicketsEmailed(o)
    BY <1>3, <2>1, <2>2, <1>b, <1>c DEF ReadOrder, o, tables, TypeOK
  <2>3. CASE ~TicketsEmailed(o)
    <3>1. Go(q, "send") /\ UNCHANGED stripe /\ excuses' \in [Orders -> Nat]
      BY <1>0, <1>3, <2>1, <2>3 DEF ReadOrder, o, TypeOK
    <3> QED
      BY <1>0, <1>3, <2>1, <3>1, <1>a, <1>d DEF ReadOrder, tables, TypeOK
  <2> QED
    BY <2>2, <2>3
<1>4. CASE SendTicketsIssued(q)
  <2>1. sent' \in [Orders -> Nat] /\ status' = status /\ status[o] = "paid" /\ Go(q, "mark")
    BY <1>0, <1>4 DEF SendTicketsIssued, tables, TypeOK, o
  <2> QED
    BY <1>0, <1>4, <2>1, <1>a, <1>d DEF SendTicketsIssued, tables, TypeOK
<1>5. CASE MarkCheckoutOrderTicketsEmailed(q)
  <2>1. emailed' \in [Orders -> BOOLEAN] /\ status' = status /\ status[o] = "paid" /\ Go(q, "push")
    BY <1>0, <1>5 DEF MarkCheckoutOrderTicketsEmailed, TypeOK, o
  <2> QED
    BY <1>0, <1>5, <2>1, <1>a, <1>d DEF MarkCheckoutOrderTicketsEmailed, TypeOK
<1>6. CASE NotifyUserByEmail(q)
  <2>1. confirmed' \in SUBSET Orders
    BY <1>0, <1>6 DEF NotifyUserByEmail, TypeOK, o
  <2> QED
    BY <1>6, <2>1, <1>b, <1>c DEF NotifyUserByEmail, tables, TypeOK
<1> QED
  BY <1>1, <1>2, <1>3, <1>4, <1>5, <1>6 DEF HandleStripeWebhook

LEMMA FailType ==
  ASSUME TypeOK, NEW q \in Requests, Fail(q)
  PROVE  TypeOK'
<1> USE DEF TypeOK, End
<1>1. request[q].order \in Orders
  BY OrderType DEF Fail
<1>2. failures' \in 0..MaxFailures
  BY MaxFailuresAssumption DEF Fail
<1>3. sent' \in [Orders -> Nat] /\ excuses' \in [Orders -> Nat]
  BY <1>1 DEF Fail
<1> QED
  BY <1>1, <1>2, <1>3, IdleType DEF Fail, tables

LEMMA StripeType ==
  ASSUME TypeOK, NEW o \in Orders,
         CompleteCheckout(o) \/ \E q \in Requests : Deliver(q, o)
  PROVE  TypeOK'
<1>1. CASE CompleteCheckout(o)
  BY <1>1 DEF CompleteCheckout, tables, TypeOK
<1>2. ASSUME NEW q \in Requests, Deliver(q, o) PROVE TypeOK'
  <2>1. [step |-> "pay", order |-> o] \in Request
    BY DEF Request, Steps
  <2> QED
    BY <1>2, <2>1 DEF Deliver, tables, TypeOK
<1> QED
  BY <1>1, <1>2

\* The columns and the deliveries have their types, and a delivery that got past
\* MarkPaid is of a paid order.
THEOREM ColumnTypes == Spec => []TypeOK
<1>1. Init => TypeOK
  BY MaxFailuresAssumption, IdleType DEF Init, TypeOK
<1>2. TypeOK /\ [Next]_vars => TypeOK'
  <2> SUFFICES ASSUME TypeOK, [Next]_vars PROVE TypeOK'
    OBVIOUS
  <2>1. CASE UNCHANGED vars
    BY <2>1 DEF TypeOK, vars, tables
  <2> QED
    BY <2>1, HandlerType, FailType, StripeType DEF Next
<1> QED
  BY <1>1, <1>2, PTL DEF Spec

-----------------------------------------------------------------------------
\* What is known of an order by the step its delivery is at.
Told ==
  /\ ClaimsAreTrue
  /\ \A q \in Requests :
       /\ request[q].step \in {"mark", "push"} => sent[request[q].order] > 0
       /\ request[q].step = "push" => emailed[request[q].order]

LEMMA ToldStep ==
  ASSUME TypeOK, Told, Next
  PROVE  Told'
<1> USE DEF TypeOK, Told, ClaimsAreTrue, Go, End
<1>1. ASSUME NEW q \in Requests, HandleStripeWebhook(q) PROVE Told'
  <2> DEFINE o == request[q].order
  <2>0. request[q] # Idle /\ request[q] \in [step : Steps, order : Orders] /\ o \in Orders
    BY <1>1, Busy, OrderType
       DEF HandleStripeWebhook, MarkPaid, RefusePaid, ReadOrder, SendTicketsIssued,
           MarkCheckoutOrderTicketsEmailed, NotifyUserByEmail
  <2>1. CASE MarkPaid(q)
    BY <2>0, <2>1 DEF MarkPaid, ShouldEmailTickets
  <2>2. CASE RefusePaid(q)
    BY <2>0, <2>2, IdleType DEF RefusePaid, ReportError, tables
  <2>3. CASE ReadOrder(q)
    <3>1. CASE status[o] # "paid" \/ TicketsEmailed(o)
      BY <2>0, <2>3, <3>1, IdleType DEF ReadOrder, Answer, TicketsEmailed, tables
    <3>2. CASE ~(status[o] # "paid" \/ TicketsEmailed(o))
      BY <2>0, <2>3, <3>2 DEF ReadOrder, tables
    <3> QED
      BY <3>1, <3>2
  <2>4. CASE SendTicketsIssued(q)
    BY <2>0, <2>4 DEF SendTicketsIssued, tables
  <2>5. CASE MarkCheckoutOrderTicketsEmailed(q)
    BY <2>0, <2>5 DEF MarkCheckoutOrderTicketsEmailed
  <2>6. CASE NotifyUserByEmail(q)
    BY <2>0, <2>6, IdleType DEF NotifyUserByEmail, Answer, tables
  <2> QED
    BY <1>1, <2>1, <2>2, <2>3, <2>4, <2>5, <2>6 DEF HandleStripeWebhook
<1>2. ASSUME NEW q \in Requests, Fail(q) PROVE Told'
  <2>1. request[q].order \in Orders
    BY <1>2, OrderType DEF Fail
  <2>2. \A o \in Orders : sent[o] > 0 => sent'[o] > 0
    BY <1>2, <2>1 DEF Fail
  <2> QED
    BY <1>2, <2>1, <2>2, IdleType, OrderType, Busy DEF Fail, tables
<1>3. ASSUME NEW o \in Orders, CompleteCheckout(o) PROVE Told'
  BY <1>3, OrderType, Busy DEF CompleteCheckout, tables
<1>4. ASSUME NEW o \in Orders, NEW q \in Requests, Deliver(q, o) PROVE Told'
  BY <1>4, OrderType, Busy DEF Deliver, tables
<1> QED
  BY <1>1, <1>2, <1>3, <1>4 DEF Next

\* tickets_emailed_at, the push and the answer to Stripe never claim a mail that
\* Mailjet was not given.  The invariant Told says what a delivery at each of its
\* steps has seen done.
THEOREM ClaimsTrue == Spec => []ClaimsAreTrue
<1>1. Init => Told
  BY DEF Init, Told, ClaimsAreTrue, Idle
<1>2. TypeOK /\ Told /\ [Next]_vars => Told'
  <2>1. TypeOK /\ Told /\ UNCHANGED vars => Told'
    BY DEF Told, ClaimsAreTrue, TypeOK, vars, tables
  <2> QED
    BY <2>1, ToldStep
<1>3. Told => ClaimsAreTrue
  BY DEF Told
<1> QED
  BY <1>1, <1>2, <1>3, ColumnTypes, PTL DEF Spec

-----------------------------------------------------------------------------
\* The deliveries that are about to send a mail for o, and whether a mail for o
\* is recorded or still on its way to be.
Sending(o) == {q \in Requests : request[q].step = "send" /\ request[q].order = o}
Covered(o) == emailed[o] \/ \E q \in Requests : Mailing(q) /\ request[q].order = o

\* Every mail sent or about to be sent has an excuse of its own, except one as
\* long as that one is recorded or on its way.
Excused ==
  \A o \in Orders :
    Cardinality(Sending(o)) + sent[o] <= excuses[o] + (IF Covered(o) THEN 1 ELSE 0)

LEMMA SendingCount ==
  ASSUME NEW o
  PROVE  IsFiniteSet(Sending(o)) /\ Cardinality(Sending(o)) \in Nat
  BY RequestsAssumption, FS_Subset, FS_CardinalityType DEF Sending

\* The invariant speaks of one order at a time; a step that leaves the order's own
\* deliveries and columns alone leaves it alone.
ExcusedOrder(o) ==
  Cardinality(Sending(o)) + sent[o] <= excuses[o] + (IF Covered(o) THEN 1 ELSE 0)

\* A handler's step changes one delivery; the other orders see nothing of it.
LEMMA OthersExcused ==
  ASSUME TypeOK, NEW o \in Orders, ExcusedOrder(o),
         NEW q \in Requests, NEW r, request' = [request EXCEPT ![q] = r],
         request[q].order # o \/ request[q].step \notin {"send", "mark"},
         r.order # o \/ r.step \notin {"send", "mark"},
         sent'[o] = sent[o], excuses'[o] = excuses[o], emailed[o] => emailed'[o]
  PROVE  ExcusedOrder(o)'
<1>1. \A p \in Requests : request'[p] = IF p = q THEN r ELSE request[p]
  BY DEF TypeOK
<1>2. Sending(o)' = Sending(o)
  BY <1>1 DEF Sending
<1>3. Covered(o) => Covered(o)'
  BY <1>1 DEF Covered, Mailing
<1>4. /\ Cardinality(Sending(o)) \in Nat /\ sent[o] \in Nat /\ excuses[o] \in Nat
  BY SendingCount DEF TypeOK
<1> QED
  BY <1>2, <1>3, <1>4 DEF ExcusedOrder

LEMMA ReadExcused ==
  ASSUME TypeOK, Excused, NEW q \in Requests, NEW o \in Orders, ReadOrder(q)
  PROVE  ExcusedOrder(o)'
<1>0. ExcusedOrder(o) /\ request[q] # Idle /\ request[q].order \in Orders /\ request[q].step = "read"
  BY OrderType, Busy DEF Excused, ExcusedOrder, ReadOrder
<1>1. CASE request' = [request EXCEPT ![q] = Idle] /\ UNCHANGED <<tables, sent, excuses>>
  BY <1>0, <1>1, IdleType, OthersExcused DEF tables
<1>2. CASE ~(request' = [request EXCEPT ![q] = Idle] /\ UNCHANGED <<tables, sent, excuses>>)
  <2> DEFINE r == [request[q] EXCEPT !.step = "send"]
             d == request[q].order
  <2>1. /\ request' = [request EXCEPT ![q] = r]
        /\ ~TicketsEmailed(d)
        /\ excuses' = [excuses EXCEPT ![d] = @ + (IF OthersMail(q, d) THEN 1 ELSE 0)]
        /\ UNCHANGED <<tables, sent>>
    BY <1>0, <1>2 DEF ReadOrder, Go, End, Answer
  <2>2. r.step = "send" /\ r.order = d
    BY <1>0, OrderType DEF Steps
  <2>3. CASE o # d
    <3>1. excuses'[o] = excuses[o]
      BY <2>1, <2>3 DEF TypeOK
    <3> HIDE DEF r, d
    <3> QED
      BY <1>0, <2>1, <2>2, <2>3, <3>1, OthersExcused DEF tables, d
  <2>4. CASE o = d
    <3> HIDE DEF r
    <3>1. \A p \in Requests : request'[p] = IF p = q THEN r ELSE request[p]
      BY <2>1 DEF TypeOK
    <3>2. Sending(o)' = Sending(o) \cup {q} /\ q \notin Sending(o)
      BY <1>0, <2>2, <2>4, <3>1 DEF Sending
    <3>3. Cardinality(Sending(o))' = Cardinality(Sending(o)) + 1
      BY <3>2, SendingCount, FS_AddElement
    <3>4. Covered(o)'
      BY <2>2, <2>4, <3>1 DEF Covered, Mailing
    <3>5. Covered(o) <=> OthersMail(q, o)
      BY <1>0, <2>1, <2>4 DEF Covered, OthersMail, Mailing, TicketsEmailed, TypeOK
    <3>6. excuses'[o] = excuses[o] + (IF Covered(o) THEN 1 ELSE 0) /\ sent'[o] = sent[o]
      BY <2>1, <2>4, <3>5 DEF TypeOK
    <3>7. Cardinality(Sending(o)) \in Nat /\ sent[o] \in Nat /\ excuses[o] \in Nat
      BY SendingCount DEF TypeOK
    <3> QED
      BY <1>0, <3>3, <3>4, <3>6, <3>7 DEF ExcusedOrder
  <2> QED
    BY <2>3, <2>4
<1> QED
  BY <1>1, <1>2

LEMMA SendExcused ==
  ASSUME TypeOK, Excused, NEW q \in Requests, NEW o \in Orders, SendTicketsIssued(q)
  PROVE  ExcusedOrder(o)'
<1> DEFINE r == [request[q] EXCEPT !.step = "mark"]
           d == request[q].order
<1>0. ExcusedOrder(o) /\ request[q] # Idle /\ d \in Orders /\ request[q].step = "send"
  BY OrderType, Busy DEF Excused, ExcusedOrder, SendTicketsIssued
<1>1. /\ request' = [request EXCEPT ![q] = r]
      /\ sent' = [sent EXCEPT ![d] = @ + 1]
      /\ UNCHANGED <<tables, excuses>>
  BY <1>0 DEF SendTicketsIssued, Go, TypeOK
<1>2. r.step = "mark" /\ r.order = d
  BY <1>0, OrderType DEF Steps
<1>3. CASE o # d
  <2>1. sent'[o] = sent[o]
    BY <1>1, <1>3 DEF TypeOK
  <2> HIDE DEF r, d
  <2> QED
    BY <1>0, <1>1, <1>2, <1>3, <2>1, OthersExcused DEF tables, d
<1>4. CASE o = d
  <2> HIDE DEF r
  <2>1. \A p \in Requests : request'[p] = IF p = q THEN r ELSE request[p]
    BY <1>1 DEF TypeOK
  <2>2. Sending(o)' = Sending(o) \ {q} /\ q \in Sending(o)
    BY <1>0, <1>2, <1>4, <2>1 DEF Sending
  <2>3. Cardinality(Sending(o))' = Cardinality(Sending(o)) - 1
    BY <2>2, SendingCount, FS_RemoveElement
  <2>4. Covered(o)' /\ Covered(o)
    BY <1>0, <1>2, <1>4, <2>1 DEF Covered, Mailing
  <2>5. sent'[o] = sent[o] + 1 /\ excuses'[o] = excuses[o]
    BY <1>1, <1>4 DEF TypeOK
  <2>6. Cardinality(Sending(o)) \in Nat /\ sent[o] \in Nat /\ excuses[o] \in Nat
    BY SendingCount DEF TypeOK
  <2> QED
    BY <1>0, <2>3, <2>4, <2>5, <2>6 DEF ExcusedOrder
<1> QED
  BY <1>3, <1>4

LEMMA MarkExcused ==
  ASSUME TypeOK, Excused, NEW q \in Requests, NEW o \in Orders,
         MarkCheckoutOrderTicketsEmailed(q)
  PROVE  ExcusedOrder(o)'
<1> DEFINE r == [request[q] EXCEPT !.step = "push"]
           d == request[q].order
<1>0. ExcusedOrder(o) /\ request[q] # Idle /\ d \in Orders /\ request[q].step = "mark"
  BY OrderType, Busy DEF Excused, ExcusedOrder, MarkCheckoutOrderTicketsEmailed
<1>1. /\ request' = [request EXCEPT ![q] = r]
      /\ emailed' = [emailed EXCEPT ![d] = TRUE]
      /\ UNCHANGED <<sent, excuses>>
  BY <1>0 DEF MarkCheckoutOrderTicketsEmailed, Go, TypeOK
<1>2. r.step = "push"
  BY <1>0, OrderType DEF Steps
<1>3. emailed[o] => emailed'[o]
  BY <1>1 DEF TypeOK
<1>4. CASE o # d
  <2> HIDE DEF r, d
  <2> QED
    BY <1>0, <1>1, <1>2, <1>3, <1>4, OthersExcused DEF d
<1>5. CASE o = d
  <2> HIDE DEF r
  <2>1. \A p \in Requests : request'[p] = IF p = q THEN r ELSE request[p]
    BY <1>1 DEF TypeOK
  <2>2. Sending(o)' = Sending(o)
    BY <1>0, <1>2, <2>1 DEF Sending
  <2>3. Covered(o)'
    BY <1>0, <1>1, <1>5 DEF Covered, TypeOK
  <2>4. Cardinality(Sending(o)) \in Nat /\ sent[o] \in Nat /\ excuses[o] \in Nat
    BY SendingCount DEF TypeOK
  <2> QED
    BY <1>0, <1>1, <2>2, <2>3, <2>4 DEF ExcusedOrder
<1> QED
  BY <1>4, <1>5

LEMMA FailExcused ==
  ASSUME TypeOK, Excused, NEW q \in Requests, NEW o \in Orders, Fail(q)
  PROVE  ExcusedOrder(o)'
<1> DEFINE d == request[q].order
<1>0. ExcusedOrder(o) /\ d \in Orders /\ request' = [request EXCEPT ![q] = Idle] /\ UNCHANGED tables
  BY OrderType DEF Excused, ExcusedOrder, Fail, End
<1>1. CASE o # d \/ ~Mailing(q)
  <2>1. sent'[o] = sent[o] /\ excuses'[o] = excuses[o]
    BY <1>0, <1>1 DEF Fail, Mailing, TypeOK
  <2> QED
    BY <1>0, <1>1, <2>1, IdleType, OthersExcused DEF Mailing, tables
<1>2. CASE o = d /\ Mailing(q)
  <2>1. \A p \in Requests : request'[p] = IF p = q THEN Idle ELSE request[p]
    BY <1>0 DEF TypeOK
  <2>2. Sending(o)' = Sending(o) \ {q} /\ (q \in Sending(o) <=> request[q].step = "send")
    BY <1>2, <2>1, IdleType DEF Sending
  <2>3. Cardinality(Sending(o))' =
          Cardinality(Sending(o)) - (IF request[q].step = "send" THEN 1 ELSE 0)
    <3>1. IsFiniteSet(Sending(o)) /\ Cardinality(Sending(o)) \in Nat
      BY SendingCount
    <3>2. Cardinality(Sending(o) \ {q}) =
            IF q \in Sending(o) THEN Cardinality(Sending(o)) - 1 ELSE Cardinality(Sending(o))
      BY <3>1, FS_RemoveElement
    <3> QED
      BY <2>2, <3>1, <3>2
  <2>4. /\ sent'[o] = sent[o] \/ (request[q].step = "send" /\ sent'[o] = sent[o] + 1)
        /\ excuses'[o] = excuses[o] + 1
    BY <1>0, <1>2 DEF Fail, TypeOK
  <2>5. Cardinality(Sending(o)) \in Nat /\ sent[o] \in Nat /\ excuses[o] \in Nat
    BY SendingCount DEF TypeOK
  <2>6. Cardinality(Sending(o)) + sent[o] <= excuses[o] + 1
    BY <1>0, <2>5 DEF ExcusedOrder
  <2>7. Cardinality(Sending(o))' + sent'[o] <= excuses'[o]
    BY <2>3, <2>4, <2>5, <2>6
  <2> QED
    BY <2>3, <2>4, <2>5, <2>7 DEF ExcusedOrder
<1> QED
  BY <1>1, <1>2

LEMMA ExcusedStep ==
  ASSUME TypeOK, Excused, Next
  PROVE  Excused'
<1> SUFFICES ASSUME NEW o \in Orders PROVE ExcusedOrder(o)'
  BY DEF Excused, ExcusedOrder
<1>0. ExcusedOrder(o)
  BY DEF Excused, ExcusedOrder
<1>1. ASSUME NEW p \in Orders, CompleteCheckout(p) PROVE ExcusedOrder(o)'
  BY <1>0, <1>1 DEF CompleteCheckout, tables, ExcusedOrder, Sending, Covered, Mailing
<1>2. ASSUME NEW p \in Orders, NEW q \in Requests, Deliver(q, p) PROVE ExcusedOrder(o)'
  BY <1>0, <1>2, IdleType, OthersExcused DEF Deliver, tables
<1>3. ASSUME NEW q \in Requests, MarkPaid(q) PROVE ExcusedOrder(o)'
  <2> DEFINE r == [request[q] EXCEPT !.step = "read"]
  <2>1. request[q] \in [step : Steps, order : Orders] /\ request[q].step = "pay"
    BY <1>3, Busy, OrderType DEF MarkPaid
  <2>2. request' = [request EXCEPT ![q] = r] /\ r.step = "read"
    BY <1>3, <2>1 DEF MarkPaid, ShouldEmailTickets, Go, TypeOK
  <2> HIDE DEF r
  <2> QED
    BY <1>0, <1>3, <2>1, <2>2, OthersExcused DEF MarkPaid
<1>4. ASSUME NEW q \in Requests, RefusePaid(q) PROVE ExcusedOrder(o)'
  BY <1>0, <1>4, IdleType, OthersExcused DEF RefusePaid, ReportError, End, tables
<1>5. ASSUME NEW q \in Requests, NotifyUserByEmail(q) PROVE ExcusedOrder(o)'
  BY <1>0, <1>5, IdleType, OthersExcused DEF NotifyUserByEmail, Answer, End, tables
<1> QED
  BY <1>1, <1>2, <1>3, <1>4, <1>5, ReadExcused, SendExcused, MarkExcused, FailExcused
     DEF Next, HandleStripeWebhook

\* A second mail has its reason: of all the mails of an order, all but one are
\* accounted for by a failure or by a delivery that ran beside another.
THEOREM MailsExcused == Spec => []MailsHaveReasons
<1>1. Init => Excused
  <2> SUFFICES ASSUME Init, NEW o \in Orders PROVE ExcusedOrder(o)
    BY DEF Excused, ExcusedOrder
  <2>1. Sending(o) = {}
    BY IdleType DEF Init, Sending
  <2> QED
    BY <2>1, FS_EmptySet DEF Init, ExcusedOrder
<1>2. TypeOK /\ Excused /\ [Next]_vars => Excused'
  <2>1. TypeOK /\ Excused /\ UNCHANGED vars => Excused'
    BY DEF Excused, Sending, Covered, Mailing, vars, tables
  <2> QED
    BY <2>1, ExcusedStep
<1>3. TypeOK /\ Excused => MailsHaveReasons
  <2> SUFFICES ASSUME TypeOK, Excused, NEW o \in Orders PROVE sent[o] <= 1 + excuses[o]
    BY DEF MailsHaveReasons
  <2>1. Cardinality(Sending(o)) \in Nat /\ sent[o] \in Nat /\ excuses[o] \in Nat
    BY SendingCount DEF TypeOK
  <2> QED
    BY <2>1 DEF Excused
<1> QED
  BY <1>1, <1>2, <1>3, ColumnTypes, PTL DEF Spec
=============================================================================
