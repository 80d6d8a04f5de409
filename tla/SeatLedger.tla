------------------------------ MODULE SeatLedger ------------------------------
(***************************************************************************)
(* What selling promises, without how: an order is placed for ticket types *)
(* that are listed, and ends once: it is paid, and in that instant all its *)
(* tickets leave the stock and are issued, or it expires and has none.     *)
(* Organizers list, restock and withdraw types; a type that was ordered    *)
(* stays.  Holds, the cleanup, Stripe and its webhooks do not appear:      *)
(* TicketSales, which has them, is shown to implement this.                *)
(***************************************************************************)
EXTENDS Naturals

CONSTANTS
  Types,     \* ticket types
  Orders     \* orders

VARIABLES
  listed,    \* the ticket types there are
  stock,     \* what is left to sell of each
  items,     \* what each order is for
  outcome,   \* how far each order is
  tickets    \* what each order was given

vars == <<listed, stock, items, outcome, tickets>>

NoItems == [t \in Types |-> 0]

Init ==
  /\ listed = {}
  /\ stock = NoItems
  /\ items = [o \in Orders |-> NoItems]
  /\ outcome = [o \in Orders |-> "none"]
  /\ tickets = [o \in Orders |-> NoItems]

\* The organizer lists a type, or sets the stock of one.
Restock(t) ==
  /\ listed' = listed \cup {t}
  /\ stock'[t] \in Nat
  /\ stock' = [stock EXCEPT ![t] = stock'[t]]
  /\ UNCHANGED <<items, outcome, tickets>>

Withdraw(t) ==
  /\ \A o \in Orders : items[o][t] = 0
  /\ listed' = listed \ {t}
  /\ stock' = [stock EXCEPT ![t] = 0]
  /\ UNCHANGED <<items, outcome, tickets>>

Place(o) ==
  /\ outcome[o] = "none"
  /\ outcome' = [outcome EXCEPT ![o] = "pending_payment"]
  /\ items'[o] \in [Types -> Nat] \ {NoItems}
  /\ \A t \in Types \ listed : items'[o][t] = 0
  /\ items' = [items EXCEPT ![o] = items'[o]]
  /\ UNCHANGED <<listed, stock, tickets>>

\* All of it, or nothing.
Issue(o) ==
  /\ outcome[o] = "pending_payment"
  /\ \A t \in Types : items[o][t] <= stock[t]
  /\ outcome' = [outcome EXCEPT ![o] = "paid"]
  /\ stock' = [t \in Types |-> stock[t] - items[o][t]]
  /\ tickets' = [tickets EXCEPT ![o] = items[o]]
  /\ UNCHANGED <<listed, items>>

Expire(o) ==
  /\ outcome[o] = "pending_payment"
  /\ outcome' = [outcome EXCEPT ![o] = "expired"]
  /\ UNCHANGED <<listed, stock, items, tickets>>

Next ==
  \/ \E t \in Types : Restock(t) \/ Withdraw(t)
  \/ \E o \in Orders : Place(o) \/ Issue(o) \/ Expire(o)

Spec == Init /\ [][Next]_vars
=============================================================================
