---------------------------- MODULE MCTicketSales ----------------------------
(* Small instances of TicketSales for TLC. *)
EXTENDS TicketSales, TLC

CONSTANTS t1, t2, r1, r2, r3, s1, s2

\* One type: a single seat or two of them, with or without a limit of one.
OneType    == {t1}
OneListing == {<<1, 1>>, <<2, 2>>}
OneSeat    == {<<1, 1>>}
OneRequest == {[t \in {t1} |-> n] : n \in 1..2}

\* Two types: an order of both can be short of the one that others want too.
TwoTypes    == {t1, t2}
TwoRequests == {[t \in TwoTypes |-> 1], [t \in TwoTypes |-> IF t = t1 THEN 1 ELSE 0]}

TwoReservations   == {r1, r2}
ThreeReservations == {r1, r2, r3}
TwoSessions       == {s1, s2}

Symmetry == Permutations(ThreeReservations) \cup Permutations(TwoSessions)
=============================================================================
