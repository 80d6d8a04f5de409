------------------------------ MODULE MCCheckIn ------------------------------
(* A small instance of CheckIn for TLC. *)
EXTENDS CheckIn

CONSTANTS t1, e1, e2, o1, o2, u1, u2

\* A ticket of one of two events, its organizer's admin, and the other's.
InFirst == [t \in {t1} |-> e1]
OneEventEach == [e \in {e1, e2} |-> IF e = e1 THEN o1 ELSE o2]
Admins == [u \in {u1, u2} |-> "organizer_admin"]
OneAdminEach == [u \in {u1, u2} |-> IF u = u1 THEN o1 ELSE o2]
=============================================================================
