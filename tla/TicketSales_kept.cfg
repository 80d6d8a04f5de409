SPECIFICATION Spec
CONSTANTS
  t1 = t1  t2 = t2  r1 = r1  r2 = r2  r3 = r3  s1 = s1  s2 = s2
  NoSession = NoSession
  NoBuyer = NoBuyer
  Types <- OneType
  Reservations <- TwoReservations
  Sessions <- TwoSessions
  Listings <- OneListing
  Requests <- OneRequest
INVARIANTS
  PaidReservationsHoldNothing
