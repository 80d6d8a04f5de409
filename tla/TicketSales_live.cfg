SPECIFICATION FairSpec
CONSTANTS
  t1 = t1  t2 = t2  r1 = r1  r2 = r2  r3 = r3  s1 = s1  s2 = s2
  NoSession = NoSession
  NoBuyer = NoBuyer
  Types <- TwoTypes
  Reservations <- TwoReservations
  Sessions <- TwoSessions
  Listings <- OneSeat
  Requests <- TwoRequests
INVARIANTS
  PaidOrdersHaveTheirTickets
PROPERTIES
  ChargedOrdersAreSettled
  AbandonedOrdersExpire
