SPECIFICATION FairSpec
CONSTANTS
  t1 = t1  e1 = e1  e2 = e2  o1 = o1  o2 = o2  u1 = u1  u2 = u2
  Tickets = {t1}
  Events = {e1, e2}
  EventOf <- InFirst
  Organizers = {o1, o2}
  Owner <- OneEventEach
  Users = {u1, u2}
  Role <- Admins
  Organizer <- OneAdminEach
  Requests = {q1, q2}
  NoUser = NoUser
  NoTicket = NoTicket
  AnyEvent = AnyEvent
INVARIANTS TypeOK AdmittedOnce TurnedAwayWereLetIn
PROPERTIES RemovedStaffStop
CHECK_DEADLOCK FALSE
