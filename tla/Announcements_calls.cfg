CONSTANTS
  Sessions = {s1, s2}
  Types = {t1, t2}
  Requests = {q1, q2}
  NoSession = NoSession
  NoType = NoType
SPECIFICATION Spec
SYMMETRY Symmetry
CHECK_DEADLOCK FALSE
INVARIANTS TypeOK BookableIsAnnounced CancellationWarns
PROPERTIES OnlyNewsIsAnnounced
