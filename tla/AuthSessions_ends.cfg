CONSTANTS
  Users = {u1, u2}
  Sessions = {s1, s2, s3}
  Tokens = {k1, k2, k3, k4, k5}
  Requests = {q1, q2}
  NoUser = NoUser
  NoSession = NoSession
  NoToken = NoToken
SPECIFICATION Spec
SYMMETRY Symmetry
CHECK_DEADLOCK FALSE
INVARIANTS TypeOK SessionsHaveAccounts
PROPERTIES EndedSessionsStayEnded
