SPECIFICATION Spec
CONSTANTS
  Users = {u1, u2, u3}
  Uids = {f1, f2}
  Emails = {e1, e2}
  Requests = {q1, q2}
  NoUser = NoUser
  NoUid = NoUid
  NoEmail = NoEmail
SYMMETRY Symmetry
INVARIANTS TypeOK AccountsBehindRows EveryoneLogsIn
CHECK_DEADLOCK FALSE
