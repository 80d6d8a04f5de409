SPECIFICATION DevicesSpec
CONSTANTS
  Users = {u1, u2}
  Tokens = {t1, t2}
  ApnsTokens = {t2}
  Pushes = {p1, p2}
  NoUser = NoUser
  MaxCalls = 2
SYMMETRY Symmetry
INVARIANTS DevicesTypeOK SignedInGetTheirPushes
PROPERTIES PushesTakeUpWhoIsSignedIn
CHECK_DEADLOCK FALSE
