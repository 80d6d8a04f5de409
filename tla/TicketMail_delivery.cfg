SPECIFICATION FairSpec
CONSTANTS
  Orders = {o1, o2}
  NoOrder = NoOrder
  Requests = {q1, q2}
  MaxFailures = 2
INVARIANTS TypeOK MailsHaveReasons ClaimsAreTrue
PROPERTIES PaidOrdersAreMailed
CHECK_DEADLOCK FALSE
