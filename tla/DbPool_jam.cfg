SPECIFICATION FairPoolSpec
CONSTANTS
  Requests = {q1, q2, q3}
  MaxOpenConns = 2
  MaxQueries = 2
INVARIANT PoolTypeOK
PROPERTY EveryoneIsServed
CHECK_DEADLOCK FALSE
