SPECIFICATION FairSpec
CONSTANTS
  Sessions = {s1, s2}
  Types = {x1, x2}
  NoSession = NoSession
  Plans <- MCPlans
  NoEnd = 9
  MaxTime = 2
INVARIANTS TypeOK PagesShowWhatIsOnSale
PROPERTIES PastSessionsStopSelling
CHECK_DEADLOCK FALSE
