SPECIFICATION RequestFairSpec
CONSTANTS
  Visits = 2
  Troubles = 1
INVARIANT
  HelperIsRepeatable
CHECK_DEADLOCK FALSE
