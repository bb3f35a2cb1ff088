SPECIFICATION FairSpec
CONSTANTS
  j1 = j1
  j2 = j2
  w1 = w1
  w2 = w2
  NoClaim = NoClaim
  Jobs = {j1, j2}
  Workers = {w1, w2}
  Priority <- MCPriority
  MaxAttempts = 3
  LeaseTime = 2
  Backoff <- MCBackoff
  SucceededRetention = 1
  DeadRetention = 2
  MaxRows = 2
INVARIANTS
  
  ClaimsFenced
  AttemptsBudget
PROPERTIES
  LeaseRespected
  ImplementsLifecycle
  EveryJobEnds
CHECK_DEADLOCK FALSE
