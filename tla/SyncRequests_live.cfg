SPECIFICATION FairSpec
CONSTANTS
  a1 = a1
  r1 = r1
  r2 = r2
  r3 = r3
  w1 = w1
  w2 = w2
  c1 = c1
  NoRequest = NoRequest
  NoClaim = NoClaim
  Requests = {r2, r3}
  Accounts = {a1}
  AccountOf <- MCAccountOf
  Origin <- MCOrigin
  Torn = {w1, c1}
  Fenced = {}
  Workers = {w1}
  Commands = {c1}
  Suspendable = {a1}
  MaxAttempts = 2
  Backoff <- MCBackoff
  SucceededRetention = 1
  DeadRetention = 1
  MaxRows = 1
  LeaseTime = 1
  Cooldown = 1
INVARIANTS
  AppliedOnce
PROPERTIES
  EveryRequestEnds
CHECK_DEADLOCK FALSE
