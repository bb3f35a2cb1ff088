SPECIFICATION Spec
CONSTANTS
  a1 = a1
  r1 = r1
  r2 = r2
  r3 = r3
  w1 = w1
  w2 = w2
  c1 = c1
  NoRequest = NoRequest
  NoClaim = NoClaim
  Requests = {r1, r2, r3}
  Accounts = {a1}
  AccountOf <- MCAccountOf
  Origin <- MCOwnerOnly
  Torn = {}
  Fenced = {}
  Workers = {w1}
  Commands = {}
  Suspendable = {}
  MaxAttempts = 2
  Backoff <- MCBackoff
  SucceededRetention = 1
  DeadRetention = 1
  MaxRows = 1
  LeaseTime = 1
  Cooldown = 0
INVARIANTS
  OneLeasePerAccount
CHECK_DEADLOCK FALSE
