SPECIFICATION Spec
CONSTANTS
  c1 = c1
  c2 = c2
  t1 = t1
  t2 = t2
  o1 = o1
  o2 = o2
  o3 = o3
  NoOp = NoOp
  Callers = {c1, c2}
  Targets = {t1, t2}
  Ops = {o1, o2, o3}
  Kinds = {"sync", "forced"}
  OpLease = 2
  QuietPeriod = 1
  HourWindow = 2
  HourQuota = 1
  DayWindow = 3
  DayQuota = 2
  RetryAfters = {4}
  ForbiddenWindow = 1
  ForbiddenTargets = 2
  ForbiddenPause = 1
  FailureWindow = 1
  FailureLimit = 2
  InstabilityPause <- MCInstabilityPause
  ProbePause = 1
PROPERTIES
  PauseNeverShortened
CHECK_DEADLOCK FALSE
