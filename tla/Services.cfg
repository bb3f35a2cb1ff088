SPECIFICATION ServicesSpec
CONSTANTS
  x1 = x1
  x2 = x2
  y1 = y1
  y2 = y2
  d1 = d1
  d2 = d2
  u = u
  n = n
  e = e
  k3 = k3
  Absent = Absent
  Nobody = Nobody
  Unset = Unset
  NoClaim = NoClaim
  NoSub = NoSub
  NoContent = NoContent
  Ue <- MCUe
  Owner <- MCOwner
  Order <- MCOrder
  Backoff <- MCBackoff
  Feeds = {f1}
  Dues = {d1, d2, d3}
  Workers = {x1, x2}
  Requests = {x1, x2}
  Messages = {y1, y2}
  GradeKeys = {y1, y2, k3}
  Scores = {x1, x2}
  Scenarios = {x1, x2}
  Keys = {u, n}
  Extras = {e}
  Values = {z1, z2}
  Tabs = {y1, y2}
  Kind = "notes"
  Bases = {z1, z2}
  Courses = {y1, y2}
  Hints = {z1, z2}
  Grants = {d1, d2}
  Accounts = {d1, d2}
  Plain = {x1, x2}
  Sealed = {x1, x2}
  Sessions = {s1}
  MaxPublications = 1
  Window = 3
  MinDelay = 1
  Limit = 2
  Retention = 4
  MaxTime = 9
  MaxTries = 5
  MaxAttempts = 2
  LeaseTime = 2
  SucceededRetention = 1
  DeadRetention = 2
  MaxRows = 1
  UeCap = 2
  ArchiveCap = 1
  MaxExports = 2
  MaxImports = 3
  ScenarioCap = 2
  RowCap = 2
  MaxWrites = 4
  MaxGenerations = 1
  MaxRequests = 2
  MaxKeyGenerations = 3
  AttemptCap = 1
  ProgressCap = 1
  HintCap = 1
  MaxRecorded = 2
  MaxClock = 1
  Batches = {1, 2}
  Limits = {1, 99}
  MaxKeys = 2
  MaxGifts = 3
SYMMETRY MCSymmetry
INVARIANTS
  TypesOK
  
  
  BaselineOfficial
  WithdrawnUnlisted
  LimitsKept
  SecretsOpen
PROPERTIES
  StaysErased
  ImportHonest
  NoUnseenOverwrite
CHECK_DEADLOCK FALSE
