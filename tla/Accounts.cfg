SPECIFICATION AccountsSpec
CONSTANTS
  a1 = a1
  a2 = a2
  Accounts = {a1, a2}
  Nobody = Nobody
  Unset = Unset
  Rank <- MCRank
  Day = 4
  Open = 1
  Close = 3
  Week = 2
  Workdays = 1
  Intervals <- MCIntervals
  RetryAfter = 1
  PulseCooldown = 2
  Jitters = {0, 1}
  MaxClock = 3
  MaxEvents = 1
  Tabs = {t1}
  MaxEnrolments = 2
  MaxSessions = 3
  MaxInterventions = 2
  Requests = {l1, l2}
  Challenges = {h1}
  MaxObjects = 4
  MaxMoves = 2
  AccountCap = 2
  ShareCap = 1
  OwnerCap = 1
  ActiveCap = 1
  RetainedCap = 1
  Logins = {l1, l2}
  Clients = {c1, c2}
  Targets = {u1}
  MaxTime = 3
  MaxAttempts = 3
  TargetDelays <- MCDelays
  ClientDelays <- MCDelays
  Window = 1
  AttemptLimit = 1
  Decay = 1
  Quiet = 2
  Retention = 3
  MaxTargetStates = 1
  MaxClientStates = 1
  StormTotal = 2
  StormTargets = 1
  StormClients = 2
  StormPause = 2
  MaxSteps = 2
  MaxRedirects = 1
  MaxRequests = 13
  Stored = {s1, s2}
  OldStored = {s1}
  Reusers = {r1, r2}
  MaxSnapshots = 2
  Writers = {w1, w2}
  Operators = {o1, o2}
  MaxValue = 3
  Hands = {k1, k2}
  MaxGenerations = 3
  Courses = {g1, g2}
  Scores = {999, 1000}
  Coefficients = {1000, 2000}
  Credits = {1, 3}
  Official = {"C"}
  MaxNotes = 2
  MaxPublications = 4
  p1 = p1
  p2 = p2
  p3 = p3
  Participants = {p1, p2, p3}
  Position <- MCPosition
  Values = {1, 2}
  HardStale = 3
  Grace = 2
  Cooldown = 1
  MaxHour = 4
SYMMETRY MCSymmetry
INVARIANTS
  TypesOK
  SpentOnce
  AttemptsBounded
  TurnsFair
  ConversationSound
  SessionsSound
  KeysetSafe
  ResultsSound
PROPERTIES
  CredentialsFenced
  LateLoginDead
  BlocksRunOut
  
  SequenceSound
CHECK_DEADLOCK FALSE
