SPECIFICATION Spec
CONSTANTS
  f1 = f1
  f2 = f2
  w1 = w1
  w2 = w2
  s1 = s1
  d1 = d1
  d2 = d2
  d3 = d3
  NoSub = NoSub
  NoContent = NoContent
  Feeds = {f1, f2}
  Dues = {d1, d2, d3}
  Workers = {w1, w2}
  Sessions = {s1}
  MaxPublications = 1
INVARIANTS
  DueNotSpent
CHECK_DEADLOCK FALSE
