SPECIFICATION Spec
CONSTANTS
  p1 = p1
  p2 = p2
  p3 = p3
  Participants = {p1, p2, p3}
  Position <- MCPosition
  Values = {1, 2}
  Unset = Unset
  HardStale = 5
  Grace = 1
  Cooldown = 2
  MaxNow = 4
PROPERTIES
  RankEarned
