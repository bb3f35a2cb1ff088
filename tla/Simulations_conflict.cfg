SPECIFICATION SimulationSpec
CONSTANTS
  x1 = x1
  u = u
  n = n
  e = e
  t1 = t1
  A = A
  B = B
  C = C
  Unset = Unset
  Scenarios = {x1}
  Keys = {u, n}
  Extras = {e}
  Owner <- MCOwner
  Values = {A, B, C}
  Tabs = {t1}
  Kind = "notes"
  ScenarioCap = 2
  RowCap = 2
  MaxWrites = 4
  MaxPublications = 2
PROPERTIES
  ConflictKept
CHECK_DEADLOCK FALSE
