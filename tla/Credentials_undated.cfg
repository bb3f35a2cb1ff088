SPECIFICATION Spec
CONSTANTS
  Tabs = {t1, t2}
  MaxEnrolments = 2
  MaxSessions = 2
  MaxInterventions = 4
SYMMETRY MCSymmetry
INVARIANTS
  EnabledConsented
CHECK_DEADLOCK FALSE
