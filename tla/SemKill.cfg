SPECIFICATION Spec
CONSTANTS
  t1 = t1
  t2 = t2
  t3 = t3
  s1 = s1
  s2 = s2
  Tasks = {t1, t2, t3}
  Sems = {s1, s2}
  Units = {1, 2}
  Total = 2
  Killable = {t1, t2, t3}
  CancelStates = {TRUE}
SYMMETRY Symmetric
INVARIANTS QueueConsistent
PROPERTIES SuccessMeansGranted NoOvertaking ImplementsPool
CHECK_DEADLOCK FALSE
