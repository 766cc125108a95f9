SPECIFICATION FairSpec
CONSTANTS
  t1 = t1
  t2 = t2
  t3 = t3
  s1 = s1
  Tasks = {t1, t2, t3}
  Sems = {s1}
  Units = {1, 2}
  Total = 2
  Killable = {}
  CancelStates = {TRUE, FALSE}
INVARIANTS UnitsConserved NoSatisfiableHead
PROPERTIES WaitServed
CHECK_DEADLOCK FALSE
