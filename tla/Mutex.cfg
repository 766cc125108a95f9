SPECIFICATION MutexSpec
CONSTANTS
  t1 = t1
  t2 = t2
  t3 = t3
  NIL = NIL
  Tasks = {t1, t2, t3}
  Mutexes = {1, 2, 3}
  ClassChoices <- AllClasses
  ceiling <- MCCeiling
  priority <- MCPriority
  Nestable <- SoundNesting
  MaxDepth = 2
INVARIANTS  WaitersLinked NoWaitCycle ExecIsReady NeverRaised
CHECK_DEADLOCK FALSE
