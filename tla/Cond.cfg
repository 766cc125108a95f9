SPECIFICATION Spec
CONSTANTS
  t1 = t1
  t2 = t2
  t3 = t3
  c1 = c1
  NIL = NIL
  Tasks = {t1, t2, t3}
  Mutexes = {1, 2}
  Conds = {c1}
  ClassChoices <- Pairs
  ceiling <- MCCeiling
  priority <- MCPriority
  Nestable <- NoNesting
  MaxDepth = 1
  MaxKills = 1
  LateTimers = FALSE
  EntryResets = FALSE
SYMMETRY Symmetric
INVARIANTS  NoLostSignal MutexOutlivesWait
PROPERTIES  KilledOwnsMutex
CHECK_DEADLOCK FALSE
