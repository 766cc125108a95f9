SPECIFICATION Spec
CONSTANTS
  hard = hard
  soft = soft
  aper = aper
  main = main
  dummy = dummy
  NIL = NIL
  Periodic = {hard}
  Sporadic = {}
  Soft = {soft, aper}
  RrTasks = {main}
  Main = main
  Dummy = dummy
  WcetCheck = TRUE
  SoftPeriodic = {soft}
  SaveArrivals = {soft}
  period <- MCPeriod
  rdeadline <- MCDeadline
  offset <- MCOffset
  cost <- MCCost
  slice <- MCSlice
  MAX_BANDWIDTH = 100
  Horizon = 5
  MaxCalls = 2
  Activators = {main}
  Delays = {1}
  DisableAnyJob = FALSE
  Timely = {hard}
  Preemptible = {hard, soft, aper, main}
  Freezable = {soft}
  EndsExhausted = FALSE
INVARIANTS  HardIsolation NoArrivalLost
CHECK_DEADLOCK FALSE
