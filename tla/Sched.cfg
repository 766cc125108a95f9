SPECIFICATION Spec
CONSTANTS
  per = per
  spo = spo
  main = main
  rr2 = rr2
  dummy = dummy
  NIL = NIL
  Periodic = {per}
  Sporadic = {spo}
  Soft = {}
  RrTasks = {main, rr2}
  Main = main
  Dummy = dummy
  WcetCheck = TRUE
  SoftPeriodic = {}
  SaveArrivals = {}
  period <- MCPeriod
  rdeadline <- MCDeadline
  offset <- MCOffset
  cost <- MCCost
  slice <- MCSlice
  MAX_BANDWIDTH = 13
  Horizon = 5
  MaxCalls = 2
  Activators = {main}
  Delays = {1}
  Timely = {}
  Preemptible = {main, spo}
  Freezable = {spo}
  EndsExhausted = FALSE
  DisableAnyJob = FALSE
INVARIANTS QueuesExact RunsTheRightTask 
    RrShare BandwidthExact
PROPERTY EventLoopSafe
CHECK_DEADLOCK FALSE
