SPECIFICATION Spec
CONSTANTS
  e1 = e1
  e2 = e2
  x1 = x1
  NIL = NIL
  Tasks = {1, 2}
  Signals = {1, 2}
  Entries = {e1, e2}
  Timers = {x1}
  SIGALRM = 1
  TimerSignal = 2
  Actions <- MCActions
  Free0 <- MCFree
  Masks = {{}, {1, 2}}
  WaitSets = {{1}, {2}}
  MaxSends = 2
  MaxCalls = 3
  Callers = {1}
  Careless = {}
INVARIANTS PoolExact QueueOrder  WaitersExact
CHECK_DEADLOCK FALSE
