SPECIFICATION Spec
CONSTANTS
  p1 = p1
  p2 = p2
  p3 = p3
  NIL = NIL
  Pids = {p1, p2, p3}
  JoinableHandlers = FALSE
  SingleJoiner = TRUE
  CancelStates = {TRUE}
SYMMETRY Symmetric
INVARIANTS FreeQueueExact  NoShadowCycle
PROPERTIES  JoinSeesEnd
CHECK_DEADLOCK FALSE
