SPECIFICATION Spec
CONSTANTS
  s1 = s1
  s2 = s2
  r1 = r1
  r2 = r2
  q0 = q0
  n1 = n1
  Tasks = {s1, s2, r1}
  Mqs = {q0}
  Mq0 = q0
  Names = {n1}
  Senders = {s1, s2}
  Receivers = {r1}
  Prios = {1, 2}
  priority <- MCPriority
  MaxMsg = 2
  MaxSends = 3
  Killable = {}
  Signallers = {}
  CloseBusy = FALSE
INVARIANT NoSleepingReceiver
CHECK_DEADLOCK FALSE
