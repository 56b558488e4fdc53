SPECIFICATION Spec
CONSTANTS
  a1 = a1 r1 = r1 q1 = q1
  Addr = {a1}
  Req = {r1}
  Pass = {q1}
  StaleAfter = 1
  PollLimit = 2
  MaxRegs = 2
  AdminKeys = TRUE
  Probes = TRUE
INVARIANT KeysAuthenticate
PROPERTIES DeadGoesOffline AnsweringGoesOnline
CHECK_DEADLOCK FALSE
