SPECIFICATION Spec
CONSTANTS
  c1 = c1  c2 = c2  p1 = p1  p2 = p2
  Conn = {c1, c2}
  Pid = {p1, p2}
  Lid = {2}
  Capacity = {1, 2}
  Score = {0}
  MaxGid = 2
  Hosts = {c1, c2}
  Enters <- AnyEnters
  MultiHost = TRUE
  LateData = TRUE
INVARIANTS TypeOK IndexesExact SlotsSound HostRosterExact
PROPERTIES ImplementsRoster
SYMMETRY Symmetric
CHECK_DEADLOCK FALSE
