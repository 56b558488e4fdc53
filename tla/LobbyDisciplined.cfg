SPECIFICATION ActSpec
CONSTANTS
  c1 = c1  c2 = c2  p1 = p1  p2 = p2
  Conn = {c1, c2}
  Pid = {p1, p2}
  Lid = {1}
  Capacity = {2}
  Score = {0}
  MaxGid = 2
  Hosts = {c1, c2}
  Enters <- OneEach
  MultiHost = FALSE
  LateData = FALSE
INVARIANTS ConnIndexExact NoGhosts
PROPERTIES DropExact EntrySparesOthers HungPlayerLeaves
CHECK_DEADLOCK FALSE
