CONSTANTS
  Server = {v1}
  Persona = {p1, p2}
  PlayerName = {n1}
  NameOf <- NameOfMC
  MaxScore = 1
  Delta <- DeltaMC
  Cutoff = 1
  MaxTime = 2
  Slots = 2
  MaxRequests = 3
SPECIFICATION Spec
INVARIANTS TimeAgrees NoStaleRead
PROPERTIES NoLostUpdate
CHECK_DEADLOCK FALSE
