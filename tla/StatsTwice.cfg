SPECIFICATION Spec
CONSTANTS
  m1 = m1
  m2 = m2
  a = a
  b = b
  u = u
  Match <- MCMatch1
  Name <- MCName
  Soldier <- MCSoldier
  Account = {u}
  Kills = {1, 2}
  Snapshot <- Versions
  MaxPlayers = 2
  MaxReport = 2
  MaxFinal = 2
  Split = TRUE
  LookupFails = TRUE
  Faults = TRUE
CHECK_DEADLOCK FALSE
INVARIANTS TypeOK ClaimsExclusive AnswerHonest
PROPERTY ImplementsLedger
