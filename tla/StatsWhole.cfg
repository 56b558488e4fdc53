SPECIFICATION FairSpec
CONSTANTS
  m1 = m1
  m2 = m2
  a = a
  b = b
  u = u
  Match <- MCMatch
  Name <- MCName
  Soldier <- MCSoldier
  Account = {}
  Kills = {1, 2}
  Snapshot <- Whole
  MaxPlayers = 3
  MaxReport = 2
  MaxFinal = 1
  Split = FALSE
  LookupFails = FALSE
  Faults = FALSE
CHECK_DEADLOCK FALSE
INVARIANTS FinalSnapshotCounts CreditedExactly CareerIsSum
PROPERTY FinalSettled
