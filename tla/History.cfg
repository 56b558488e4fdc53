SPECIFICATION HistorySpec
CONSTANTS
  w1 = w1 w2 = w2
  Writer = {w1, w2}
  MaxPlayers = 1
  Bucket = 2
  Buckets = 3
  Gap = 3
  Lead = 1
  Throttle = 2
  MaxTime = 7
  MaxSnaps = 3
INVARIANTS PeaksKept PlayersHonest
CHECK_DEADLOCK FALSE
