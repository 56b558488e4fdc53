CONSTANTS
  GameServer = {v1}
  ListKey = {k1}
  KeyOf <- KeyOfMC
  Dedicated = v1
  Stale = 1
  MaxFrames <- MaxFramesMC
SPECIFICATION ListsSpec
INVARIANT AnswersAsked
PROPERTIES AliveIsListed DeadIsDropped
CHECK_DEADLOCK FALSE
