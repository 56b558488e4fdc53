SPECIFICATION Spec
CONSTANTS
  Packets = 1
  Replies = 1
  BodyUnits = 1
  MaxRecord = 2
  WholeHello = TRUE

PROPERTY CloseEnds
CHECK_DEADLOCK FALSE
