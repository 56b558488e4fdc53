SPECIFICATION Spec
CONSTANTS
  Packets = 2
  Replies = 1
  BodyUnits = 1
  MaxRecord = 2
  WholeHello = TRUE
INVARIANT MacsVerify
PROPERTIES LinkSpec HandshakeEnds AskedIsHandled
CHECK_DEADLOCK FALSE
