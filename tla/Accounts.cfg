CONSTANTS
  Slots = 2
  MaxUsers = 2
  MaxMade = 3
  Key = {k1, k2}
  Word = {w1, w2}
  Email = {e1, e2}
  MaxPersonas = 1
  MaxRequests = 3
SPECIFICATION Spec
CHECK_DEADLOCK FALSE
INVARIANTS ClaimToldOwns CreatedHasStats LimitsOvershoot
PROPERTIES BanStands
