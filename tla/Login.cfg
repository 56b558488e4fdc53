CONSTANTS
  User = {u1}
  Persona = {p1, p2}
  Owner <- OwnerMC
  Fesl = {f1}
  Theater = {t1}
  Slots = 2
  MaxSessions = 3
  MaxRequests = 3
SPECIFICATION Spec
INVARIANTS IssuedResolves NullMeansGone ResolvesToPersona
CHECK_DEADLOCK FALSE
