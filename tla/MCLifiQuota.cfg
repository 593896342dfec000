SPECIFICATION Spec
CONSTANTS
  p = p
  e = e
  Callers = {p, e}
  Planners = {p}
  Limit = 2
  Window = 3
  Reserve = 1
  Retry = 1
  Counts = {1, 2}
  Ahead = 2
  MaxTime = 4
  MaxRequests = 3
\* The clock and the reservations are bounded.
CHECK_DEADLOCK FALSE
INVARIANTS
  TypeOK
  WindowKept
  ReserveKept
  ProviderCountKept
  CooldownHonoured
