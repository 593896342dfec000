SPECIFICATION JobSpec
CONSTANTS
  a = a
  b = b
  Owners = {a, b}
  Lease = 2
  Ttl = 1
  Wait = 1
  MaxClock = 4
  MaxAttempts = 3
\* The clock and the claims are bounded.
CHECK_DEADLOCK FALSE
INVARIANTS
  LeaseHonoured
  AnswerOfLastClaim
PROPERTIES
  OneFailurePerRun
