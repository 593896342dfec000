SPECIFICATION Spec
CONSTANTS
  N = 3
  KindOf <- BridgeDirectBridge
  Planned <- OneEach
  Losses = {1, 3}
  Budget = 5
  MaxCrashes = 2
\* A closed group is never executed again.
CHECK_DEADLOCK FALSE
INVARIANTS
  CompletedLossCounted
  ClosedGroupAgrees
PROPERTIES
  KeepsBudget
