SPECIFICATION Spec
CONSTANTS
  Kinds <- AllKinds
  MaxQuotes = 3
  MaxNonce = 1
  MaxCrashes = 2
  MaxReorgs = 1
  CrashPoints <- Anywhere
\* A closed group is never executed again.
CHECK_DEADLOCK FALSE
INVARIANTS
  TypeOK
  AtMostOneDepositMined
  SentIsJournaled
  CompletedMeansCredited
  ClosedGroupAgrees
PROPERTIES
  NoUnsafeResign
