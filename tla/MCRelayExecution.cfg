SPECIFICATION FairSpec
CONSTANTS
  Recipients = {"planned", "other"}
  Trusted = "planned"
  MaxQuotes = 2
  MaxNonce = 1
  MaxCrashes = 2
  MaxReorgs = 1
\* A closed position is never executed again.
CHECK_DEADLOCK FALSE
INVARIANTS
  SentIsJournaled
  CheckpointIsSigned
  CompletedMeansCredited
PROPERTIES
  SingleTransfer
  DeliveredCompletes
