SPECIFICATION FairSpec
CONSTANTS
  Kinds <- NonGasKinds
  MaxQuotes = 2
  MaxNonce = 1
  MaxCrashes = 1
  MaxReorgs = 0
  CrashPoints <- BeforeOutcome
\* A closed group is never executed again.
CHECK_DEADLOCK FALSE
PROPERTIES
  CreditedCompletes
