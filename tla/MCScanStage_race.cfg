SPECIFICATION Spec
CONSTANTS
  JobCount = 1
  Workers = 1
  Wallets <- MCWallets
  Mandatory = {"native"}
  Others = {"d"}
  Discoverable = {}
  PageLimit = 1
  MaxScans = 1
\* The last scan has ended.
CHECK_DEADLOCK FALSE
INVARIANTS
  UnfinishedIsDeferred
