SPECIFICATION FairSpec
CONSTANTS
  JobCount = 2
  Workers = 2
  Wallets <- MCWallets
  Mandatory = {"native"}
  Others = {"d"}
  Discoverable = {1}
  PageLimit = 1
  MaxScans = 2
\* The last scan has ended.
CHECK_DEADLOCK FALSE
INVARIANTS
  SnapshotIsSaved
  BalanceIsOfThePass
PROPERTIES
  ScanEnds
