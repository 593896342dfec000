SPECIFICATION FairSpec
CONSTANTS
  a1 = a1
  a2 = a2
  Actions = {a1, a2}
  WalletCount = 2
  Owner <- MCOwner
  Attempts = 2
  Tries = 1
  MaxCrashes = 1
  Commanded = {a1}
  MaxCommands = 1
INVARIANTS SignedOnce QueueAgrees
PROPERTIES NoExitBehindUnresolved BatchCompletes 
CHECK_DEADLOCK FALSE
