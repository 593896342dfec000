SPECIFICATION FairSpec
CONSTANTS
  Entries <- MCEntries
  Routes = {1, 2}
  PlanRoute = 1
  NoRoute = 0
  MaxInterruptions = 2
INVARIANTS IntentMatchesPreparation
PROPERTIES PathPromise RouteEnds
CHECK_DEADLOCK FALSE
