SPECIFICATION FairSpec
CONSTANTS
  Assets = {"token1", "native1", "native2"}
  Natives = {"native1", "native2"}
  ChainOf <- MCChain
  EnabledTargets = {2}
  Offers <- MCOffers
  Digests = {1, 2}
  MaxRuns = 2
  MaxQuotes = 2
  MaxInterruptions = 1
INVARIANTS InFlightIsResumable GasIsKept
PROPERTIES KnownRoutesKeepGas CollectionSettles
CHECK_DEADLOCK FALSE
