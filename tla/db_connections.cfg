SPECIFICATION FairSpec
CONSTANTS
  N = 3
  Failing = {1}
  Limit = 3
  Replica = TRUE
  ChangeDetection = TRUE
  MaxTouches = 1
  MaxSecrets = 1
  MaxFaults = 2
INVARIANTS TypeOK NothingHeldAtRest SelectSeesSetup
PROPERTIES LedgerKept EventuallyReported
