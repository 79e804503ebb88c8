SPECIFICATION FairSpec
CONSTANTS
  k1 = k1
  k2 = k2
  v1 = v1
  v2 = v2
  None = None
  Keys = {k1}
  Prune = TRUE
  ChangeDetection = TRUE
  StatusTemplate = TRUE
  Specs = {"ok", "badInterval"}
  Webhook = FALSE
  Unrenderable = {}
  Vals = {v1}
  Watched = {}
  Lingering = {k1}
  Faults = {"queryFault", "execFault", "getFault", "crash"}
  MaxEdits = 1
  MaxGen = 2
  MaxTouches = 1
  MaxFaults = 1
INVARIANTS NeverParked
PROPERTIES RowsApplied DeletionCompletes StatusReported
CHECK_DEADLOCK FALSE
