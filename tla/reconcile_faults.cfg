SPECIFICATION Spec
CONSTANTS
  k1 = k1
  k2 = k2
  v1 = v1
  v2 = v2
  None = None
  Keys = {k1}
  Prune = TRUE
  ChangeDetection = FALSE
  StatusTemplate = TRUE
  Specs = {"ok"}
  Webhook = FALSE
  Unrenderable = {v2}
  Vals = {v1, v2}
  Watched = {}
  Lingering = {k1}
  Faults = {"queryFault", "applyFault", "deleteFault", "execFault", "statusLost", "staleStart", "crash"}
  MaxEdits = 1
  MaxGen = 2
  MaxTouches = 0
  MaxFaults = 1
INVARIANTS TypeOK SuccessMeansApplied VersionsReported VersionsManaged
PROPERTIES FinalizerComplete DroppedShows
CHECK_DEADLOCK FALSE
