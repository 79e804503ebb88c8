SPECIFICATION Spec
CONSTANTS
  k1 = k1
  k2 = k2
  v1 = v1
  v2 = v2
  None = None
  Keys = {k1, k2}
  Prune = TRUE
  ChangeDetection = FALSE
  StatusTemplate = FALSE
  Specs = {"ok", "badTemplate"}
  Webhook = FALSE
  Unrenderable = {}
  Vals = {v1}
  Watched = {k1, k2}
  Lingering = {k1}
  Faults = {"queryFault"}
  MaxEdits = 2
  MaxGen = 2
  MaxTouches = 1
  MaxFaults = 1
INVARIANTS StaleDeleted ChildrenTracked
PROPERTIES PruneOnlyStale NothingLeftBehind
CHECK_DEADLOCK FALSE
