SPECIFICATION Spec
CONSTANTS
  k1 = k1
  k2 = k2
  v1 = v1
  v2 = v2
  None = None
  Keys = {k1, k2}
  Prune = TRUE
  ChangeDetection = FALSE
  StatusTemplate = FALSE
  Specs = {"ok"}
  Webhook = FALSE
  Unrenderable = {v2}
  Vals = {v1, v2}
  Watched = {}
  Lingering = {}
  Faults = {}
  MaxEdits = 1
  MaxGen = 1
  MaxTouches = 0
  MaxFaults = 0
PROPERTIES PruneOnlyStale
CHECK_DEADLOCK FALSE
