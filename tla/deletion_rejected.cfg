SPECIFICATION FairSpec
CONSTANTS
  k1 = k1
  k2 = k2
  v1 = v1
  v2 = v2
  None = None
  Keys = {k1}
  Prune = TRUE
  ChangeDetection = TRUE
  StatusTemplate = TRUE
  Specs = {"ok", "badTemplate"}
  Webhook = TRUE
  Unrenderable = {}
  Vals = {v1}
  Watched = {}
  Lingering = {}
  Faults = {}
  MaxEdits = 0
  MaxGen = 1
  MaxTouches = 0
  MaxFaults = 0
PROPERTIES DeletionCompletes
CHECK_DEADLOCK FALSE
