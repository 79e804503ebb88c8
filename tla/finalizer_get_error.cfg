SPECIFICATION Spec
CONSTANTS
  k1 = k1
  k2 = k2
  v1 = v1
  v2 = v2
  None = None
  Keys = {k1, k2}
  Prune = TRUE
  ChangeDetection = FALSE
  StatusTemplate = FALSE
  Specs = {"ok"}
  Webhook = FALSE
  Unrenderable = {}
  Vals = {v1}
  Watched = {}
  Lingering = {k1, k2}
  Faults = {"getFault"}
  MaxEdits = 0
  MaxGen = 1
  MaxTouches = 0
  MaxFaults = 1
PROPERTIES FinalizerWaits
CHECK_DEADLOCK FALSE
