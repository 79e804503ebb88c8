SPECIFICATION FairSpec
CONSTANTS
  own = own
  argo = argo
  b1 = b1
  b2 = b2
  x = x
  None = None
  Empty = Empty
  Garbage = Garbage
  Bodies = {b1, b2}
  AnnKeys = {own, argo}
  AnnVals = {x}
  Wanted <- EmptyWanted
  ForeignKinds = {"status", "annotate", "edit", "delete", "create", "strip", "corrupt"}
  MaxForeign = 4
  MaxChanges = 1
  MaxFaults = 1
INVARIANTS TypeOK ConflictNeedsRaces RecordLanded
PROPERTIES WritesAreAtomic Settles
