SPECIFICATION FairSpec
CONSTANTS
  own = own
  argo = argo
  b1 = b1
  b2 = b2
  x = x
  None = None
  Empty = Empty
  Garbage = Garbage
  Bodies = {b1, b2}
  AnnKeys = {own, argo}
  AnnVals = {x}
  Wanted <- PlainWanted
  ForeignKinds = {"annotate"}
  MaxForeign = 1
  MaxChanges = 1
  MaxFaults = 0
PROPERTIES WritesOnlyDifferences
