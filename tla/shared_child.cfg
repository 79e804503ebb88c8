SPECIFICATION FairSpec
CONSTANTS
  a = a
  b = b
  c = c
  None = None
  CRs = {a, b, c}
  Prune = {a, b, c}
  Finalized = {b, c}
  SameSpace = {a, b}
  MaxEdits = 3
INVARIANTS TypeOK LabelledIsListed NoOrphan
PROPERTIES RowsSurvive NobodysChildGoes
CHECK_DEADLOCK FALSE
