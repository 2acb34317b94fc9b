SPECIFICATION Spec
CONSTANTS
  Keys <- MCKeys
  Vals = {a}
  Hash <- MCHash
  InitialSize = 1
  EmptyVisits = 2
  ForceRatio = 1
  Iters = {i1, i2}
  None = None
  W = 4
  MaxSize = 8
INVARIANTS
  EachOnce
  Counted
  ScanComplete
PROPERTIES
  CursorAdvances
SYMMETRY MCSymmetry
