\* Four workers, so that a shrink with one busy worker happens.
CONSTANTS
  NULL = NULL
  INDET = INDET
  NoTid = NoTid
  Min = 1
  Max = 4
  ExpandMax = 2
  Tids = {w1, w2, w3, w4}
  Adders = {a1}
  NTasks = 5
  ExitBound = 4
  Unsettled = {}
SYMMETRY Symmetry
SPECIFICATION Spec
INVARIANTS
  KeepsMinThreads
  NoLostTask
CHECK_DEADLOCK FALSE
