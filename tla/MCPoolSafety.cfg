\* Any timing of the control thread: the pool as the source has it.
CONSTANTS
  NULL = NULL
  INDET = INDET
  NoTid = NoTid
  Min = 2
  Max = 3
  ExpandMax = 5
  Tids = {w1, w2, w3}
  Adders = {a1, a2}
  NTasks = 8
  ExitBound = 3
  Unsettled = {"sleep", "tick"}
SYMMETRY Symmetry
SPECIFICATION Spec
INVARIANTS
  TypeOK
  CountersExact
  NoFatal
  NoLostSlot
PROPERTY
  ImplementsPool
CHECK_DEADLOCK FALSE
