\* The 5 seconds between two ticks let every worker settle; still, two workers
\* that finish a task while the signal is polled for are both lost a tick later.
CONSTANTS
  NULL = NULL
  INDET = INDET
  NoTid = NoTid
  Min = 1
  Max = 3
  ExpandMax = 5
  Tids = {w1, w2, w3}
  Adders = {a1}
  NTasks = 6
  ExitBound = 3
  Unsettled = {"tick"}
SYMMETRY Symmetry
SPECIFICATION Spec
INVARIANT
  MinThreads
CHECK_DEADLOCK FALSE
