\* Fair threads; the queue of 2 * Max tasks fills up and callers block.
CONSTANTS
  NULL = NULL
  INDET = INDET
  NoTid = NoTid
  Min = 1
  Max = 2
  ExpandMax = 5
  Tids = {w1, w2}
  Adders = {a1, a2}
  NTasks = 6
  ExitBound = 3
  Unsettled = {}
SPECIFICATION FairSpec
PROPERTIES
  TasksServed
  CallersReturn
  ShutdownCompletes
CHECK_DEADLOCK FALSE
