\* One worker and one caller are enough to leave the caller blocked for ever.
CONSTANTS
  NULL = NULL
  INDET = INDET
  NoTid = NoTid
  Min = 1
  Max = 1
  ExpandMax = 5
  Tids = {w1}
  Adders = {a1}
  NTasks = 4
  ExitBound = 3
  Unsettled = {"tick"}
SPECIFICATION FairSpec
PROPERTY
  AddersReleased
CHECK_DEADLOCK FALSE
