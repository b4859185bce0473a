SPECIFICATION Spec
CONSTANTS
  Threads = {t1, t2}
  NoTid = NoTid
  Strays = {}
INVARIANT UnlockReleases
CHECK_DEADLOCK FALSE
