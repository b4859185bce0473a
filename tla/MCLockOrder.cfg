SPECIFICATION Spec
CONSTANTS
  Threads = {main, thread}
  NoOne = NoOne
  Main = main
  MaxRounds = 2
INVARIANT NoEmbrace
CHECK_DEADLOCK FALSE
