SPECIFICATION Spec
CONSTANTS
  Producers = {producer}
  Consumers = {consumer}
  QUEUE_MAX_SIZE = 2
  Garbage = Garbage
  Builds = {"torn"}
  MaxElems = 5
  MaxKills = 0
INVARIANT NoErrorLine
CHECK_DEADLOCK FALSE
