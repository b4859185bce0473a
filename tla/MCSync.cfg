SPECIFICATION MCSpec
CONSTANTS
  Threads = {t1, t2, t3}
  NoTid = NoTid
  Strays = {t3}
  NULL = NULL
  Garbage = Garbage
  main = main
  other = other
  ListProducers = {p1, p2}
  ListConsumers = {c1, c2}
  ListNodes = {n1, n2, n3}
  RingProducers = {p1}
  RingConsumers = {c1}
  RingSize = 3
  RingElems = 6
  RingKills = 2
  DaemonStarts = {d1, d2, d3}
  SlotProducers = {p1}
  SlotConsumers = {c1, c2}
  SlotSegments = {1, 2}
  SlotItems = 2
  NamedSize = 2
  NamedElems = 4
  NamedKills = 2
  Takers = {c1, c2, other}
  ClientChunk = 2
  ServerRead = 2
  SocketCap = 5
  TypedMax = 12
  HeaderUnits = 2
  AnswerCap = 2
  RequestMax = 3
  SizeMax = 2
  PrintMax = 3
  PipeCap = 1
  PipeUnits = 3
  Askers = {c1, c2}
  LongNames = {c1}
  LineMax = 2
  PortMax = 1
INVARIANTS MutualExclusion OnePlace WakeUpPerNode MergeSorts
  SlotsAccounted NeverRefused ConsumedInOrder RoundTrip PidFileNamesTheDaemon Detached ShownOnce PrintsAll NeverBothWait
PROPERTY ReleasedByOwner
CHECK_DEADLOCK FALSE
