\* Every call sequence on rings of 1 to 3 slots.
CONSTANTS
  NULL = NULL
  INDET = INDET
  Ptrs = {p1, p2}
  MaxSize = 3
SPECIFICATION Spec
INVARIANTS
  TypeOK
  NoWildAccess
  StoredOnly
PROPERTY
  ImplementsFifo
