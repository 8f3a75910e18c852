SPECIFICATION QueueSpec
CONSTANTS
  Msg = {m1, m2, m3}
  Capacity = 4
  Empty = Empty
INVARIANTS
  QueueTypeOK
  RingInv
PROPERTY
  ImplementsFifo
