CONSTANTS
  n1 = n1
  n2 = n2
  n3 = n3
  b1 = b1
  b2 = b2
  b3 = b3
  a1 = a1
  a2 = a2
  a3 = a3
  g1 = g1
  c3 = c3
  e3 = e3
  Container = {b1, b2, b3, a1, a2, a3, g1, c3, e3}
  Net = {n1, n2, n3}
  BridgeBoard <- MCBridgeBoard
  OtherBoard <- MCOtherBoard
  Gates = {n1}
  Rounds <- MCRounds
  MaxEntries = 2
  FillsFull = FALSE
  MaxClears = 1
  MaxSends = 3
  TxnModulo = 3
  MaxLost = 1
  Quiet = TRUE
SPECIFICATION Spec
INVARIANT TablesTypeOK
INVARIANT TablesResolve
INVARIANT MessagesArrive
INVARIANT TablesKnowMessages
PROPERTY MessagesAccepted
CHECK_DEADLOCK FALSE
