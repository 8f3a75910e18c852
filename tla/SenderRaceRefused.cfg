SPECIFICATION Spec
CONSTANTS
  Capacity = 3
  Empty = Empty
  NoMsg = NoMsg
  Msg <- MCMsg
  ThreadMsgs <- MCOneSet
  CallersOverlap = TRUE
  CopyExposed = FALSE
  MaxEntries = 2
  InitEntries = 2
  TableChanges = "never"
  EarlyComplete = FALSE
  MaxInFlight = 2
INVARIANTS
  RefusedMeansFull
CHECK_DEADLOCK FALSE
