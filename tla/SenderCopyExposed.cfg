\* The pacing timer expires while the thread has copied a part of an element.
SPECIFICATION Spec
CONSTANTS
  Capacity = 4
  Empty = Empty
  NoMsg = NoMsg
  Msg <- MCMsg
  ThreadMsgs <- MCOneSet
  CallersOverlap = FALSE
  CopyExposed = TRUE
  MaxEntries = 2
  InitEntries = 2
  TableChanges = "unpublished"
  EarlyComplete = FALSE
  MaxInFlight = 2
INVARIANTS
  SentWhole
CHECK_DEADLOCK FALSE
