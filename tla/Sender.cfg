\* Interrupts prepare messages while the thread does not; they and TX complete
\* and timer events preempt it anywhere, but for the timer in the
\* midst of a copy.
SPECIFICATION Spec
CONSTANTS
  Capacity = 4
  Empty = Empty
  NoMsg = NoMsg
  Msg <- MCMsg
  ThreadMsgs <- MCThreadMsgs
  CallersOverlap = FALSE
  CopyExposed = FALSE
  MaxEntries = 2
  InitEntries = 2
  TableChanges = "unpublished"
  EarlyComplete = FALSE
  MaxInFlight = 2
INVARIANTS
  SenderTypeOK
  NoStall
  RefusedMeansFull
PROPERTIES
  ImplementsSender
  KeepsSending
  EndOnlyWhilePublishing
  EveryPublicationEnds
CHECK_DEADLOCK FALSE
