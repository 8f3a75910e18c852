\* Two nodes that engage at any time over a lossy mesh; one is reset and cleared.
CONSTANTS
  n1 = n1
  n2 = n2
  n3 = n3
  Node = {n1, n2}
  MaxRounds <- MCTwiceOnce
  Own <- MCOwnOneOne
  MaxRemote = 1
  TxnModulo = 8
  MayLose = TRUE
  Prompt = FALSE
  Sequential = FALSE
  MaxRestarts <- MCOneReset
  Clearable = {n2}
SPECIFICATION Spec
INVARIANT RtbTypeOK
INVARIANT ListeningIsTimed
INVARIANT NoAssertFails
PROPERTY RepliesAreCurrent
PROPERTY EveryProcedureEnds
CHECK_DEADLOCK FALSE
