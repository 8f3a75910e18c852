\* Three nodes; procedures one after the other; no loss.
CONSTANTS
  n1 = n1
  n2 = n2
  n3 = n3
  Node = {n1, n2, n3}
  MaxRounds <- MCTwoOfThree
  Own <- MCOwnThree
  MaxRemote = 4
  TxnModulo = 8
  MayLose = FALSE
  Prompt = TRUE
  Sequential = TRUE
  MaxRestarts <- MCNoReset
  Clearable = {}
SPECIFICATION Spec
INVARIANT NoDuplicates
INVARIANT TablesExtended
PROPERTY EveryProcedureEnds
CHECK_DEADLOCK FALSE
