\* A host with as many commands in the Gate as it has buffers.
SPECIFICATION Spec
CONSTANTS
  Buffers = 3
  MaxCommands = 4
  MaxAhead = 3
  MaxUpdates = 1
INVARIANT GateTypeOK
INVARIANT CommandsInOrder
PROPERTY EveryCommandHandled
PROPERTY EveryDetectionRun
