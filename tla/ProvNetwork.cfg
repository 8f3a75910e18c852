\* A network of two nodes and three devices; lost links, settled resets.
CONSTANTS
  d1 = d1
  d2 = d2
  d3 = d3
  NoDevice = NoDevice
  Absent = Absent
  Device = {d1, d2, d3}
  Elements <- MCThreeDevices
  MaxNodes = 2
  OwnElements = 1
  AbortStages = {"opening", "open", "caps", "auth"}
  MaxAborts = 1
  MaxRequests = 2
  Polite = TRUE
  MaxResets = 1
  ResetAnyTime = FALSE
  MayDuplicate = TRUE
  MaxTimeouts = 1
SPECIFICATION Spec
INVARIANT ProvTypeOK
INVARIANT AddressesDistinct
INVARIANT NodesRecorded
INVARIANT NoErrorCheckFails
INVARIANT KeyShared
PROPERTY ConfiguredMeansApplied
PROPERTY EveryNodeConfigured
PROPERTY NetworkGrows
CHECK_DEADLOCK FALSE
