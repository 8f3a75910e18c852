\* Scanning is requested while a device is being provisioned.
CONSTANTS
  d1 = d1
  d2 = d2
  d3 = d3
  NoDevice = NoDevice
  Absent = Absent
  Device = {d1, d2}
  Elements <- MCTwoDevices
  MaxNodes = 2
  OwnElements = 1
  AbortStages = {"opening", "open", "caps", "auth"}
  MaxAborts = 1
  MaxRequests = 3
  Polite = FALSE
  MaxResets = 0
  ResetAnyTime = FALSE
  MayDuplicate = TRUE
  MaxTimeouts = 0
SPECIFICATION Spec
INVARIANT NodesRecorded
CHECK_DEADLOCK FALSE
