\* The same, when both sensors are heard between two expiries.
SPECIFICATION Spec
CONSTANTS
  c1 = c1
  c2 = c2
  Container = {c1, c2}
  Sensor = {c1, c2}
  Boards <- MCBoards
  Ports = {2}
  JsonSize = 20
  TableSize = 60
  MaxKeepAlive = 0
  MaxReadings = 2
  MaxOthers = 1
  MaxDead = 1
INVARIANT LinesAreJson
