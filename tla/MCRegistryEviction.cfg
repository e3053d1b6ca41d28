SPECIFICATION FairSpec
CONSTANTS
  d1 = d1
  d2 = d2
  h1 = h1
  Devices = {d1, d2}
  LocalMacs = {}
  Addrs = {a1, a2}
  LocalAddr = local
  Sensors = {0, 1}
  Positions = {0}
  NoPosition = none
  Statuses = {"Ok"}
  SampleKinds = {"rotation"}
  Assigned <- MCNoAssigned
  Mortal = {d1}
  Timeout = 1
INVARIANTS
  RoutesAreLive
  SensorAtItsRoute
PROPERTIES
  MoveKeepsSensors
  SilentIsEvicted
