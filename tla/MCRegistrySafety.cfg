SPECIFICATION Spec
CONSTANTS
  d1 = d1
  d2 = d2
  h1 = h1
  Devices = {d1, d2}
  LocalMacs = {h1}
  Addrs = {a1, a2}
  LocalAddr = local
  Sensors = {0}
  Positions = {0, 1, 2}
  NoPosition = none
  Statuses = {"Ok", "Error"}
  SampleKinds = {"rotation"}
  Assigned <- MCAssigned
  Mortal = {}
  Timeout = 0
INVARIANTS
  TypeOK
  OneRoutePerDevice
  PosesAreLive
  LocalsAreKnown
  AssignmentWins
  MountingFollowsPosition
SYMMETRY Symmetry
