SPECIFICATION FairSpec
CONSTANTS
  Ports = {p1, p2}
  EventCap = 1
  MaxRestarts = 1
  MaxCalls = 1
INVARIANTS
  ControlsCoverPorts
  OnlyCurrentTrackers
PROPERTIES
  OkMeansAllOff
  OffOncePerCall
  CallsEnd
CHECK_DEADLOCK FALSE
