SPECIFICATION SpecAll
CONSTANTS
  c1 = c1
  c2 = c2
  h1 = h1
  leg = leg
  other = other
  Careful = {c1, c2}
  Hasty = {h1}
  MaxExits = 3
  Trackers = {leg, other}
  Channels = {0, 1}
  FirstOn <- MCFirstOn
  FirstId <- MCFirstId
  Counts = 3
  FirstCount <- MCFirstCount
  MaxMoves = 1
INVARIANTS
  ServingIsReachable
  ClicksWerePressed
PROPERTIES
  EventuallyServed
  StreamingIsSeen
CHECK_DEADLOCK FALSE
