SPECIFICATION InlineSpec
CONSTANTS
  HeaderLen = 2
  Lens = {0, 1, 2, 9}
  MaxLen = 2
  Capacity = 1
  MaxFrames = 2
INVARIANTS
  FramesIntact
CHECK_DEADLOCK FALSE
