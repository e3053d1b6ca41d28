SPECIFICATION BodySpec
CONSTANTS
  Optimizers = {o1, o2}
  Heights = {170, 180}
  BadHeights = {0}
  MaxFrames = 3
INVARIANTS
  BodyAgrees
  FramesUsedOnce
CHECK_DEADLOCK FALSE
