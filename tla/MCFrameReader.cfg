SPECIFICATION FramesFairSpec
CONSTANTS
  HeaderLen = 2
  Lens = {0, 1, 2, 9}
  MaxLen = 2
  Capacity = 1
  MaxFrames = 3
PROPERTIES
  IsChannel
  AllHandled
CHECK_DEADLOCK FALSE
