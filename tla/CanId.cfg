SPECIFICATION Spec
CONSTANTS
  StandardIds = 2
  ExtendedIds = 4
  FrameSize = 2
  WordSize = 2
  MessageSizes = {1, 2, 3, 4, 5}
  Data = {7, 8}
  MaxHops = 2
INVARIANTS TypeOK MessageArrives
PROPERTIES EchoKeepsFrame
CHECK_DEADLOCK FALSE
