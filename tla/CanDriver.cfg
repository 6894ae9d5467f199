SPECIFICATION FairSpec
CONSTANTS
  AssertsEnabled = TRUE
  MaxChunks = 2
  MaxFrames = 3
  MaxArrivals = 4
  FifoSize = 2
  MaxRegistrations = 2
  Unregistering = {2}
INVARIANTS TypeOK NoStaleCompletion NoLostWakeup ReceivedInOrder
PROPERTIES SendsInOrder Progress
CHECK_DEADLOCK FALSE
