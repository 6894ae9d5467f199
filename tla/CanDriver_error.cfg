SPECIFICATION Spec
CONSTANTS
  AssertsEnabled = TRUE
  MaxChunks = 2
  MaxFrames = 3
  MaxArrivals = 4
  FifoSize = 2
  MaxRegistrations = 2
  Unregistering = {2}
INVARIANTS ErrorCallAsRegistered
CHECK_DEADLOCK FALSE
