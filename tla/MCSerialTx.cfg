SPECIFICATION FairSpec
CONSTANTS
  Configurations <- AllConfigurations
  MaxMessages = 3
  MaxLength = 3
  EncodedSize = 2
  LengthModulus = 4
  AssertsEnabled = TRUE
INVARIANTS TypeOK SemaphoreTracksFifo
PROPERTIES SendsInOrder EverythingSent
CHECK_DEADLOCK FALSE
