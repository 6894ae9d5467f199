SPECIFICATION Spec
CONSTANTS
  Configurations <- RefilledBuffer
  MaxMessages = 3
  MaxLength = 3
  EncodedSize = 2
  LengthModulus = 4
  AssertsEnabled = TRUE
INVARIANTS WireFaithful
CHECK_DEADLOCK FALSE
