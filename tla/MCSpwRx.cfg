SPECIFICATION FairSpec
CONSTANTS
  Packet <- MCPacket
  MaxPackets = 3
  DataSize = 2
INVARIANTS TypeOK MemoryStable ForwardedExactly
PROPERTIES EveryPacketProcessed
CHECK_DEADLOCK FALSE
