SPECIFICATION FairSpec
CONSTANTS
  Connections = {"c"}
  Packets <- AllPackets
  IndexMod = 32
  Unregisters = TRUE
INVARIANT TypeOK
INVARIANT EventsMatchPacket
INVARIANT ReadsInside
INVARIANT ConfirmedFirst
INVARIANT NullCallCause
PROPERTY PacketIsHandled
CHECK_DEADLOCK FALSE
