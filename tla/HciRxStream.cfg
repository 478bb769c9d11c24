SPECIFICATION FairSpec
CONSTANTS
  Packets <- EdgePackets
  Stray = {0, 7}
INVARIANT TypeOK
INVARIANT FramingKept
INVARIANT DeliveredIntact
INVARIANT DecodeReadsBack
PROPERTY EveryPacketArrives
