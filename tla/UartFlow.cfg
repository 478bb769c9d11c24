SPECIFICATION UartFairSpec
CONSTANTS
  Packets <- LongPackets
  Stray = {7}
  FifoSize = 3
  MaxReads = 4
  TxLengths = {2}
INVARIANT HeldBetweenPackets
PROPERTY StartedPacketEnds
PROPERTY ReceptionGoesOn
