SPECIFICATION UartFairSpec
CONSTANTS
  Packets <- ShortPackets
  Stray = {7}
  FifoSize = 3
  MaxReads = 4
  TxLengths = {1, 2}
PROPERTY ControllerLetGo
