SPECIFICATION FairSpec
CONSTANTS
  Images <- SomeImages
  MAX_PACKET_SIZE = 8
  MaxInits = 3
INVARIANT FirmwareTypeOK
INVARIANT LoadedIsPrefix
INVARIANT SuccessMeansLoaded
INVARIANT RetryLoadsNothing
PROPERTY RecordsWaitTheirTurn
PROPERTY InitReturns
CHECK_DEADLOCK FALSE
