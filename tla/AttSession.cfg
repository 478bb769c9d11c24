SPECIFICATION SessionFairSpec
CONSTANTS
  Connections = {"c1", "c2"}
  Packets <- SessionPackets
  IndexMod = 32
  Unregisters = FALSE
  Properties <- TwoCharacteristics
  Mtus = {7, 15}
  ATT_DEFAULT_MTU = 8
  AclSize = 12
  MaxAsked = 2
  MaxAir = 1
  Used <- MostlyFirst
  PastHarm = FALSE
INVARIANT AnswersMatch
PROPERTY NoStrayConfirmation
CHECK_DEADLOCK FALSE
PROPERTY IndicationConfirmed
