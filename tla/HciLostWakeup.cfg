SPECIFICATION FairSpec
CONSTANTS
  AppCalls = {"HCI_get_bt_addr"}
  Careful = FALSE
  Connectable = FALSE
  IrqInGap = TRUE
  MayRefuse <- NoneRefused
  MaxQueue = 2
PROPERTY CallReturns
CHECK_DEADLOCK FALSE
