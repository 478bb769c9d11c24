SPECIFICATION FairSpec
CONSTANTS
  AppCalls <- WarmCalls
  Careful = FALSE
  Connectable = FALSE
  IrqInGap = TRUE
  MayRefuse <- SomeRefused
  MaxQueue = 2
INVARIANT TypeOK
INVARIANT HangCause
PROPERTY CallReturnsOrExcused
CHECK_DEADLOCK FALSE
