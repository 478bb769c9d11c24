SPECIFICATION Spec
CONSTANTS
  AppCalls <- ColdCalls
  Careful = FALSE
  Connectable = TRUE
  IrqInGap = TRUE
  MayRefuse <- SomeRefused
  MaxQueue = 2
INVARIANT WakeMeansAnswered
INVARIANT ReadIsOwnOrRadio
PROPERTY OneCommandAtATime
PROPERTY ImplementsChannel
CHECK_DEADLOCK FALSE
