SPECIFICATION Spec
CONSTANTS
  AppCalls <- TrackedCalls
  Careful = TRUE
  Connectable = FALSE
  IrqInGap = TRUE
  MayRefuse <- SomeRefused
  MaxQueue = 2
INVARIANT StateTracksRadio
INVARIANT ReadIsOwn
CHECK_DEADLOCK FALSE
