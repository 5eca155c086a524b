CONSTANTS
  Nil = Nil
  Cancellation = Cancellation
  Error = Error
  None = None
  Timer = Timer
  TimerUpdate = TimerUpdate
  Callers = {c1, c2}
  NumUrls = 2
  MaxCalls = 3
  MaxTicks = 1
  MaxTries = 1
SPECIFICATION Spec
INVARIANTS RunningUpdateIsCurrent SelectorBeforeCommand
PROPERTIES SuccessIsFinal
CHECK_DEADLOCK FALSE
