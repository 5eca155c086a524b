CONSTANTS
  Nil = Nil
  Cancellation = Cancellation
  TimedOut = TimedOut
  Producers = {p1, p2}
  Waiters = {w1, w2, w3}
  Timed = {w3}
  Values = {v}
  Errors = {e}
  MaxGets = 2
SPECIFICATION FairSpec
INVARIANTS TypeOK SendNeverBlocks
PROPERTIES FulfilsPromise SoleWaiterReturns
CHECK_DEADLOCK FALSE
