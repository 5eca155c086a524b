SPECIFICATION Spec
CONSTANTS
  MaxDocs = 4
  MaxConns = 3
  Workloads = {
    {"close", "breaks", "refusals", "callbackFails"},
    {"cancel", "breaks", "refusals", "ignoreErrors"},
    {"close", "callbackCloses"}}
INVARIANTS FailureIsReported 
PROPERTIES DeliversAtLeastOnce CloseEnds
CHECK_DEADLOCK FALSE
