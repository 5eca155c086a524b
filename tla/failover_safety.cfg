SPECIFICATION Spec
CONSTANTS
  None = None
  TopologyTimer = TopologyTimer
  Callers = {c1, c2}
  MaxNodes = 2
  MaxGen = 2
  MaxCommands = 2
  MaxRefresh = 1
  MaxTicks = 1
  MaxRetries = 1
  Starts <- Scenarios
SYMMETRY Symmetry
INVARIANTS ContactedOnce 
\* callers may stop calling, and a panic ends the program
CHECK_DEADLOCK FALSE
