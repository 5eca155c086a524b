SPECIFICATION Spec
CONSTANTS
  Goroutines = {g1, g2, g3}
  Nodes = {A}
  None = None
  BatchSize = 2
  MaxCalls = 2
  MaxRanges = 2
  MaxHigh = 6
SYMMETRY Symmetry
INVARIANTS TypeOK IssuedInRange FastNumbersUnique OneRangeAtATime 
\* a caller may block on its own lock
CHECK_DEADLOCK FALSE
