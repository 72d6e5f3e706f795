SPECIFICATION Spec
CONSTANTS
  MaxWords = 2
  MaxRetries = 1
  Depth = 4
  YieldEvery = 2
  Params <- MCParams
CHECK_DEADLOCK FALSE
INVARIANTS FifosInStep WireInStep TurnsBounded
PROPERTIES ReturnsSettled CallEnds ImplementsContract
