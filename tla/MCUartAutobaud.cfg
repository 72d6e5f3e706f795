CONSTANTS
  u1 = u1
  u2 = u2
  r1 = r1
  r2 = r2
  Magic = Magic
  BootRate = BootRate
  None = None
  Uarts <- TwoUarts
  Rates <- TwoRates
  MaxHost = 6
  MaxData = 1
SPECIFICATION UartSpec
INVARIANTS EngineOnlyForAsking EstimateIsOwn
PROPERTIES LineCodingApplied
CHECK_DEADLOCK FALSE
