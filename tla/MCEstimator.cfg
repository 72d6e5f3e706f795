CONSTANTS
  Raws <- MCRaws
  WordMax = 4095
  Slots = 5
  Hash <- MCHash
  FreqDen = 4
  Completeness <- MCCompleteness
  Clock = 1000
  MaxTotal = 7
SPECIFICATION Spec
INVARIANTS CountsExact PeriodsInWindow
PROPERTIES PushReturns
