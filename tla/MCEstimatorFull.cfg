CONSTANTS
  Raws <- MCRaws
  WordMax = 4095
  Slots = 4
  Hash <- MCHash
  FreqDen = 4
  Completeness <- MCCompleteness
  Clock = 1000
  MaxTotal = 5
SPECIFICATION Spec
PROPERTIES PushReturns
