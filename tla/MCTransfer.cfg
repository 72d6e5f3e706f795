CONSTANTS
  Kinds <- AllKinds
  Stamps = {TRUE, FALSE}
  MaxOps = 4
  WaitRetries = 1
  MatchRetries = 1
  RespWords = 4
SPECIFICATION Spec
INVARIANTS WordsInOrder ReplyComplete WritesTaken
PROPERTIES CommandEnds
CHECK_DEADLOCK FALSE
