SPECIFICATION CommandsSpec
CONSTANTS
  Descs <- MCDescs
  Capacity = 20
INVARIANTS ParserExact CompleteIsEnough EffectsAsMeant ReplyAsMeant
