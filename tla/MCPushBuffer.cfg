SPECIFICATION FairSpec
CONSTANTS
  Program <- MCProgram
  Commands <- MCCommands
  Puts <- MCPuts
  CacheSize = 2
  InlineParams = 0
  MaxQueueDepth = 3
  PeekDepth = 2
  MaxSleeps = 1
  MaxWorkarounds = 1
INVARIANTS
  TypeOK
  NothingUntraced
  CallbacksInStep
  FrameComplete
  LateWritesKept
  ParametersFreed
PROPERTY RequestEnds
CHECK_DEADLOCK FALSE
