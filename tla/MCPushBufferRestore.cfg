SPECIFICATION Spec
CONSTANTS
  Program <- MCProgram
  Commands <- MCCommands
  Puts <- MCPuts
  CacheSize = 2
  InlineParams = 1
  MaxQueueDepth = 3
  PeekDepth = 2
  MaxSleeps = 1
  MaxWorkarounds = 1
INVARIANT RestoredOnShutdown
CHECK_DEADLOCK FALSE
