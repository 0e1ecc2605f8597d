SPECIFICATION Spec
CONSTANTS
  Program <- MCSubProgram
  Commands <- MCSubCommands
  Puts <- MCSubPuts
  CacheSize = 2
  InlineParams = 4
  MaxQueueDepth = 3
  PeekDepth = 2
  MaxSleeps = 1
  MaxWorkarounds = 1
INVARIANT SubroutinesParsed
CHECK_DEADLOCK FALSE
