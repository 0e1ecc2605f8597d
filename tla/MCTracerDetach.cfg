SPECIFICATION FairSpec
CONSTANTS
  Cmd = cmd
  Tracers = {t1, t2}
  Blocks = {b1, b2}
  Null = null
  Patient = TRUE
PROPERTY DetachCompletes
CHECK_DEADLOCK FALSE
