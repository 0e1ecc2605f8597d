SPECIFICATION HostFairSpec
CONSTANTS
  Cmd = cmd
  Tracers = {t1}
  Blocks = {b1, b2}
  Null = null
  Patient = TRUE
PROPERTY IdleIsSeen
CHECK_DEADLOCK FALSE
