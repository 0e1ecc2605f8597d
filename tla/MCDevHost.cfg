SPECIFICATION HostFairSpec
CONSTANTS
  Cmd = cmd
  Tracers = {t1}
  Blocks = {b1, b2}
  Null = null
  Patient = TRUE
INVARIANTS
  HostTypeOK
  NeverRejected
PROPERTIES
  HostFinishes
CHECK_DEADLOCK FALSE
