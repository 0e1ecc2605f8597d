SPECIFICATION FairSpec
CONSTANTS
  Cmd = cmd
  Tracers = {t1, t2}
  Blocks = {b1, b2}
  Null = null
  Patient = TRUE
INVARIANTS
  TypeOK
  OneTracer
  RequestStable
  WorkingStateHasWorker
  StableHasAddresses
  BuffersManaged
PROPERTIES
  FatalIsFinal
  FatalLeadsToShutdown
  DetachHonoured
  ImplementsFairService
CHECK_DEADLOCK FALSE
