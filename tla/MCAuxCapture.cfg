SPECIFICATION Spec
CONSTANTS
  Configs <- MCConfigs
  Stages = 1
  MaxLayers = 2
  MaxPackets = 3
  MaxFailures = 1
INVARIANTS
  TypeOK
  CapturesMatchPackets
  CapturesHaveBuffer
  DrawIndexExact
CHECK_DEADLOCK FALSE
