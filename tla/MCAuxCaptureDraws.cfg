SPECIFICATION Spec
CONSTANTS
  Configs <- MCTexturesOnly
  Stages = 1
  MaxLayers = 2
  MaxPackets = 3
  MaxFailures = 1
INVARIANT DrawIndexCounts
CHECK_DEADLOCK FALSE
