SPECIFICATION BufferSpec
CONSTANTS
  UintMax <- MCUintMax
  Byte = {0, 1}
  MaxChunk = 3
  NoByte = no_byte
  Capacity <- MCCapacity
  Threshold <- MCThreshold
  HeaderSize <- MCHeaderSize
  MaxLogged <- MCMaxLogged
  MaxPayload = 2
  MaxRead = 2
  MaxStalls = 3
  MaxFaults = 1
INVARIANTS
  RingTypeOK
  NoFullLap
  SpaceAccounted
  TypeOK
  StreamIntact
PROPERTIES
  ImplementsQueue
  WritesReturn
  TraceDelivered
