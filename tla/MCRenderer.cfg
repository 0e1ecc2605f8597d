SPECIFICATION RendererSpec
CONSTANTS
  b1 = b1
  b2 = b2
  Buffers = {b1, b2}
  SizeOf <- MCSizeOf
  NoBuffer = no_buffer
  PerBatch = 12
  PerPush = 2
  HalfWord = 8
  Layouts = {1, 3}
  IndexLists <- MCIndexLists
  Programs = {p1, p2}
  NoProgram = no_program
  StageCount = 2
  MaxTexture = 3
  TextureFormats = {plain, paletted}
  Plain = plain
  Paletted = paletted
  Default = default
  Colors = {default, tinted}
INVARIANTS
  TypeOK
  DrawsCurrentVertices
  DrawnAsAsked
  PrimitivesWhole
  DepthAgrees
  ConstantsCurrent
  StagesCommitted
  TexturesKept
CHECK_DEADLOCK FALSE
