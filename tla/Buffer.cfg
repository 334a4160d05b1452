SPECIFICATION Spec
CONSTANTS
  Cap = 3
  Text = {"t"}
  Buffers = {x, y}
  Chunks <- SomeChunks
  Delims <- TwoDelims
INVARIANTS
  TypeOK
PROPERTIES
  IsAQueue
  CallsReturn
