SPECIFICATION FrameSpec
CONSTANTS
  Base = 8
  WordBytes = 2
  HalfBytes = 1
  LongBytes = 4
  NonceBytes = 1
  SignatureBytes = 2
  BufferSize = 6
  Streams <- AllStreams
INVARIANTS
  HandledInOrder
PROPERTIES
  AllHandled
CHECK_DEADLOCK FALSE
