SPECIFICATION BufferSpec
CONSTANTS
  Byte = {0, 1}
  Capacity = 4
  Chunks <- MCChunks
INVARIANT
  EmptyIsRewound
PROPERTY
  ImplementsFifo
CHECK_DEADLOCK FALSE
