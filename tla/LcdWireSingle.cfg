SPECIFICATION WireSpec
CONSTANTS
  Calls <- SingleCommands
  FifoDepth = 2
  ChunkBytes = 3
INVARIANTS
  WireTypeOK
  DisplayUnderstands
  DmaReadsItsChunk
PROPERTY
  CallsEnd
