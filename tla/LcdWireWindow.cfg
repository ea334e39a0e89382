SPECIFICATION WireSpec
CONSTANTS
  Calls <- Windows
  FifoDepth = 2
  ChunkBytes = 3
INVARIANT
  DisplayUnderstands
