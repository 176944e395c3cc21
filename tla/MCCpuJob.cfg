SPECIFICATION Spec
CONSTANTS
  DoubleBytes = 2
  Lanes = 2
  AccumulatorBytes = 8
  ChunkSizes <- MCChunkSizes
  BufferSizes <- MCBufferSizes
INVARIANTS NothingTwice OnlyTailLost
