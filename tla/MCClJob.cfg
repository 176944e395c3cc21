SPECIFICATION FairSpec
CONSTANTS
  DoubleBytes = 2
  DefaultChunkSize = 4
  SmallSizeLimit = 8
  AccumulatorBytes = 8
  MaxWorkGroupSize = 3
  HostBytes <- MCHostBytes
  FirstChunks <- MCFirstChunks
INVARIANTS OwnShareOnce SharesComplete OnlySmallFileOverruns
PROPERTY JobEnds
