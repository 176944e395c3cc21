SPECIFICATION Spec
CONSTANTS
  AccumulatorBytes = 4096
  Argvs <- MCArgvs
  Numerals <- MCNumerals
  Lists <- MCLists
  WordSize = 67108864
  Devices <- MCDevices
  MaxDevices = 2
  FileSizes <- MCFileSizes
  NoFile = NoFile
  Megabyte = 1024
  DefaultMemoryLimit = 1048576
  MaxMemoryLimit = 4194304
  DefaultChunkSize = 4
  SmallSizeLimit = 1024
  MAX_RUNS = 3
  DEFAULT_RUNS = 2
INVARIANT OutputWritten
