SPECIFICATION FairSpec
CONSTANTS
  ChunkCount = 4
  NClDevices = 1
  OpenClOnly = FALSE
  NoJob = NoJob
  NoErr = NoErr
  Main = Main
  Nobody = Nobody
  MaxChunks <- MCMaxChunks
INVARIANTS IInv ChunkPartition ResultComplete AssignHasCoordinator NoJobRace NoLostWakeup NoStrandedWorker
PROPERTIES RetryOnlyWhenTerminating Termination ErrorSurfaces ImplementsComputation
