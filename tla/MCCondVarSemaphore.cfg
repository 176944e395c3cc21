SPECIFICATION FairSpec
CONSTANTS
  Threads = {t1, t2, t3, t4}
  InitialCount = 0
  MaxCount = 3
  Nobody = Nobody
INVARIANTS TypeOK MutexOwned EnoughAwake
PROPERTY ImplementsSemaphore
