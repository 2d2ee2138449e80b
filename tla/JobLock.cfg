SPECIFICATION Spec
CONSTANTS
  Jobs = {j1, j2}
  Workers = {w1, w2}
  NoWorker = NoWorker
  NoJob = NoJob
  LockTTL = 3
  HardLimit = 2
  MaxTime = 6
INVARIANTS TypeOK MutualExclusion HolderOwnsLiveLock
PROPERTIES OnlyHolderDeletesLock ImplementsPromise
