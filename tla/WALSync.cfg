SPECIFICATION FairSpec
CONSTANTS
  MaxPages = 2
  MaxCommits = 2
  MaxSpills = 1
  MaxSalts = 0
  AppCheckpoints = FALSE
  Recycle = FALSE
  TruncatePageN = 3
  MinCheckpointPageN = 2
  TimeCheckpoints = TRUE
  WindowCommits = FALSE
  LosesReadLock = TRUE
  MaxCheckpoints = 2
  MaxStops = 1
INVARIANTS TypeOK ChainIsHistory SyncCatchesUp WriteLockReturned
PROPERTY KeepsCatchingUp
