SPECIFICATION Spec
CONSTANTS
  MaxPages = 2
  MaxCommits = 3
  MaxSpills = 0
  MaxSalts = 0
  AppCheckpoints = FALSE
  Recycle = TRUE
  TruncatePageN = 3
  MinCheckpointPageN = 2
  TimeCheckpoints = FALSE
  WindowCommits = FALSE
  LosesReadLock = FALSE
  MaxCheckpoints = 1
  MaxStops = 0
INVARIANT SyncCatchesUp
