SPECIFICATION Spec
CONSTANTS
  MaxPages = 2
  MaxCommits = 2
  MaxSpills = 1
  MaxSalts = 1
  AppCheckpoints = TRUE
  Recycle = TRUE
  TruncatePageN = 3
  MinCheckpointPageN = 2
  TimeCheckpoints = FALSE
  WindowCommits = TRUE
  LosesReadLock = TRUE
  MaxCheckpoints = 1
  MaxStops = 1
INVARIANT WalSizeNotNegative
PROPERTY MarkedReadIsConsistent
