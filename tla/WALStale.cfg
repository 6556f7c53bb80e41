SPECIFICATION Spec
CONSTANTS
  MaxPages = 2
  MaxCommits = 5
  MaxSpills = 0
  MaxSalts = 0
  AppCheckpoints = TRUE
  Recycle = TRUE
  TruncatePageN = 3
  MinCheckpointPageN = 2
  TimeCheckpoints = FALSE
  WindowCommits = FALSE
  LosesReadLock = FALSE
  MaxCheckpoints = 0
  MaxStops = 1
PROPERTY LastPageVouches
