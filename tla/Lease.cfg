SPECIFICATION Spec
CONSTANTS
  Client = {c1, c2}
  NoLease = NoLease
  NoRequest = NoRequest
  TTL = 1
  MaxTime = 3
  MaxETag = 3
  MaxNet = 2
INVARIANTS TypeOK MutualExclusion
PROPERTY ImplementsTimedLock
CHECK_DEADLOCK FALSE
