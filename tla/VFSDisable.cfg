SPECIFICATION FairSpec
CONSTANTS
  Conn = {c1}
  NoConn = NoConn
  Page = {p1}
  WithTimeout = TRUE
  MaxTx = 1
  MaxFaults = 0
PROPERTY DisableEnds
CHECK_DEADLOCK FALSE
