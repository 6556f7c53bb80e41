SPECIFICATION Spec
CONSTANTS
  Conn = {c1, c2}
  NoConn = NoConn
  Page = {p1}
  WithTimeout = TRUE
  MaxTx = 2
  MaxFaults = 0
PROPERTY NothingOverwritten
CHECK_DEADLOCK FALSE
