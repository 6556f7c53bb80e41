SPECIFICATION Spec
CONSTANTS
  Conn = {c1, c2}
  NoConn = NoConn
  Page = {p1, p2}
  WithTimeout = TRUE
  MaxTx = 2
  MaxFaults = 1
INVARIANTS TypeOK SingleWriter OnlyCommittedUploads DisabledIsClean WakeUpIsOwed
CHECK_DEADLOCK FALSE
