SPECIFICATION Spec
CONSTANTS
  MaxState = 4
  MaxTXID = 4
  MaxTrouble = 2
  LoseNewest = TRUE
  AutoRecover = FALSE
  RetentionEnabled = TRUE
PROPERTY ResetStartsAfresh
