SPECIFICATION FairReaderSpec
CONSTANTS
  Size = 5
  MaxBuffer = 3
  MaxEmpty = 2
  MaxRetries = 3
INVARIANTS ReaderTypeOK NoByteSkipped BudgetIsGranted
PROPERTY Terminates
