SPECIFICATION ReaderSpec
CONSTANTS
  Size = 5
  MaxBuffer = 3
  MaxEmpty = 2
  MaxRetries = 3
INVARIANT CompleteAtEOF
