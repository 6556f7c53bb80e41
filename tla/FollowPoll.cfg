SPECIFICATION Spec
CONSTANTS
  MaxTXID = 3
  MaxPage = 2
  MaxLevel = 1
  Corruptible = {0, 1}
  MaxTrouble = 1
INVARIANT PollIsAtomic
