SPECIFICATION FairSpec
CONSTANTS
  MaxState = 4
  MaxTXID = 4
  MaxTrouble = 2
  LoseNewest = FALSE
  AutoRecover = FALSE
  RetentionEnabled = TRUE
INVARIANTS ReplicaChain OneFilePerTXID
PROPERTY KeepsReplicating
