SPECIFICATION FairSpec
CONSTANTS
  MaxTXID = 3
  MaxLevel = 2
  MaxUpper = 2
INVARIANTS PlanIsChain PlanIsComplete
PROPERTY PlanReturns
