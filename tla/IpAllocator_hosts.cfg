SPECIFICATION Spec
CONSTANTS
  Space = 16
  BlockSizes = {1, 2, 4, 8}
  NoAddr = NoAddr
  NoPool = NoPool
  Subnets <- Proper
INVARIANT LentWithinSubnet
PROPERTY AnswersFirstFit
INVARIANT LentIsAllocated
