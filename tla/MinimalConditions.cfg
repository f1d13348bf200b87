SPECIFICATION Spec
CONSTANTS
  n1 = n1
  NoVote = NoVote
  Nodes <- MCNodes
  NodeSets <- MCNodeSets
  Rounds <- MCRounds
  Window = 3
  Checks = 2
  MaxBatch = 2
  Band = 50
  FtsoThreshold = 5000
  StakingThreshold = 5000
  FdcThreshold = 5000
INVARIANTS
  TypeOK
  RatesDefined
  StakingExact
PROPERTIES
  FtsoRate
  FdcRate
CHECK_DEADLOCK FALSE
