SPECIFICATION Spec
CONSTANTS
  RewardLen = 4
  RandomLead = 2
  WindowLead = 2
  WindowTail = 1
  Voters <- MCVoters
  Target <- MCTarget
  MaxSkip = 1
  MaxEpoch = 3
INVARIANTS
  TypeOK
  PolicyInForce
  BuilderFailsForReason
CHECK_DEADLOCK FALSE
