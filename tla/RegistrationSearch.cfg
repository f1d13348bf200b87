SPECIFICATION FairSpec
CONSTANTS
  Head = 16
  Chains <- MCChains
  Delays <- MCDelays
  BlockTime = 2
  Stride = 3
  Tolerance = 3
  StartLead = 14
  EndLead = 4
  OpenLead = 10
  CloseLead = 8
INVARIANTS
  TypeOK
  RegistrationCovered
  FailsOnYoungChain
PROPERTIES
  NeverTurns
  SearchEnds
CHECK_DEADLOCK FALSE
