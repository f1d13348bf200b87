SPECIFICATION FairSpec
CONSTANTS
  EpochLen = 1
  RevealLen = 1
  Rounds <- MCRounds
  v1 = v1
  Senders <- MCSenders
  Voters <- MCVoters
  MaxGap = 2
  MaxTs = 5
  MaxItems = 2
INVARIANTS
  TypeOK
  RecordComplete
  NoObservedRoundLost
PROPERTIES
  ValidatedInOrder
  LogSpec
  EveryRoundValidated
CHECK_DEADLOCK FALSE
