SPECIFICATION Spec
CONSTANTS
  s1 = s1
  None = None
  MaxEpoch = 3
  MaxBlock = 6
  FeedCounts <- MCFeedCounts
  Entities <- MCEntities
  TotalWeight = 12
  DeltaBytes <- MCDeltaBytes
  Senders <- MCSenders
  MaxExponent = 3
  Scale = 1000
  Critical = 100
INVARIANTS
  TypeOK
  RightLengthReportedIffOdd
  WrongLengthReported
  AlarmOnlyAfterSilence
PROPERTIES
  SilenceReported
  AlarmGrows
CHECK_DEADLOCK FALSE
