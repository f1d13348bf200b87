SPECIFICATION FairSpec
CONSTANTS
  Lag = 1
  MaxHead = 4
INVARIANTS
  TypeOK
  NoBlockSkipped
  DroppedOnlyByPing
  DeliversOwnBlock
PROPERTIES
  ReadOnceInOrder
  EveryBlockRead
