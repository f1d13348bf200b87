SPECIFICATION Spec
CONSTANTS
  EpochLen = 5
  RevealLen = 2
  Grace = 3
  Round = 1
  FtsoSubmit1 <- MCFtsoSubmit1
  FtsoSubmit2 <- MCFtsoSubmit2
  FtsoSignatures <- MCFtsoSignatures
  OtherVotes <- MCOtherVotes
  Hashes <- MCHashes
  FdcSubmit1 <- MCFdcSubmit1
  FdcSubmit2 <- MCFdcSubmit2
  FdcSignatures <- MCFdcSignatures
  Tallies <- MCTallies
  RequestCounts <- MCRequestCounts
  Finalizations <- MCFinalizations
  RoundRecords <- MCRoundRecords
INVARIANTS
  SubmittedMeansSigned
CHECK_DEADLOCK FALSE
