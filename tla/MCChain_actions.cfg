CONSTANTS
  MaxActions = 3
  MaxCommands = 2
SPECIFICATION FairSpec
INVARIANT TypeOK
INVARIANT NothingAfterFailure
INVARIANT OkMeansExited
INVARIANT DestinationIsLatest
INVARIANT TimeOutEndsTree
PROPERTY ChainEnds
CHECK_DEADLOCK FALSE
