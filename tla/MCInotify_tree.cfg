CONSTANTS
  Names = {"x", "y"}
  MaxDepth = 2
  Start <- Tree
  MaxChanges = 2
  MaxWds = 10
  MaxWatches = 3
  OsCapacity = 2
SPECIFICATION FairSpec
INVARIANT SubfoldersFollowed
INVARIANT NoStrayWatch
INVARIANT UnwatchForgets
PROPERTY EveryRequestAnswered
CHECK_DEADLOCK FALSE
