CONSTANTS
  MaxEntries = 2
  MaxDay = 1
  Chatty <- ChattyConfigs
  Configs <- AllConfigs
SPECIFICATION FairProcess
INVARIANT FilesInOrder
INVARIANT FlushedAtEnd
INVARIANT WatchesOnlyWhatWasChecked
INVARIANT FailuresAreTold
PROPERTY ShutdownEnds
PROPERTY UsesLoggerRight
PROPERTY StopEnds
CHECK_DEADLOCK FALSE
