CONSTANTS
  MaxEntries = 1
  MaxDay = 0
  Chatty <- ChattyConfigs
  Configs <- FewConfigs
SPECIFICATION FairProcess
INVARIANT RuntimeErrorIsLogged
CHECK_DEADLOCK FALSE
