SPECIFICATION FairSpec
CONSTANTS
  EndOfTime = 3
  OpsLimit = 2
  MaxEdits = 2
  MaxFaults = 1
INVARIANTS TypeOK NothingBeforeStart OneSnapshot
PROPERTIES ServerCatchesUp StaleIsTold
