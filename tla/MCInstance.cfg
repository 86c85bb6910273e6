CONSTANTS
  Missing = Missing
  TimerLimit = 1
  Route = {k1}
  MaxOutages = 1
  MaxPublished = 1
  Env <- MCEnv
  Followed <- MCFollowed
SPECIFICATION FairSpec
CHECK_DEADLOCK FALSE
INVARIANTS
  TypeOK
  ConfigFits
PROPERTIES
  
  NothingHangs
