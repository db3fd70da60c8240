SPECIFICATION FairSpec
CONSTANTS
  None = None
  Names = {"a"}
  Specs <- MCSpecs
  Worlds <- MCWorlds
  Asks <- ReadsSecret
  Judge <- Ready
  Ops = {"delete", "world", "restart", "apiError"}
  MaxOps = 4
INVARIANTS TypeOK StatusDescribesSpec ObservedAtRest
PROPERTY ReadyTracksToken
CHECK_DEADLOCK FALSE
