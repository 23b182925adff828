SPECIFICATION Spec
CONSTANTS
  NumUnits = 3
  Handles = {0, 1, 2, 3, 4}
  MaxTeams = 5
  MaxLocks = 1
  MaxPools = 3
  MaxItems = 1
  AsyncP2P = TRUE
  Fragile <- MCFragile
  Programs <- MCPrograms
CHECK_DEADLOCK FALSE
INVARIANTS
  NobodyReturnsEarly
  PipesExistWhenOpened
  CollectivesDeliver
  TeamsAgree
  GlobalPointersResolve

  
