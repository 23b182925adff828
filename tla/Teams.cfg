SPECIFICATION MCSpec
CONSTANTS
    Units = {0, 1, 2}
    HashSize = 8
    MaxOps = 3
    PoolSize = 1
    NullGroups = TRUE
    LocksOutliveTeam = FALSE
    NumUnits = 3
    NumHandles = 4
    GroupTeams = {{0, 1, 2}, {1, 2}}
    Parts = {1, 2, 3}
    LocalityParts = {2, 3}
    Hosts = {{0, 2}, {1}}
INVARIANTS IdsIdentifyTeams  
  
CHECK_DEADLOCK FALSE
