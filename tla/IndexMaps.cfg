SPECIFICATION Spec
CHECK_DEADLOCK FALSE
CONSTANTS
    Shapes <- MCShapes
    Dists <- MCDists
    Teams <- MCTeams
    Offsets <- MCOffsets
    Sizes <- MCSizes
INVARIANTS
    RoundTrip
    StorageIsExact
    BlocksHoldElements
    
