SPECIFICATION FairSpec
CONSTANTS
    Units = {u1, u2}
    HashSize = 2
    MaxSegId = 3
    Sizes = {0, 1}
    MaxCalls = 5
INVARIANTS SegIdsAgree LiveSegmentIsFound RemoteAccessIsAttached
CHECK_DEADLOCK FALSE
PROPERTIES CallsReturn
