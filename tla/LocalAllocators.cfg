SPECIFICATION MCSpec
CONSTANTS
    PoolBytes = 64
    Requests = {0, 8, 9, 64, 65}
    WordSize = 4096
    BucketBytes = 5
    BucketRequests = {0, 1, 2}
    MaxEntries = 5
INVARIANTS BlocksAreExact
PROPERTIES  OperationReturns
CHECK_DEADLOCK FALSE
