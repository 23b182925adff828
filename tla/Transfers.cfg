SPECIFICATION MCSpec
CONSTANTS
    Ops = {o1, o2}
    Remote = {"r1", "r2"}
    Near = {"self"}
    Lengths = {0, 2}
    TestsOneByOne = TRUE
    Kinds = {"put", "get", "accumulate", "bcast", "scatter", "gather", "allgather"}
    MaxContig = 3
    MaxElems = 7
    ElemSizes = {1, 2}
    NumUnits = 2
    UnitArgs = {0, 1, 3}
INVARIANTS PromisesAreKept RequestsAreExact WholeTransferInRange
PROPERTIES PollingEnds
