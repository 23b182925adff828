SPECIFICATION Spec
CONSTANTS
    Cases <- MCCases
    Elements = {1, 2, 3}
    Hash <- MCHash
    Width = 4
CHECK_DEADLOCK FALSE
INVARIANTS
    RangeIsSorted
    PartitionsFit
PROPERTY
    SortReturns
