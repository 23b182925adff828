SPECIFICATION Spec
CONSTANTS
    Cases <- FoldedCases
    Elements = {1, 2, 3}
    Hash <- FoldedHash
    Width = 4
CHECK_DEADLOCK FALSE
INVARIANTS
    RangeIsSorted

