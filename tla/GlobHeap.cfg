SPECIFICATION Spec
CHECK_DEADLOCK FALSE
CONSTANTS
    NUnits = 2
    InitSize = 2
    GrowSizes = {1, 2}
    MaxCommits = 2
    MaxOps = 3
INVARIANTS
    BooksAreBalanced
    SizesAgree
    AddressesResolve
PROPERTY
    CommitsReturn
