SPECIFICATION FairSpec
CONSTANTS
    d1 = d1
    d2 = d2
    Disk <- TwoDisks
    Count = 3
CHECK_DEADLOCK FALSE
INVARIANTS
    RowsHaveMachines
    UndoIsThorough
PROPERTIES
    NothingAfterSuccess
    IsAtomic
    CreationAnswered
