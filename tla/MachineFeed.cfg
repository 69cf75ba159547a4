SPECIFICATION FairFeedSpec
CONSTANTS
    vm = vm
    Machine <- Machines
    MaxTasks = 2
    MaxWire = 1
CHECK_DEADLOCK FALSE
INVARIANTS
    FeedTypeOK
    DeletionComesLast
PROPERTIES
    DeletedDisappears
    DisplayConverges
