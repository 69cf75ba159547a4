SPECIFICATION Spec
CONSTANTS
    d1 = d1
    d2 = d2
    System = System
    Disk <- ADisk
    MaxForms = 2
    MaxClicks = 2
    MaxRequests = 2
SYMMETRY DiskSymmetry
INVARIANTS
    SystemDiskIsMarked
    SentIsValid
    AnswerClosesItsForm
    OneClickOneMachine
CHECK_DEADLOCK FALSE
