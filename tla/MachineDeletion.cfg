SPECIFICATION DeletionSpec
CONSTANTS
    r1 = r1
    r2 = r2
    p1 = p1
    p2 = p2
    d1 = d1
    d2 = d2
    Request <- TwoRequests
    Port <- TwoPorts
    Disk <- TwoDisks
    NoTask = NoTask
    NoPort = NoPort
    FlagCount = 1
    PollLimit = 1
SYMMETRY DeletionSymmetry
INVARIANTS
    DeleteAnnouncedOnce
    OneTaskUnlessStolen
    CommitIsTruthful
    RowMatchesMachine
PROPERTY
    NoSilentOrphan
