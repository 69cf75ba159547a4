SPECIFICATION FairSpec
CONSTANTS
    u1 = u1
    u2 = u2
    Upload <- TwoUploads
    Chunks = 2
    NoFile = NoFile
INVARIANTS
    RecordedFileIsComplete
    TimerGuardsIdleFile
PROPERTY
    TempReclaimed
