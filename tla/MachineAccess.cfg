SPECIFICATION Spec
CONSTANTS
    c1 = c1
    c2 = c2
    Client <- AClient
    MaxRequests = 2
    MaxWire = 1
SYMMETRY ASymmetry
INVARIANTS
    PermissionsMatchClients
    KnownIsCurrent
    SavedIsShown
