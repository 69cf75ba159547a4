SPECIFICATION Spec
CONSTANTS
    a = a
    b = b
    None = None
    Mixed = Mixed
    Self = a
    Account <- MCAccount
    MaxRequests = 2
INVARIANTS SettledFlowIsOfSelected SavedToItsAccount
PROPERTIES LostChangesWereWarned
