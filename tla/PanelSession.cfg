SPECIFICATION FairSpec
CONSTANTS
    a = a
    Account <- Accounts
    MaxGrant = 2
    MaxInFlight = 2
CHECK_DEADLOCK FALSE
INVARIANTS
    DisabledHasNoSocket
PROPERTIES
    LogoutHasCause
    HandlerEndsWithToken
