SPECIFICATION PageSpec
CONSTANTS
    c1 = c1
    c2 = c2
    NoOne = NoOne
    Order <- AOrder
    Existing <- AExisting
    Searches <- ASearches
    MaxRequests = 2
PROPERTY
    DeletesSelected
