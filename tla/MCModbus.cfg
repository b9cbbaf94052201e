CONSTANTS
    WordBits = 2
    AdrSpace = 4
    Kinds <- MCKinds
    Sets = {1, 6}
    Address = 0
    Scale = 2
    Offset = 0
    Foreign <- MCForeign
    ErrorLimit = 0
    MaxFlight = 2
    MaxQueue = 1
    MaxEvents = 2
SPECIFICATION Spec
INVARIANTS ServerAgrees
PROPERTIES ReadsRecent  
CHECK_DEADLOCK FALSE
