\* Starts and resets that are cut short, of a new database and of an old one.
SPECIFICATION FairSpec
CONSTANTS
    GivenIDs = {0, 1}
    Legacy = TRUE
    Resets = {"no", "wanted"}
    MaxCrashes = 3
    MaxID = 24
INVARIANTS
    MetaStored
PROPERTIES
    IdentityKept
    ComesUp
CHECK_DEADLOCK FALSE
