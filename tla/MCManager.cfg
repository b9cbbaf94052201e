\* A client below a group, its child, and a node that is created later.
SPECIFICATION FairSpec
CONSTANTS
    Root = "r"
    Group = {"g"}
    ClientNode = {"c", "d"}
    Child = {"k"}
    Edge <- MCEdge
    Born <- MCBorn
    Touched = {"c", "k"}
    Slot = {1, 2}
    MaxEvents = 2
INVARIANTS
    OneClient
    FreshUnlessMissed
PROPERTIES
    ClientsFollow
    StopEnds
CHECK_DEADLOCK FALSE
