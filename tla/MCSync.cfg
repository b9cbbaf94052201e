CONSTANTS
    Node <- MCNode
    Parent <- MCParent
    Device = "d"
    SyncNode = "s"
    Local = {"d", "s", "a"}
    Written <- MCWritten
    Made <- MCMade
    Deleted <- MCDeleted
    MaxWrites = 2
    MaxDrops = 1
SPECIFICATION FairSpec
 
PROPERTIES Converges DeviceRestored
CHECK_DEADLOCK FALSE
