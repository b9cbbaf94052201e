\* Clients build one tree; transactions may fail and the process may restart.
SPECIFICATION FairSpec
CONSTANTS
    Node <- MCNode
    PType <- MCPType
    RawKey <- MCRawKey
    Text <- MCText
    Value <- MCValue
    MaxTime = 2
    Root = "r"
    Admin = "a"
    AdminPoints <- MCAdminPoints
    NodeMsgs <- TreeNodeMsgs
    EdgeMsgs <- TreeEdgeMsgs
    Requests = {}
    TreesOnly = TRUE
    MayFail = TRUE
INVARIANTS
    TypeOK
    HashInv
    AckedDurable
    

    
    
