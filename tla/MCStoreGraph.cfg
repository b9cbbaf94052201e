\* Clients mirror and move nodes, try to close cycles and install a second root.
SPECIFICATION Spec
CONSTANTS
    Node <- MCNode
    PType <- MCPType
    RawKey <- MCRawKey
    Text <- MCText
    Value <- MCValue
    MaxTime = 2
    Root = "r"
    Admin = "a"
    AdminPoints <- MCAdminPoints
    NodeMsgs <- GraphNodeMsgs
    EdgeMsgs <- GraphEdgeMsgs
    Requests = {}
    TreesOnly = FALSE
    MayFail = FALSE
INVARIANTS
    Dag
    RootAlive
    UpstreamComplete
VIEW
    NoHistory
