\* Requests run between the steps of the writing handlers.
SPECIFICATION Spec
CONSTANTS
    Node <- MCNode
    PType <- MCPType
    RawKey <- MCRawKey
    Text <- MCText
    Value <- MCValue
    MaxTime = 2
    Root = "r"
    Admin = "a"
    AdminPoints <- MCAdminPoints
    NodeMsgs <- ReadNodeMsgs
    EdgeMsgs <- ReadEdgeMsgs
    Requests <- ReadRequests
    TreesOnly = FALSE
    MayFail = FALSE
INVARIANT
    AnswersFresh
