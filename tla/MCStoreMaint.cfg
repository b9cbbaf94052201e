\* Mirrors leave wrong hashes behind and maintenance repairs them.
SPECIFICATION Spec
CONSTANTS
    Node <- MCNode
    PType <- MCPType
    RawKey <- MCRawKey
    Text <- MCText
    Value <- MCValue
    MaxTime = 1
    Root = "r"
    Admin = "a"
    AdminPoints <- MCAdminPoints
    Writes <- MirrorWrites
    MaxWrites = 4
INVARIANTS
    MaintConverges
    NoSpuriousFix
