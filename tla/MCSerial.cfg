CONSTANTS
    MaxMessageLength = 8
    SeqNums = 6
    Blocks = {1}
    Scopes <- MCScopes
SPECIFICATION Spec
INVARIANTS AcksTrue
PROPERTIES  FileIntact PortFollows
CHECK_DEADLOCK FALSE
