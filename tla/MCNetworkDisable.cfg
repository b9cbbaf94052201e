\* The client is disabled while a sync is to come.
CONSTANTS
    Conn = {"c", "e"}
    Fields = {0, 1}
    Scopes <- MCScopes
    MaxQueue = 2
SPECIFICATION Spec
INVARIANT NeverPanics
CHECK_DEADLOCK FALSE
