\* Users and NetworkManager change connections, a device and flags; the client follows.
CONSTANTS
    Conn = {"c", "e"}
    Fields = {0, 1}
    Scopes <- MCScopes
    MaxQueue = 2
SPECIFICATION Spec
INVARIANT ConfigAgrees
PROPERTIES Untouched ConnsFollow DevicesFollow
CHECK_DEADLOCK FALSE
