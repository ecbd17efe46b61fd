SPECIFICATION Spec
CONSTANTS
    Peer = {p}
    Conn = {c1, c2}
    Req = {r1}
    Dial = {d1}
    Known = {p}
    Answers <- OwnAddress
    MaxAttempts = 2
    Calls = {"disconnect"}
    MaxExternal = 0
    MaxBadRequests = 0
    SharedEndpoint = TRUE
    None = None
INVARIANT DisconnectSuppressesReconnects
CHECK_DEADLOCK FALSE
