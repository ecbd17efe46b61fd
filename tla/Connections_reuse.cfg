SPECIFICATION Spec
CONSTANTS
    Peer = {p, q}
    Conn = {c1, c2}
    Req = {}
    Dial = {d1}
    Known = {p, q}
    Answers <- ReusedAddress
    MaxAttempts = 2
    Calls = {}
    MaxExternal = 1
    MaxBadRequests = 1
    SharedEndpoint = TRUE
    None = None
SYMMETRY Symmetry
INVARIANT EntryHandled
CHECK_DEADLOCK FALSE
