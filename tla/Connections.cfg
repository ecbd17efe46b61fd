SPECIFICATION Spec
CONSTANTS
    Peer = {p}
    Conn = {c1, c2}
    Req = {r1}
    Dial = {d1, d2}
    Known = {p}
    Answers <- OwnAddress
    MaxAttempts = 2
    Calls = {"connect", "disconnect", "shutdown"}
    MaxExternal = 1
    MaxBadRequests = 0
    SharedEndpoint = TRUE
    None = None
SYMMETRY Symmetry
INVARIANTS TypeOK ServedIsListed OneDialPerName NoneLeftOpen ClosedForGood
PROPERTY ImplementsPeerTable
CHECK_DEADLOCK FALSE
