SPECIFICATION FairSpec
CONSTANTS
    Peer = {p, q}
    Conn = {c1, c2}
    Req = {r1}
    Dial = {d1}
    Known = {p}
    Answers <- OwnAddress
    MaxAttempts = 2
    Calls = {"connect"}
    MaxExternal = 0
    MaxBadRequests = 0
    SharedEndpoint = FALSE
    None = None
PROPERTIES ClosedEntryLeaves PendingIsReleased ConnectIsAnswered
CHECK_DEADLOCK FALSE
