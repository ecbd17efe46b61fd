SPECIFICATION FairSpec
CONSTANTS
    hub = hub
    a = a
    b = b
    None = None
    Node <- ThreeNodes
    Networks <- Meetings
    Rank <- HubFirst
    LanRank <- HubLast
    ServerAddress <- Servers
    MaxAttempts = 1
    MaxConns = 3
INVARIANTS TypeOK  OneSideDials  Introduced
 
CHECK_DEADLOCK FALSE
