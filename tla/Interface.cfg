SPECIFICATION Spec
CONSTANTS
  ann = ann
  bob = bob
  Peer = {ann, bob}
  Self = "me"
  Tree <- Shared
  Dirs <- SomeDirs
  MaxReq = 2
  MaxQueue = 3
  Sessions <- AllSessions
  None = None
INVARIANTS TypeOK ListsShown   
PROPERTY SnapshotsOnlyAdvance
CHECK_DEADLOCK FALSE
