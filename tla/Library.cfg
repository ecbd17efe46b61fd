SPECIFICATION FairSpec
CONSTANTS
    None = None
    Slot = {1, 2}
    Directories <- ThreeDirectories
    Trees <- Walks
    TokenRank <- Ranks
    Numerals <- Numbers
    SizeMod = 64
    Call = {1, 2}
    Read = {1, 2}
    Queries <- AllQueries
    Portions <- SomePortions
    ChunkSize = 2
    Capacity = 1
    Window = 1
    Sessions <- AllSessions
INVARIANTS TypeOK  FilesResolve ListingComplete
PROPERTIES OthersUntouched EveryCallEnds EveryReadEnds
CHECK_DEADLOCK FALSE
