SPECIFICATION FairSpec
CONSTANTS
    r1 = r1
    r2 = r2
    Request = {r1}
    File <- TwoFiles
    Size <- SmallSizes
    Wants <- Directory
    Conn = {c1, c2}
    Second = {1}
    QuietBacklog = TRUE
    Overlap = FALSE
    MaxErrors = 1
    MaxCrashes = 1
    None = None
INVARIANTS LeavesWhenReceived ResumesSeamlessly ProgressBounded
PROPERTY QueuedIsFetched
CHECK_DEADLOCK FALSE
