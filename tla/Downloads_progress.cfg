SPECIFICATION Spec
CONSTANTS
    r1 = r1
    r2 = r2
    Request = {r1}
    File <- TwoFiles
    Size <- SmallSizes
    Wants <- Directory
    Conn = {c1, c2}
    Second = {1}
    QuietBacklog = FALSE
    Overlap = FALSE
    MaxErrors = 0
    MaxCrashes = 0
    None = None
INVARIANT ProgressWithinTotal
CHECK_DEADLOCK FALSE
