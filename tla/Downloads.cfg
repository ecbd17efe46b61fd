SPECIFICATION Spec
CONSTANTS
    r1 = r1
    r2 = r2
    Request = {r1, r2}
    File <- TwoFiles
    Size <- SmallSizes
    Wants <- DirectoryAndFile
    Conn = {c1, c2}
    Second = {1, 2}
    QuietBacklog = TRUE
    Overlap = FALSE
    MaxErrors = 1
    MaxCrashes = 0
    None = None
INVARIANTS TypeOK  
CHECK_DEADLOCK FALSE
