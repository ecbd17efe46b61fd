SPECIFICATION FairSpec
CONSTANTS
    a = a
    b = b
    Side <- TwoSides
    Other <- Opposite
    MaxAttempts = 2
    Capacity = 1
    MaxLost = 1
    MaxStray = 1
INVARIANTS TypeOK SuccessIsMutual AckNotForgotten
CHECK_DEADLOCK FALSE
PROPERTY BothSucceed
