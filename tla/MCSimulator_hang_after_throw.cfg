\* Where char is signed, confirmed data ends the downlink thread of one of two
\* devices by an exception.
SPECIFICATION Spec
CONSTANTS
    NGw = 2
    NDev = 2
    Route <- SeparateGateways
    Frames <- ThrowingFrame
    OtherKinds = {}
    MaxPackets = 1
    CharIsSigned = TRUE
    FirstFCnt = 0
    W16 = 1
    W32 = 1
    MaxSigint = 0
    LaunchMayFail = FALSE
INVARIANTS
    NoOrphanLeft
CHECK_DEADLOCK FALSE
