\* An undecodable frame followed by a good one.
SPECIFICATION LongSpec
CONSTANTS
    NGw = 1
    NDev = 1
    Route <- OneGateway
    Frames <- GarbageFrames
    OtherKinds = {}
    MaxPackets = 2
    CharIsSigned = TRUE
    FirstFCnt = 0
    W16 = 1
    W32 = 1
    MaxSigint = 0
    LaunchMayFail = FALSE
PROPERTIES
    AckedFrameIsHandled
CHECK_DEADLOCK FALSE
