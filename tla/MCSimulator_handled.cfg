\* Two data frames, one with a counter wider than the wire.
SPECIFICATION LongSpec
CONSTANTS
    NGw = 1
    NDev = 1
    Route <- OneGateway
    Frames <- HandledFrames
    OtherKinds = {}
    MaxPackets = 2
    CharIsSigned = TRUE
    FirstFCnt = 0
    W16 = 2
    W32 = 4
    MaxSigint = 0
    LaunchMayFail = FALSE
INVARIANTS
    CounterOfAcceptedFrame
PROPERTIES
    AckedFrameIsHandled
CHECK_DEADLOCK FALSE
