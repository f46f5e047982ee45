\* A downlink frame received while the simulation is being stopped.
SPECIFICATION Spec
CONSTANTS
    NGw = 1
    NDev = 1
    Route <- OneGateway
    Frames <- GoodFrames
    OtherKinds = {}
    MaxPackets = 1
    CharIsSigned = TRUE
    FirstFCnt = 0
    W16 = 1
    W32 = 1
    MaxSigint = 0
    LaunchMayFail = FALSE
INVARIANTS
    GracefulStop
CHECK_DEADLOCK FALSE
