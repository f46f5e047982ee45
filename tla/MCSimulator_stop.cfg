\* Two devices that use two gateways in opposite order; one SIGINT, no
\* downlinks.
SPECIFICATION Spec
CONSTANTS
    NGw = 2
    NDev = 2
    Route <- OppositeOrder
    Frames <- GoodFrames
    OtherKinds = {}
    MaxPackets = 0
    CharIsSigned = TRUE
    FirstFCnt = 0
    W16 = 1
    W32 = 1
    MaxSigint = 1
    LaunchMayFail = FALSE
INVARIANTS
    TypeOK
    OnePushAfterStop
    NoUseAfterDestroy
    WaitsHoldingNothing
CHECK_DEADLOCK FALSE
