\* Two downlink datagrams: data, a PULL_ACK, and a frame that ends the downlink
\* thread of the device by an exception; two SIGINTs, and
\* launches that fail.
SPECIFICATION FairSpec
CONSTANTS
    NGw = 1
    NDev = 1
    Route <- OneGateway
    Frames <- DownlinkFrames
    OtherKinds = {"pull_ack"}
    MaxPackets = 2
    CharIsSigned = TRUE
    FirstFCnt = 0
    W16 = 1
    W32 = 1
    MaxSigint = 2
    LaunchMayFail = TRUE
INVARIANTS
    AbandonedOnlyAfter
    OneGetAfterClose
    PullFailsOnlyInStop
    JoinedBeforeReturn
PROPERTIES
    TerminatesUnlessAbandoned
CHECK_DEADLOCK FALSE
