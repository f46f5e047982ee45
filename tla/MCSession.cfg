SPECIFICATION Spec
CONSTANTS
    AddrLen = 2
    CharSigned = TRUE
    ValBase = 65536
    Word = 4
    W16 = 65536
    BlockLen = 2
    Files <- MCFiles
    DeviceCount = 2
    Downlinks <- MCDownlinks
    Cuts = {0, 3, 5, 6, 7, 8, 9, 10, 13, 14, 15, 16, 17, 18, 19, 20}
    Payload <- MCPayload
    Absent = Absent
INVARIANTS
    TypeOK
    TextCarriesFrame
    UplinkIsRead
    HandledIsAuthentic
    GenuineIsHandled
CHECK_DEADLOCK FALSE
