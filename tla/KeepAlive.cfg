\* A scaled period; the round trip may outlast the short sleep.
SPECIFICATION Spec
CONSTANTS
    Short = 6
    Long = 6
    Receive = 12
    Pause = 4
    Lag = 1
    MinTrip = 6
    MaxTrip = 7
    MaxBacklog = 1
INVARIANTS
    TypeOK
    ConnectedOnceAnswered
    SilenceNoticed
    StopsInTime
PROPERTIES
    StaysConnected
CHECK_DEADLOCK FALSE
