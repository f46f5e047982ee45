\* Counts up to three, each of them possibly absent from the file; more than
\* two devices are refused.
SPECIFICATION Spec
CONSTANTS
    Absent = Absent
    MaxDevices = 2
    Limit = 3
INVARIANTS
    AttachedMatchesRoutes
    TopologyReady
    UndefinedOnlyByDefault
CHECK_DEADLOCK FALSE
