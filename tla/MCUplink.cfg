\* Two devices send three frames, with tokens that may collide, over a
\* network that loses, delays, reorders and repeats one acknowledgement.
SPECIFICATION Spec
CONSTANTS
    Users = {u1, u2}
    NoUser = NoUser
    Tokens = {t1, t2}
    MaxFrames = 3
    MaxCopies = 1
SYMMETRY Symmetry
INVARIANTS
    AckedWasReceived
    FalseAckOnlyAfterLate
    InvalidOnlyAfterLate
    BacklogPaidByTimeouts
CHECK_DEADLOCK FALSE
