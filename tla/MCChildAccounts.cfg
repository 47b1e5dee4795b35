\* Two devices, two PINs: the lockout and the sessions.
SPECIFICATION Spec
CONSTANTS
    Devices = {d1, d2}
    Threshold = 2
    Duration = 2
    ChildTTL = 2
    ParentTTL = 3
    VerifyTTL = 1
    MaxTime = 3
    MaxSessions = 2
    MaxLogins = 4
    MaxPins = 2
    MaxSignOuts = 1
SYMMETRY DeviceSymmetry
INVARIANTS
    TypeOK
    LockoutExact
    ServedChildIsVerified
    SignedOutEverywhere
CHECK_DEADLOCK FALSE
