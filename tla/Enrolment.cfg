SPECIFICATION Spec
CONSTANTS
    Fingers <- FourFingers
    minimumFingerprintsRequired = 2
    MaxCaptures = 2
    MaxPending = 1
    MaxSaves = 1
    MaxAttempts = 4
    MaxEntries = 5
INVARIANTS
    TypeOK
    AnswersMatch
    FingerOnce
    ThreeAttempts
PROPERTIES
    FollowsRegister
CHECK_DEADLOCK FALSE
