SPECIFICATION Spec
CONSTANTS
    Fingers <- FourFingers
    minimumFingerprintsRequired = 2
    MaxCaptures = 2
    MaxPending = 1
    MaxSaves = 1
    MaxAttempts = 4
    MaxEntries = 5
INVARIANT AbsenceStands
CHECK_DEADLOCK FALSE
