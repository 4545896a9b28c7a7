SPECIFICATION Spec
CONSTANTS
    MaySleep = TRUE
    MaxBeats = 2
    MaxHandlers = 2
    MaxScripts = 1
INVARIANT HeartbeatOfSession
