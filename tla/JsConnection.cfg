SPECIFICATION FairSpec
CONSTANTS
    MaySleep = TRUE
    MaxBeats = 3
    MaxHandlers = 3
    MaxScripts = 2
INVARIANTS
    TypeOK
    NothingOutlives
    ConnectedIsStarted
    SessionHasHeartbeat
    SentCanBeAnswered
PROPERTIES
    PageSpec
    AttemptsEnd
