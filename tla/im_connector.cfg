SPECIFICATION FairSpec
CONSTANTS
    s1 = s1
    s2 = s2
    NoSocket = NoSocket
    Sockets <- MCSockets
    MaxAttempt = 1
    MaxRelogins = 1
INVARIANTS
    TypeOK
    SingleConnection
    LiveSession
PROPERTIES
    CloseHeals
    CloseReachesSocket
CHECK_DEADLOCK FALSE
