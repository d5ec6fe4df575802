SPECIFICATION FairSpec
CONSTANTS
    s1 = s1
    s2 = s2
    NoSocket = NoSocket
    Sockets <- MCSockets
    MaxAttempt = 1
    Frames <- MCFrames
INVARIANTS
    TypeOK
    SingleConnection
    HeartbeatKept
    JoinNamesUser
PROPERTIES
    CloseHeals
    ImplementsUpstream
CHECK_DEADLOCK FALSE
