SPECIFICATION FairSpec
CONSTANTS
    Self = "self"
    Pushes <- MCPushes
    Corpus <- MCCorpus
    Pages <- MCPages
    Stored <- MCStored
    MaxIncidents = 2
INVARIANTS
    TypeOK
    PushesAcked
    OnlyLookupsLate
    OfflineReplaysLive
    NoSelfVisit
PROPERTIES
    EventsSettle
    SyncCompletes
    SendsArrive
CHECK_DEADLOCK FALSE
