SPECIFICATION Spec
CONSTANTS
    Self = "self"
    Pushes <- MCPushes
    Corpus <- MCCorpus
    Pages <- MCPages
    Stored <- MCStored
    MaxIncidents = 2
INVARIANT
    ExactlyOneEvent
CHECK_DEADLOCK FALSE
