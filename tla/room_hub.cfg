SPECIFICATION RosterSpec
CONSTANTS
    Sessions = {a, b}
    CcSessions = {a, b}
    Requests = {r}
    Counters = {n1, n2}
    Connectors = {c1, c2}
    Sinks = {k1, k2, k3}
    CcSinks = {q1, q2}
    None = None
    Watcher = a
    MaxRevision = 2
SYMMETRY Symmetry
CONSTRAINT UntilCollision
INVARIANTS
    RosterTypeOK
    ReconcileUnlessCollided
    ReleasedUnlessCollided
    KnownUnlessCollided
    ServedUnlessCollided
CHECK_DEADLOCK FALSE
