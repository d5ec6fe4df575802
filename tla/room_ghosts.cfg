SPECIFICATION GhostSpec
CONSTANTS
    Sessions = {a, b}
    CcSessions = {}
    Requests = {r1, r2}
    Counters = {n1, n2}
    Connectors = {c1}
    Sinks = {k1, k2}
    CcSinks = {}
    None = None
    Watcher = a
    Ghosts = {u}
SYMMETRY Symmetry
INVARIANTS
    GhostsReplayed
    CounterReleased
CHECK_DEADLOCK FALSE
