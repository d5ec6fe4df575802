SPECIFICATION Spec
CONSTANTS
    Sessions = {a, b, c}
    Generations = {g1, g2, g3}
    None = None
SYMMETRY Interchangeable
INVARIANT
    AtMostOneUpstream
CHECK_DEADLOCK FALSE
