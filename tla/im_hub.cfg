SPECIFICATION Spec
CONSTANTS
    Sessions = {a, b, c}
    Generations = {g1, g2, g3}
    None = None
SYMMETRY Interchangeable
INVARIANTS
    TypeOK
    FieldsReleased
    OneUpstreamUnlessCollided
    ClosedUnlessCollided
    ServedUnlessCollided
CHECK_DEADLOCK FALSE
