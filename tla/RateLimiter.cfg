SPECIFICATION Spec
CONSTANTS
    Request = {r1, r2, r3, r4}
    Key = {k1, k2}
    NoKey = NoKey
    Limit = 2
    Window = 3
    MaxTime = 4
SYMMETRY Symmetry
INVARIANTS
    TypeOK
    WindowLimit
PROPERTY
    RefusalJustified
CHECK_DEADLOCK FALSE
