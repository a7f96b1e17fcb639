CONSTANTS
    Elems = {e, f, g}
    Anims = {a, b, c}
    Deferreds = {a, b, c, p}
    Counted = {p}
    NoDeferred = none
    MaxObjects = 1
    MaxCalls = 5
SPECIFICATION Spec
SYMMETRY Symmetry
CHECK_DEADLOCK FALSE
INVARIANTS
    EmptiedIsTold
