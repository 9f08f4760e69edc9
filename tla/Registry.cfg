SPECIFICATION Spec
CONSTANTS
    e1 = e1
    e2 = e2
    Exec = {e1, e2}
    MaxSets = 3
SYMMETRY Symmetry
INVARIANTS
    UndisturbedIsPersisted
    RecoveredIsLatest
