SPECIFICATION Spec
CONSTANTS
    Requests = {r1, r2, r3}
    Menu <- MCMenu
    Seeded <- MCSeeded
    MaxFailed = 2
SYMMETRY Symmetry
INVARIANT KeysAreUnique
INVARIANT TrailTellsTheRows
INVARIANT LossOnlyFromARace
INVARIANT AttemptsAreCounted
