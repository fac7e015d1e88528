SPECIFICATION Spec
CONSTANTS
    l1 = l1
    l2 = l2
    c1 = c1
    c2 = c2
    Languages = {l1, l2}
    Callers = {c1, c2}
    MaxLives = 3
SYMMETRY Symmetry
INVARIANTS ClosedMeansClean
