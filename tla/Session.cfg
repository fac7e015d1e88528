SPECIFICATION Spec
CONSTANTS
    x = x
    y = y
    b = b
    s1 = s1
    s2 = s2
    Texts = {x, y, b}
    Binary = {b}
    Replaced = y
    Steps = {s1, s2}
    Calls <- MCCalls
    MaxLen = 2
    MaxSecond = 1
    InlineMax = 1
    MaxSteps = 3
    MaxRestarts = 1
SYMMETRY Symmetry
INVARIANTS TypeOK HandedOutStays
PROPERTY ReadIsWhole
CHECK_DEADLOCK FALSE
