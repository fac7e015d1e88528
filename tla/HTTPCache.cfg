SPECIFICATION Spec
CONSTANTS
    k1 = k1
    k2 = k2
    k3 = k3
    t1 = t1
    t2 = t2
    Keys = {k1, k2, k3}
    Trips = {t1, t2}
    MaxEntries = 2
    MaxChanges = 1
SYMMETRY Symmetry
INVARIANTS TypeOK LeastRecentlyUsed ETagMatchesBody
PROPERTIES AnswerWasCurrent NeverGoesBack
