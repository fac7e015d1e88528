SPECIFICATION Spec
CONSTANTS
    p1 = p1
    p2 = p2
    a = a
    b = b
    Procs = {p1, p2}
    Contents = {a, b}
    Names = {1, 2}
    CacheSize = 1
    MaxVersions = 2
    NotFound = NotFound
    NoRequest = NoRequest
    Nobody = Nobody
SYMMETRY Symmetry
INVARIANTS TypeOK CacheCoherent VersionsContiguous ChosenVersionExists
PROPERTIES ImplementsStore
