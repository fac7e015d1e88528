SPECIFICATION Spec
CONSTANTS
    c1 = c1
    c2 = c2
    Callers = {c1, c2}
    NoCaller = NoCaller
    Operations = {"call"}
    MaxID = 4
    PipeCap = 1
    MaxAnswers = 2
    OwnIDs = {2}
    MaxOwn = 0
    MayCrash = TRUE
SYMMETRY CallerSymmetry
CHECK_DEADLOCK FALSE
INVARIANTS TypeOK ReplyIsOwn PendingExact HandshakeFirst ReaderBlocksOnlyOnRepeat
PROPERTIES NoSecondHandshake OnlyContextEndsOrphans
