SPECIFICATION Spec
CONSTANTS
    c1 = c1
    c2 = c2
    Callers = {c1, c2}
    NoCaller = NoCaller
    Operations = {"call"}
    MaxID = 4
    PipeCap = 1
    MaxAnswers = 2
    MayCrash = TRUE
    OwnIDs = {1}
    MaxOwn = 1
INVARIANT ReplyIsResponse
CHECK_DEADLOCK FALSE
