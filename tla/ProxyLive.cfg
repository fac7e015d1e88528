SPECIFICATION FairSpec
CONSTANTS
    c1 = c1
    c2 = c2
    Callers = {c1, c2}
    NoCaller = NoCaller
    Operations = {"call"}
    MaxID = 4
    PipeCap = 1
    MaxAnswers = 1
    OwnIDs = {2}
    MaxOwn = 1
    MayCrash = TRUE
CHECK_DEADLOCK FALSE
PROPERTIES CancelledCallReturns OperationReturns
