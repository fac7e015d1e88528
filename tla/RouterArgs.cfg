SPECIFICATION Spec
CONSTANTS
    Queries <- NullQueries
    Plans <- MCPlans
    Known = {"files", "issues", "execute_tool"}
    AllowLocal = {"files", "issues"}
    AllowUpstream = {}
    Paged = {"files"}
    Pages = 3
    MaxContinuations = 3
    StepCap = 4
    ParallelCap = 3
    DefaultSteps = 3
INVARIANT ArgsAreObjects
