SPECIFICATION FairSpec
CONSTANTS
    Queries <- MCQueries
    Plans <- MCPlans
    Known = {"files", "issues", "execute_tool"}
    AllowLocal = {"files", "issues"}
    AllowUpstream = {}
    Paged = {"files"}
    Pages = 3
    MaxContinuations = 3
    StepCap = 4
    ParallelCap = 3
    DefaultSteps = 3
INVARIANTS TypeOK ResultsFollowSteps NothingAfterFailure ConcurrentOnlyWithinGroup PagesComplete ManifestComplete OnlyValidStepsRun
PROPERTY QueryAnswered
