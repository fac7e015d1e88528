SPECIFICATION Spec
CONSTANTS
    Default <- MCDefault
    Largest <- MCLargest
    Worlds <- MCWorlds
    Calls <- MCCalls
    MaxContinuations = 3
INVARIANT AutoPagination
