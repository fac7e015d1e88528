SPECIFICATION Spec
CONSTANTS
    Default <- MCDefault
    Largest <- MCLargest
    Worlds <- MCWorlds
    Calls <- MCCalls
    MaxContinuations = 3
INVARIANTS TypeOK PagesInOrder SilenceMeansEnd CompleteMeansComplete NoSilentFailure ExportAccountsForAll
