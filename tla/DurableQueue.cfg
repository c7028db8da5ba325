SPECIFICATION FairSpec
CONSTANTS
    None = None
    Policies <- SomePolicies
    len <- Lengths
    MaxMsgs = 2
    MaxSubs = 1
    MaxDemand = 1
    MaxFailures = 1
    MaxTime = 1
    MaxAborts = 1
    MaxCrashes = 1
INVARIANTS
    ConfirmedSurvives
    MemoryMatchesDisk
PROPERTIES
    Resolves
CHECK_DEADLOCK FALSE
