SPECIFICATION Spec
CONSTANTS
    None = None
    Node = {1, 2}
    Policies <- SomePolicies
    MaxMsgs = 2
    MaxSubs = 1
    MaxDemand = 1
INVARIANTS
    ConfirmedReplicated
    ViewExact
CHECK_DEADLOCK FALSE
