SPECIFICATION FairSpec
CONSTANTS
    a = a
    None = None
    MaxLinks = 2
    Attached = 1
    Sends = {a}
    link_of <- OnFirst
    MaxRetries = 1
    MaxEpochs = 3
INVARIANTS
    SendsAccounted
    TopologyRestored

    
CHECK_DEADLOCK FALSE
