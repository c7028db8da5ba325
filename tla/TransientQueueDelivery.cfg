SPECIFICATION Spec
CONSTANTS
    None = None
    max_len = 2
    max_bytes = 2
    drop_head = FALSE
    ttl_ms = None
    max_attempts = None
    BodySizes = {1}
    MaxMsgs = 3
    MaxSubs = 2
    MaxDemand = 1
    MaxSlots = 1
    MaxFailures = 0
    MaxTime = 0
INVARIANTS
    DepthBound
    ServesAll
    

    
