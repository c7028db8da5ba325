SPECIFICATION FairSpec
CONSTANTS
    None = None
    max_len = 2
    max_bytes = 2
    drop_head = TRUE
    ttl_ms = 1
    max_attempts = 1
    BodySizes = {1, 2}
    MaxMsgs = 3
    MaxSubs = 1
    MaxDemand = 1
    MaxSlots = 1
    MaxFailures = 1
    MaxTime = 1
INVARIANTS
    Conservation
    BytesExact
    

    
