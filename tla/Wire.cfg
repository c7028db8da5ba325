SPECIFICATION Spec
CONSTANTS
    Plans <- AllPlans
    BODY_SEGMENT_THRESHOLD = 64
    ReadSizes = {1, 61}
INVARIANTS
    
    MessagesExact
CHECK_DEADLOCK FALSE
