SPECIFICATION Spec
CONSTANTS
    None = None
    W = 16
    HandleMax = 1
    MaxUnsettled = 3
    Frames <- FramesOf
    Scenarios <- SomeScenarios
    Queues = {"a", "b"}
    Messages = {"m1", "m2", "m3", "m4", "x1", "y1"}
    Slack = 1
INVARIANTS
    FlowHonored
    NothingAstray
    HeldCarried
    
CHECK_DEADLOCK FALSE
