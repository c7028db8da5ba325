SPECIFICATION Spec
CONSTANTS
    Configs <- SomeConfigs
    Commands <- SomeCommands
INVARIANTS
    
    StateIsReplay
    
CHECK_DEADLOCK FALSE
