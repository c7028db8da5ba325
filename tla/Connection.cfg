CONSTANTS
    Scenarios <- AllScenarios
    Sessions = {1, 2, 3}
SPECIFICATION FairSpec
INVARIANTS
    EstablishedAgree
    
    
PROPERTIES
    Settles
CHECK_DEADLOCK FALSE
