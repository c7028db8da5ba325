SPECIFICATION Spec
CONSTANTS
    None = None
    Consumers = {"k1", "k2"}
    Publishes = {"p1"}
    PublishAttempts = 2
    Scenarios <- SomeScenarios
INVARIANTS
    AcceptedCommitted
    NoOrphans
    CreditConserved
CHECK_DEADLOCK FALSE
