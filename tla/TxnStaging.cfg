SPECIFICATION Spec
CONSTANTS
    m1 = m1
    m2 = m2
    Msg = {m1, m2}
    MAX_TXNS = 2
    MAX_STAGED = 2
    MAX_STAGED_BYTES = 3
    BodySizes = {1, 2}
    MaxDeclares = 2
    MaxPublishes = 2
    MaxSessions = 2
SYMMETRY MsgSymmetry
INVARIANTS
    StagingBounded
    CommitIsWhole
    NoSettlementLost
    AnswerReachesAsker
CHECK_DEADLOCK FALSE
