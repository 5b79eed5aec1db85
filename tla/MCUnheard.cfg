CONSTANTS
    s1 = s1
    s2 = s2
    s3 = s3
    Sessions = {s1, s2, s3}
    NoSession = NoSession
    ScopeSize = 2
    Required <- MCRequired
    Statements <- MCStatements
    AutoCommit = TRUE
    Legacy = FALSE
    MaxCalls = 2
    MaxAbandoned = 1
SPECIFICATION Spec
SYMMETRY MCSymmetry
CHECK_DEADLOCK FALSE
PROPERTY
    LossNeverRepairedOver
