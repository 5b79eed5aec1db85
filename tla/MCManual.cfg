CONSTANTS
    s1 = s1
    s2 = s2
    s3 = s3
    Sessions = {s1, s2, s3}
    NoSession = NoSession
    ScopeSize = 1
    Required <- MCRequired
    Statements <- MCManual
    AutoCommit = FALSE
    Legacy = TRUE
    MaxCalls = 2
    MaxAbandoned = 1
SPECIFICATION Spec
SYMMETRY MCSymmetry
CHECK_DEADLOCK FALSE
INVARIANTS
    PictureSound
    OlderEngineNotAsked
PROPERTIES
    ScopeFirst
    RepairsOnlyTheClean
