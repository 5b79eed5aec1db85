CONSTANTS
    s1 = s1
    s2 = s2
    Sessions = {s1, s2}
    NoSession = NoSession
    ScopeSize = 2
    Required <- MCRequired
    Statements <- MCReturning
    AutoCommit = TRUE
    Legacy = FALSE
    MaxCalls = 1
    MaxAbandoned = 0
SPECIFICATION FairSpec
CHECK_DEADLOCK FALSE
PROPERTIES
    CallsReturn
