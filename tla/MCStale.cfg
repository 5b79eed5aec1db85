CONSTANTS
    Answers <- MCAnswers
    MaxRuns = 3
    MaxColno = 2
    ScopeMax = 4
SPECIFICATION ConnectionSpec
CHECK_DEADLOCK FALSE
INVARIANT OwnMessageOnly
