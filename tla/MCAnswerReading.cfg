CONSTANTS
    Addresses = 2
    HeadLength = 2
    BodyLength = 2
    Timeout = TRUE
    MaxDepth = 2
    Servers <- MCServers
SPECIFICATION Spec
CHECK_DEADLOCK FALSE
INVARIANTS
    TypeOK
    BodyAsWritten
    NoPartIsTaken
    SucceedsAsSaid
    ReadsWhatArrives
    AcceptsJson
    ReadsBack
    NothingLeaks
    TimeoutMeansSent
PROPERTY
    Ends
