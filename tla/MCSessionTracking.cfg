CONSTANT
    Requests <- MCRequests
SPECIFICATION Spec
CHECK_DEADLOCK FALSE
INVARIANTS
    NothingMissed
    NothingInvented
