CONSTANT
    Groups <- MCSmall
SPECIFICATION Spec
CHECK_DEADLOCK FALSE
INVARIANT RefusalsAreNamed
