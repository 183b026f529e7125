CONSTANTS
    Kids = {k1}
    Variants = 2
    Filesystems = 1
    Iterations = 2
    Tcnt = 1
    MaxRetries = 2
    Timeout = TRUE
    TaintCheck = TRUE
    MayDie = FALSE
SPECIFICATION FairSpec
CHECK_DEADLOCK FALSE
PROPERTY Ends
