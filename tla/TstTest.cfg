CONSTANTS
    Kids = {k1}
    Variants = 2
    Filesystems = 1
    Iterations = 2
    Tcnt = 1
    MaxRetries = 2
    Timeout = TRUE
    TaintCheck = TRUE
    MayDie = TRUE
SPECIFICATION Spec
CHECK_DEADLOCK FALSE
INVARIANTS TypeOK StatusAccounts CleanupOnce GivesUpOnlyIfStuck InterruptStops NoRunaway
