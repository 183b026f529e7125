CONSTANTS
    p1 = p1  p2 = p2  p3 = p3
    Pids <- MCPids2
    NoPid = NoPid
    Self = Self
    KeepActive = 2
    Cnt = 2
    ExecFails = {2}
    Options <- MCHarsh
    ExitCodes = {"ok", "fail"}
    Signals = {"INT"}
    MaxSignals = 2
    MaxBumps = 1
    RunChildInterrupted = TRUE
    StartMayFail = TRUE
SPECIFICATION FairSpec
CHECK_DEADLOCK FALSE
INVARIANTS LiveListed
PROPERTY Termination
