CONSTANTS
    p1 = p1  p2 = p2  p3 = p3
    Pids <- MCPids2
    NoPid = NoPid
    Self = Self
    KeepActive = 1
    Cnt = 1
    ExecFails = {}
    Options <- MCMany
    ExitCodes = {"fail"}
    Signals = {"INT"}
    MaxSignals = 0
    MaxBumps = 0
    RunChildInterrupted = FALSE
    StartMayFail = FALSE
SPECIFICATION Spec
CHECK_DEADLOCK FALSE
INVARIANTS ExitStatus
