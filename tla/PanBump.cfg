CONSTANTS
    p1 = p1  p2 = p2  p3 = p3
    Pids <- MCPids3
    NoPid = NoPid
    Self = Self
    KeepActive = 2
    Cnt = 3
    ExecFails = {}
    Options <- MCPlain
    ExitCodes = {"ok"}
    Signals = {"INT"}
    MaxSignals = 0
    MaxBumps = 1
    RunChildInterrupted = FALSE
    StartMayFail = FALSE
SPECIFICATION Spec
CHECK_DEADLOCK FALSE
INVARIANTS NoneLeftBehind
