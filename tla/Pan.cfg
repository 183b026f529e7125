CONSTANTS
    p1 = p1  p2 = p2  p3 = p3
    Pids <- MCPids3
    NoPid = NoPid
    Self = Self
    KeepActive = 2
    Cnt = 2
    ExecFails = {}
    Options <- MCOptions
    ExitCodes = {"ok", "fail", "130", "signal"}
    Signals = {"INT", "USR2"}
    MaxSignals = 1
    MaxBumps = 0
    RunChildInterrupted = FALSE
    StartMayFail = TRUE
SYMMETRY Perms3
SPECIFICATION Spec
CHECK_DEADLOCK FALSE
INVARIANTS TypeOK Accounting NoneLeftBehind ActiveFile ExitStatus
PROPERTY QuiesceFirst
