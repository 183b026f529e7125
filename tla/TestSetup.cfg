CONSTANTS
    t1 = t1  t2 = t2
    Tests <- MCTests
    Devices = {0, 1}
    Options <- MCOptions
    Filesystems = 2
    None = None
    Orig = Orig
    Changed = Changed
    MaxClears = 2
    MaxDepth = 3
    MaxFaults = 2
SYMMETRY Perms
SPECIFICATION Spec
CHECK_DEADLOCK FALSE
INVARIANTS TypeOK LeftoversWarned ReadyToRun ConfRestored CleanupBounded
PROPERTY OnlyRetriesSteal
