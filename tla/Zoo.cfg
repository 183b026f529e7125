CONSTANTS
    Pans = {pan1, pan2}
    Bumps = {bump}
    Pids = {q1, q2}
    None = None
    Blank = Blank
    Reserved = 1
    MaxStarts = 2
    MaxLookups = 2
    MaxCrashes = 1
    MaxErrors = 1
SPECIFICATION FairSpec
CHECK_DEADLOCK FALSE
INVARIANTS TypeOK RecordedListed Compact
PROPERTIES OnlyStaleBumps BagSpec OperationsEnd
