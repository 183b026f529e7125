SPECIFICATION FairSpec
CONSTANTS
  MaxInt = 4
  MinSamples = 2
  ExecLoops = 4
  MaxResets = 2
  MaxBias = 1
  Breakers = {"A", "B"}
INVARIANTS TypeOK Lockstep NoDataRace ExitTogether FreshThreadB AveragesFrozen
PROPERTIES BarrierSpec Termination
CHECK_DEADLOCK FALSE
