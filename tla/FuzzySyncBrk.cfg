SPECIFICATION FairSpec
CONSTANTS
  MaxInt = 4
  MinSamples = 1
  ExecLoops = 2
  MaxResets = 1
  MaxBias = 0
  Breakers = {"B"}
PROPERTY BrkEnds
CHECK_DEADLOCK FALSE
