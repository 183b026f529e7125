SPECIFICATION FairSpec
CONSTANTS
  Waiters = {w1, w2, w3}
  NrWake = 3
  Rounds = 3
  MaxFutexes = 2
  MaxSignals = 1
INVARIANTS TypeOK WakesPrecisely NoEarlyReturn Meeting
CHECK_DEADLOCK FALSE
PROPERTY AllMeet
