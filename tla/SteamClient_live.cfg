\* The liveness questions, with the deployed thresholds; no symmetry, so two
\* coroutines.  The halts outlast every sleep.
CONSTANTS
  Callers = {c1, c2}
  Unit = 4
  Capacity = 4
  BaseRate = 2
  MinRate = 1
  HourLen = 3
  Threshold = 3
  Halt429 = 5
  Halt403 = 5
  HaltBan = 6
  MaxRetries = 3
  Timeout = 2
  BackoffBase = 1
  BackoffMax = 3
  Jitter = 1
SPECIFICATION FairSpec
PROPERTIES HaltEnds BanIsFinal CallReturns
