\* Three coroutines; a token takes two ticks to earn at the base rate and four
\* at the reduced one, halts outlast every sleep, an hour is shorter than both.
\* The bucket holds a token and a quarter; the windows are of up to two ticks.
CONSTANTS
  Callers = {c1, c2, c3}
  Unit = 4
  Capacity = 5
  BaseRate = 2
  MinRate = 1
  HourLen = 3
  Threshold = 3
  Halt429 = 5
  Halt403 = 5
  HaltBan = 6
  MaxRetries = 3
  Timeout = 2
  BackoffBase = 1
  BackoffMax = 3
  Jitter = 1
  WindowLen = 2
SYMMETRY Symmetry
SPECIFICATION MSpec
INVARIANTS TypeOK LeakBound TripIsHeld ReductionIsTemporary WindowBound
PROPERTIES HaltNotCutShort KeepsContract KeepsBudget
