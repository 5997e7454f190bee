\* A file is refused and stop() commits all the same.
CONSTANTS
  Parts = {p1, p2}
  Threshold = 2
  MaxLog = 4
  MaxStarts = 3
SPECIFICATION Spec
INVARIANTS CommittedIsDurable
\* The topic is bounded: a writer that has caught up waits.
CHECK_DEADLOCK FALSE
