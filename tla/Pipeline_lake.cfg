\* Three records of two partitions, two starts of the writer, a run of the batch.
CONSTANTS
  Parts = {p1, p2}
  Threshold = 2
  MaxLog = 3
  MaxStarts = 2
  Runs = {r1}
  Items = {i1}
  MaxFails = 0
  Missing = Missing
  Content <- MCContent
SPECIFICATION Spec
SYMMETRY Symmetry
INVARIANTS SuccessIsComplete SuccessIsExact
\* Everything that is bounded is at its bound.
CHECK_DEADLOCK FALSE
