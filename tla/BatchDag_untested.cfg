\* One run, and one row that the mart tests reject.
CONSTANTS
  Runs = {r1}
  Items = {i1}
  Rows <- MCBadRows
  MaxRows = 1
  MaxFails = 0
  Missing = Missing
SPECIFICATION Spec
INVARIANT UntestedStaysHidden
CHECK_DEADLOCK FALSE
