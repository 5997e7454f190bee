\* A priceoverview answer without lowest_price, or an error page.
CONSTANTS
  Fields = {"lowest_sell"}
  Null = Null
  Values = {v1, v2}
  Requested = {"USD"}
  Reported = {"JPY"}
  Lackable = {"lowest_sell"}
  MaxRows = 3
  MaxTime = 1
  MaxCrashes = 0
SYMMETRY Symmetry
SPECIFICATION Spec
INVARIANTS PricesAreComparable
\* The topic is bounded: a job that has caught up waits.
CHECK_DEADLOCK FALSE
