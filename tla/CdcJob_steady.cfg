\* Any of the prices may be missing; one crash anywhere.
CONSTANTS
  Fields = {"lowest_sell", "highest_buy"}
  Null = Null
  Values = {v1, v2}
  Requested = {"USD"}
  Reported = {"JPY"}
  Lackable = {"lowest_sell", "highest_buy"}
  MaxRows = 3
  MaxTime = 2
  MaxCrashes = 1
SYMMETRY Symmetry
SPECIFICATION Spec
INVARIANTS TypeOK MixesNeedGaps FeedAgreesAtCommit
\* The topic is bounded: a job that has caught up waits.
CHECK_DEADLOCK FALSE
