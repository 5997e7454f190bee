\* Every part around the analysis, explored one at a time.
SPECIFICATION MCSpec
CONSTANTS
  Comma = Comma
  Point = Point
  Space = Space
  Sign = Sign
  None = None
  Amounts <- MCAmounts
  TextDigits = {0, 5}
  MaxText = 5
  Missing = Missing
  BookPrices = {0, 90, 95, 99, 100, 101, 110}
  Quantities = {1, 3}
  MaxLevels = 3
  MoneyDomains = {d1, d2}
  Samples <- MCSamples
  Spreads <- MCSpreads
  Week = 2
  Window = 2
  MinPeriods = 2
  MinWeekdays = 2
  Span = 2
  Threshold = 2
  MaxDays = 5
  MaxSnapshots = 5
  NumItems = 2
  RateDays <- MCRateDays
  MaxDay = 2
  MaxStarts = 2
  MaxUnpriced = 1
  MaxDate = 3
SYMMETRY MCSymmetry
INVARIANTS
  GroupsStandAlone
  JumpsAreFound
  OwnBaseline
  RatesHoldOnTheirDate
  PricesReadBack
  ParsersAgree
  DepthFollowsSpread
  PortAgrees
PROPERTIES
  VerdictsLookBack
CHECK_DEADLOCK FALSE
