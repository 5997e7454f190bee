\* Two runs, which may overlap, while up to two rows of an item land.
CONSTANTS
  Runs = {r1, r2}
  Items = {i1}
  Rows <- MCRows
  MaxRows = 2
  MaxFails = 1
  Missing = Missing
SYMMETRY Symmetry
CONSTRAINT DistinctRows
SPECIFICATION Spec
INVARIANTS TypeOK ShownIsGated GatedFactsResolve AnomaliesAreTested DashboardIsCoherent SuccessIsShown RunsAreReported
\* The runs are over and Bronze is full.
CHECK_DEADLOCK FALSE
