\* Kills, interrupts, failed commits and refused files, three starts.
CONSTANTS
  Parts = {p1, p2}
  Threshold = 2
  MaxLog = 4
  MaxStarts = 3
SPECIFICATION FairSpec
INVARIANTS TypeOK OnlyRefusedFilesAreLost OneCopyPerStart
PROPERTIES KeepsPromise FullBuffersLand
\* The topic is bounded: a writer that has caught up waits.
CHECK_DEADLOCK FALSE
