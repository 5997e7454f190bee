\* Sweeps in the queue while the breaker is open.
CONSTANTS
  Callers = {"dispatcher", "tierCLoop"}
  NumItems = 2
  NumWatched = 1
  NumApps = 2
  TopPages = 1
  MaxPages = 2
  MaxQueue = 2
SPECIFICATION Spec
PROPERTIES HaltPausesSweeps
