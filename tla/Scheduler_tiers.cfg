\* One watched item of two, two apps, sweeps of any number.
CONSTANTS
  Callers = {"dispatcher", "tierCLoop"}
  NumItems = 2
  NumWatched = 1
  NumApps = 2
  TopPages = 1
  MaxPages = 2
  MaxQueue = 2
SPECIFICATION FairSpec
INVARIANTS TypeOK NeverAskedTwice
PROPERTIES WatchlistIsServed
