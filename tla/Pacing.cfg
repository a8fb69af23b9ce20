CONSTANTS
  Times <- MCTimes
  Ends <- MCEnds
  OwnRate <- MCOwnRate
  Unset = Unset
  FirstRate = 1
  Rates = {2}
  MaxTime = 8
  MaxPauses = 2
  MaxSets = 1

SPECIFICATION Spec

INVARIANTS EarlyOncePerPause NeverLate RateTaken
\* The run ends.
CHECK_DEADLOCK FALSE
