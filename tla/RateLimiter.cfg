\* Two rates and no limit, a backlog of two intervals of the faster one.
CONSTANTS
  Intervals = {0, 2, 3}
  Backlog = 4
  MaxTime = 9
  MaxFrames = 6

SPECIFICATION Spec

INVARIANTS RateBounded HeldOneInterval
