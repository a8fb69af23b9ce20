\* Two streams over two phases of two time units each.
CONSTANTS
  Sids = {poll, user}
  Intervals <- MCIntervals
  Delays <- MCDelays
  Builds <- MCBuilds
  Length = 2
  Phases = 2

SPECIFICATION Spec

INVARIANT OneClock
PROPERTY TimeOrdered
