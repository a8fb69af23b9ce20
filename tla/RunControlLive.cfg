\* Two injections of one incident in a run of two phases, one after the other
\* or, when inject() falls between two steps of _extras, at once. A paced run
\* waits as one over cycles does.
CONSTANTS
  Incidents = {dos}
  MaxInjections = 2
  PassLen = 1
  Unit = 1
  Gain <- MCUnitGain
  MaxPasses = 2
  Modes = {"cycle", "unpaced"}
  MaxCopies = 1
  Phases = 2

SPECIFICATION FairSpec

PROPERTIES StopEnds InjectionEnds
