\* Two injections of the one incident: is the second always refused?
CONSTANTS
  Incidents = {dos}
  MaxInjections = 2
  PassLen = 1
  Unit = 1
  Gain <- MCUnitGain
  MaxPasses = 2
  Modes = {"cycle", "paced", "unpaced"}
  MaxCopies = 2
  Phases = 1

SPECIFICATION Spec

INVARIANT OneAtATime
