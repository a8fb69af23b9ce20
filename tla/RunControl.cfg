\* Two injections, of one or of two incidents, with every interleaving of
\* pauses, a stop, builds that fail and deadlines, in every mode of run and
\* with no, one or two copies of an item.
CONSTANTS
  Incidents = {dos, scan}
  MaxInjections = 2
  PassLen = 2
  Unit = 2
  Gain <- MCGain
  MaxPasses = 2
  Modes = {"cycle", "paced", "unpaced"}
  MaxCopies = 2
  Phases = 1

SPECIFICATION Spec

INVARIANTS PauseHolds WholePasses ShareBounded NextPassComing NoBuildOutlivesRun
