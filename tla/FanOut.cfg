\* Two interfaces, each deleted and created again at most once.
CONSTANTS
  Ifaces = {tgt0, tgt1}
  Retry = 2
  MaxTime = 3
  MaxIndex = 2
  MaxFrames = 2

SPECIFICATION Spec

INVARIANT EveryFrameAccounted
PROPERTY Recovers
