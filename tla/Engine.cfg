SPECIFICATION Spec
CONSTANTS
  Frames = 2
  MaxFrames = 5
  Counts <- MCCounts
  Ifaces = {"none", "one"}
  Passes <- MCPasses
INVARIANTS GroundTruth EndsComplete ReplaysWhole
PROPERTIES FreshCycles BoundedRunEnds KeepsPromise
