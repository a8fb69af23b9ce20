SPECIFICATION CliSpec
CONSTANTS
  Frames = 1
  MaxFrames = 2
  Counts <- MCCounts
  Passes <- MCPasses
  Ifaces = {"none", "several"}
INVARIANT ExitsComplete
PROPERTIES SignalEndsProcess
