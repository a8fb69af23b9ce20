\* Every profile, one stream at a time, four builds.
SPECIFICATION Spec
CONSTANTS
  Streamed <- MCStreamed
  Variants <- MCVariants
  Counts <- MCCounts
  Overlapping <- MCOverlapping
  Restarting <- MCRestarting
  Unconfirmed <- MCUnconfirmed
  Companion = "hl7"
  Malware <- MCMalware
  Ratios <- MCRatios
  Every <- MCEvery
  Chunk = 8
  MaxTries = 2
  MaxBuilds = 4
INVARIANTS
  Nested
  Counted
  Confirmed
  StaysPersistent
  Sprinkled
