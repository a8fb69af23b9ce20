CONSTANTS
  p1 = p1
  p2 = p2
  o1 = o1
  Streams = {p1, p2, o1}
  Limited = {p1}
  Refreshing = {p2}
  OneShots = {o1}
  Ports = {1024, 1032, 1040}
  Tries = 8
  ISNs <- MCISNs
  W = 8
  Request = 2
  Reply = 3
  Chunk = 3
  Count = 2
  None = None

SPECIFICATION Spec

INVARIANTS Gapless TableExact NoOrphanPolls
