SPECIFICATION FairSpec
CONSTANTS
  b1 = b1
  b2 = b2
  c2 = c2
  h1 = h1
  h2 = h2
  Block = {b1, b2, c2}
  Hash <- MCHash
  Mode <- AllModes
  Layers <- AllLayers
  Capacity = 0
  MaxErrors = 1
  MaxRestarts = 1
INVARIANTS
  DiffKept
  PublishedOnce
PROPERTIES
  EveryBlockFlows
CHECK_DEADLOCK FALSE
