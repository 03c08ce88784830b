CONSTANTS
  U64 = 64
  Eth = 4
  Width = 4
  Cost <- MCCost
  Scale = 100
  U128 = 1048576
  Base = 3
  Bytes = 3
  Prime = 11
  ChunkSize = 2
  MaxBytes = 5
  MaxUnits = 4
  GasPrices = {1, 10, 400000}
  Changes <- MCChanges
  ToL1 <- MCToL1
  ToL2 <- MCToL2
  MaxMessages = 2
  Garbage = {0, 1, 6, 63, 70}
SPECIFICATION Spec
INVARIANTS
  HashedApart
  FeeIsLeastCover
  DiffPublished
  DecodedCanonical
CHECK_DEADLOCK FALSE
