SPECIFICATION FairSpec
CONSTANTS
  g = g
  a1 = a1
  a2 = a2
  b1 = b1
  b2 = b2
  b3 = b3
  h0 = h0
  h1 = h1
  h2a = h2a
  h2b = h2b
  h3 = h3
  t1 = t1
  t2 = t2
  t3 = t3
  NoBlock = NoBlock
  Block <- SmallBlock
  Genesis = g
  Parent <- SmallParent
  Number <- SmallNumber
  Logs <- SmallLogs
  StarknetHash <- SmallHashOf
  TxHashes <- SmallTxHashes
  Hash <- MCHash
  Tx <- MCTx
  SyncFrom = 0
  CacheMoreThings = TRUE
  Limit = 3
  MaxErrors = 0
  MaxLost = 1
  MaxRestarts = 1
PROPERTIES
  EventuallyMapped
