SPECIFICATION FairSpec
CONSTANTS
  g = g
  a1 = a1
  a2 = a2
  b1 = b1
  b2 = b2
  b3 = b3
  h0 = h0
  h1 = h1
  h2a = h2a
  h2b = h2b
  h3 = h3
  t1 = t1
  t2 = t2
  t3 = t3
  NoBlock = NoBlock
  Block <- MCBlock
  Genesis = g
  Parent <- MCParent
  Number <- MCNumber
  Logs <- MCLogsBad
  StarknetHash <- MCHashOf
  TxHashes <- MCTxHashes
  Hash <- MCHash
  Tx <- MCTx
  SyncFrom = 0
  CacheMoreThings = TRUE
  Limit = 2
  MaxErrors = 1
  MaxLost = 1
  MaxRestarts = 1
INVARIANTS
  GapsOnlyBelowLostTips
  MappingSound
  CanonicalResolvable
PROPERTIES
  EventuallySynced
