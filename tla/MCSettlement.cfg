SPECIFICATION FairSpec
CONSTANTS
  MaxHeight = 5
  Height0 = 2
  Messages <- MCMessages
  Root = root
  Roots = {root, other}
  Specs <- AllSpecs
  MaxErrors = 2
  MaxReverts = 1
  MaxRestarts = 1
INVARIANTS
  NothingPresumedSettled
PROPERTIES
  SettlesFinalizedChain
  NotifiedBlocksSettled
  RecoversFromErrors
CHECK_DEADLOCK FALSE
