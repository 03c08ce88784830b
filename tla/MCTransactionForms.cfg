CONSTANTS
  U128 = 2
  ChainId <- MCChainId
  Broadcasts <- MCBroadcasts
  Extrinsics <- MCExtrinsics
  Accounts <- MCAccounts
  AccountClass <- MCAccountClass
  MaxTransactions = 2
SPECIFICATION Spec
INVARIANTS
  ServedAsSent
  SignatureBound
  
  DeployedWhereAnswered
