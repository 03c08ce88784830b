SPECIFICATION Spec
CONSTANTS
  Batches <- MCBatches
  Requests <- MCRequests
  FlagLists <- MCFlagLists
  Messages <- MCMessages
  GenesisState <- MCGenesisState
  Sequencers <- MCSequencers
  DisableTransactionFee = FALSE
  DisableNonceValidation = FALSE
  FeeWidth = 2
  MaxBlocks = 2
  Nothing = Nothing
ACTION_CONSTRAINT AtTip
ACTION_CONSTRAINT Relevant
INVARIANTS
  TraceFaithful
  
  EstimateIsCharged
CHECK_DEADLOCK FALSE
