CONSTANTS
  Chains <- MCChains
  Files <- MCFiles
  GenesisFile = "genesis.json"
  GenesisData <- MCGenesisData
  ClassVersion <- MCClassVersion
  Sources <- MCSources
  Options <- MCOptions
  Slots = {20, 21}
  MaxCommands = 4
  MaxBlocks = 2
SPECIFICATION Spec
INVARIANTS
  
  AuthoringSucceeds
  DatabaseOfChain
  

  
CHECK_DEADLOCK FALSE
