SPECIFICATION Spec
CONSTANTS
  a = a
  b = b
  v0 = v0
  a0 = a0
  a1 = a1
  a0_declare = a0_declare
  a1_declare_v0 = a1_declare_v0
  b0_deploy = b0_deploy
  b1 = b1
  m1 = m1
  m1_other = m1_other
  Sequencer = Sequencer
  Zero = Zero
  Account <- MCAccount
  Deployed <- MCDeployed
  GenesisBalance <- MCBalance
  TxType <- MCTxType
  Sender <- MCSender
  TxNonce <- MCTxNonce
  MaxFee <- MCMaxFee
  PaidFee <- MCPaidFee
  Class <- MCClass
  ActualFee = {1, 2}
  MaxEvents = 1
  DisableTransactionFee = FALSE
  Tx = {a0, a1, a0_declare, a1_declare_v0, v0, b0_deploy, b1, m1, m1_other}
  MaxBlocks = 2
  MaxExtrinsics = 2
CONSTRAINT OneBatch
INVARIANTS
  ExecutedOnce
  NonceOrder
  
  FeesConserved
  BlocksSound
  FirstBlockSealed
