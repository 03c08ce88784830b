-------------------------- MODULE MCStarknetPallet --------------------------
(***************************************************************************)
(* Instances of the pallet for TLC: account a exists at genesis, account b *)
(* is deployed by one of the transactions.                                 *)
(***************************************************************************)
EXTENDS StarknetPallet

CONSTANTS a, b, v0, a0, a1, a0_declare, a1_declare_v0, b0_deploy, b1, m1, m1_other

MCAccount == {a, b}
MCDeployed == {a}
MCBalance == [h \in {a, b, Sequencer} |-> IF h = Sequencer THEN 0 ELSE IF h = a THEN 3 ELSE 1]

MCTxType == [t \in Tx |->
  CASE t = v0 -> "invoke0"
    [] t \in {a0, a1, b1} -> "invoke"
    [] t = a0_declare -> "declare"
    [] t = a1_declare_v0 -> "declare0"
    [] t = b0_deploy -> "deploy"
    [] t \in {m1, m1_other} -> "l1"]
MCSender == [t \in Tx |-> IF t \in {b0_deploy, b1} THEN b ELSE a]
MCTxNonce == [t \in Tx |-> IF t \in {a1, b1, a1_declare_v0, m1, m1_other} THEN 1 ELSE 0]
MCMaxFee == [t \in Tx |-> CASE t = a1 -> 2 [] t \in {m1, m1_other} -> 0 [] OTHER -> 1]
MCPaidFee == [t \in Tx |-> IF t \in {m1, m1_other} THEN 1 ELSE 0]
MCClass == [t \in Tx |-> "class"]

\* The transactions of one account, or the account that is deployed and the
\* messages: a behaviour uses one of the two batches.
Batches == {{a0, a1, a0_declare, a1_declare_v0}, {v0, b0_deploy, b1, m1, m1_other}}
Used == {p.tx : p \in pool} \cup included \cup Elements(body) \cup Stored(storage)
OneBatch == \E batch \in Batches : Used \subseteq batch
=============================================================================
