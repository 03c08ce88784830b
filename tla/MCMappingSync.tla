--------------------------- MODULE MCMappingSync ---------------------------
(***************************************************************************)
(* A block tree with two forks for TLC:                                    *)
(*                                                                         *)
(*        g <- a1 <- a2                                                    *)
(*        g <- b1 <- b2 <- b3                                              *)
(*                                                                         *)
(* a1 and b1 wrap Starknet blocks with the same hash (the header hash does *)
(* not cover the transactions); t1 is in a1 and b2, t2 in a2 and b2.       *)
(***************************************************************************)
EXTENDS MappingSync

CONSTANTS g, a1, a2, b1, b2, b3, h0, h1, h2a, h2b, h3, t1, t2, t3

MCBlock == {g, a1, a2, b1, b2, b3}
MCHash == {h0, h1, h2a, h2b, h3}
MCTx == {t1, t2, t3}
MCParent == [b \in MCBlock \ {g} |->
  CASE b \in {a1, b1} -> g [] b = a2 -> a1 [] b = b2 -> b1 [] b = b3 -> b2]
MCNumber == [b \in MCBlock |->
  CASE b = g -> 0 [] b \in {a1, b1} -> 1 [] b \in {a2, b2} -> 2 [] b = b3 -> 3]
MCHashOf == [b \in MCBlock |->
  CASE b = g -> h0 [] b \in {a1, b1} -> h1 [] b = a2 -> h2a [] b = b2 -> h2b [] b = b3 -> h3]
MCTxHashes == [b \in MCBlock |->
  CASE b = a1 -> <<t1>> [] b = b1 -> <<t3>> [] b = a2 -> <<t2>> [] b = b2 -> <<t1, t2>>
    [] OTHER -> <<>>]

\* Every digest holds one log, that of genesis included.
MCLogs == [b \in MCBlock |-> 1]

\* A smaller tree for the liveness runs: g <- a1 <- a2 and g <- b1.
SmallBlock == {g, a1, a2, b1}
SmallParent == [b \in SmallBlock \ {g} |-> MCParent[b]]
SmallNumber == [b \in SmallBlock |-> MCNumber[b]]
SmallLogs == [b \in SmallBlock |-> MCLogs[b]]
SmallHashOf == [b \in SmallBlock |-> MCHashOf[b]]
SmallTxHashes == [b \in SmallBlock |-> MCTxHashes[b]]

\* The digest of a2 holds two logs, that of b3 none.
MCLogsBad == [b \in MCBlock |-> IF b = a2 THEN 2 ELSE IF b = b3 THEN 0 ELSE 1]
============================================================================
