------------------------------- MODULE MCNode -------------------------------
(***************************************************************************)
(* Three sources of assets, of which the second is refused halfway, and    *)
(* eight command lines for TLC.                                            *)
(***************************************************************************)
EXTENDS Node

MCChains == {"dev", "local"}
MCFiles == {"genesis.json", "account.json"}

\* g1 and g2 name the same class file; g3 has a contract without a class.
Data(contracts, accounts, fee_token) ==
  [contract_classes |-> <<[hash |-> "class", path |-> "account.json", version |-> 1]>>,
   sierra_to_casm |-> <<<<"class", "compiled">>>>,
   contracts |-> contracts, accounts |-> accounts, fee_token |-> fee_token]
MCGenesisData ==
  "g1" :> Data(<<<<1, "class">>, <<2, "class">>, <<3, "class">>, <<4, "class">>>>, {1, 2}, 4)
    @@ "g2" :> Data(<<<<5, "class">>, <<6, "class">>, <<7, "class">>, <<8, "class">>>>, {5}, 8)
    @@ "g3" :> Data(<<<<1, "class">>, <<2, "other">>, <<3, "class">>, <<4, "class">>>>, {1}, 4)
MCClassVersion == "c1" :> 1 @@ "c2" :> 1

Asset(name, sha3_256, content) == [name |-> name, sha3_256 |-> sha3_256, content |-> content]
MCSources ==
  {<<Asset("genesis.json", "g1", "g1"), Asset("account.json", "none", "c1")>>,
   <<Asset("genesis.json", "none", "g2"), Asset("account.json", "c2", "c1x")>>,
   <<Asset("genesis.json", "none", "g3")>>}

Opts(dev, sealing, database, authority) ==
  [dev |-> dev, sealing |-> sealing, database |-> database, authority |-> authority,
   da |-> "none", settlement |-> "none", l1_messages |-> "none"]
MCOptions ==
  {Opts(TRUE, "Manual", "Auto", FALSE), Opts(FALSE, "Manual", "Auto", TRUE),
   Opts(FALSE, "Default", "Auto", TRUE), Opts(FALSE, "Default", "RocksDb", FALSE),
   Opts(FALSE, "Instant", "ParityDb", TRUE),
   [Opts(FALSE, "Default", "RocksDb", TRUE) EXCEPT !.settlement = "unreadable"],
   [Opts(FALSE, "Default", "Auto", TRUE) EXCEPT !.da = "missing"],
   [Opts(FALSE, "Default", "Auto", TRUE) EXCEPT !.da = "ok", !.settlement = "ok",
                                                !.l1_messages = "ok"]}
=============================================================================
