---------------------------- MODULE MCStarknetRpc ----------------------------
(***************************************************************************)
(* Two forks over genesis: a1, and b1 with its child b2.  The blocks a1    *)
(* and b1 have the same counts and so the same Starknet hash.  An          *)
(* extrinsic failed before t1 in a1 and before t4 in b2.                   *)
(***************************************************************************)
EXTENDS StarknetRpc

CONSTANTS g, a1, b1, b2, t1, t2, t3, t4, t5, account, other, class1, class2

MCBlock == {g, a1, b1, b2}
MCParent == (a1 :> g) @@ (b1 :> g) @@ (b2 :> b1) @@ (g :> g)
MCNumber == (g :> 0) @@ (a1 :> 1) @@ (b1 :> 1) @@ (b2 :> 2)
MCHash == (g :> "h0") @@ (a1 :> "h1") @@ (b1 :> "h1") @@ (b2 :> "h2")

Event(id, from, amount) == [id |-> id, from |-> from, keys |-> <<id % 2>>, amount |-> amount]
Xt(kind, tx, outcome, events) == [call |-> kind, tx |-> tx, outcome |-> outcome, events |-> events]
Timestamp == Xt("inherent", Nothing, "ok", <<>>)

MCBody ==
  (g :> <<>>) @@
  (a1 :> <<Timestamp, Xt("declare", t2, "failed", <<>>),
           Xt("invoke", t1, "ok", <<Event(1, account, 5)>>)>>) @@
  (b1 :> <<Timestamp, Xt("invoke", t3, "reverted", <<Event(2, account, 6)>>)>>) @@
  (b2 :> <<Timestamp,
           Xt("invoke", t1, "ok", <<Event(3, other, 0), Event(4, account, 5)>>),
           Xt("deploy_account", t5, "ok", <<Event(5, account, 7)>>),
           Xt("declare", t2, "failed", <<>>),
           Xt("consume_l1_message", t4, "ok", <<>>)>>)

Deployed == (account :> class1) @@ (other :> Nothing)
MCClassHashes == (g :> Deployed) @@ (a1 :> Deployed) @@ (b1 :> Deployed)
                   @@ (b2 :> ((account :> class1) @@ (other :> class2)))
MCClasses == (g :> {class1}) @@ (a1 :> {class1, class2}) @@ (b1 :> {class1}) @@ (b2 :> {class1, class2})
MCNonces == [b \in MCBlock |-> (account :> Number[b] + 1) @@ (other :> Nothing)]

Filter(from, address, keys, chunk) ==
  [from |-> from, to |-> <<"Latest", 0>>, address |-> address, keys |-> keys, chunk_size |-> chunk]
MCFilters ==
  {Filter(<<"Number", n>>, a, <<>>, c) : n \in 0 .. 1, a \in {Nothing, account}, c \in 1 .. 2}
    \cup {Filter(<<"Number", 0>>, Nothing, <<{1}>>, 1), Filter(<<"Hash", "h1">>, Nothing, <<{}>>, 1),
          Filter(<<"Latest", 0>>, account, <<>>, 0),
          [Filter(<<"Number", 2>>, Nothing, <<>>, 1) EXCEPT !.to = <<"Number", 1>>],
          [Filter(<<"Number", 0>>, Nothing, <<>>, 3) EXCEPT !.to = <<"Number", 1>>]}
MCAccounts == <<account, other>>
MCSchemas == {"V1", "Undefined"}

MCOps == ByBlock \cup ByTransaction
           \cup {"block_hash_and_number", "syncing", "predeployed_accounts", "get_events",
                 "add_declare_transaction", "add_invoke_transaction",
                 "add_deploy_account_transaction"}
EventsOnly == {"get_events"}

\* The request comes first and nothing is explored after the answer.  State no
\* step of the call reads stays as it is.
OneCall ==
  /\ call.pc = "idle" => call' # call
  /\ call.pc # "done"
  /\ best_seen' # best_seen => call.op = "syncing"
  /\ last_l1_block' # last_l1_block => call.op = "get_block_with_tx_hashes"
  /\ state_diffs' # state_diffs => call.op = "get_state_update"

StateReads == {"get_nonce", "get_class_hash_at", "get_class_at", "get_storage_at"}
Relevant ==
  /\ schema # "V1" => call.op \in StateReads \cup {"none"}
  /\ fee_disabled => call.op \in {"get_transaction_receipt", "none"}
  /\ cache_more_things => call.op \notin StateReads
=============================================================================
