---------------------------- MODULE StarknetRpc ----------------------------
(***************************************************************************)
(* The Starknet RPC server (client/rpc) over the databases and workers it  *)
(* reads: the Substrate client, the mapping and DA databases, the storage  *)
(* overrides and the runtime API.                                          *)
(*                                                                         *)
(* A call makes several reads, and the chain, the mapping worker and the   *)
(* data availability worker move between two of them.  Calls do not change *)
(* what other calls read (but for the three that add transactions), so one *)
(* call at a time is enough.  The content of blocks is constant: a body is *)
(* a sequence of extrinsics [call, tx, outcome, events], the inherents     *)
(* first; an extrinsic whose dispatch failed stays in the body but is no   *)
(* transaction of the Starknet block.  What the mapping worker and the DA  *)
(* worker store of a block are single steps here (modules MappingSync and  *)
(* DataAvailability have them in detail).  Calls of the client and of the  *)
(* database that fail are left out: they make the call answer an error.    *)
(***************************************************************************)
EXTENDS EventFilter, FiniteSets

CONSTANTS Block, Genesis, Parent, Number,
          Hash,          \* the Starknet hash of each block
          Body,          \* the extrinsics of each block
          ClassHashes,   \* ContractClassHashes after each block: address -> class hash
          Classes,       \* the classes declared after each block
          Nonces,        \* Nonces after each block: address -> stored nonce, or Nothing
          Address, ClassHash,
          Schemas,       \* the storage schema versions a chain may have
          Ops,           \* the calls that are made
          Filters,       \* the filters of get_events
          Accounts,      \* the predeployed accounts
          MaxPages       \* bound: pages of events a client asks for

VARIABLES
  \* the Substrate client
  imported, best,
  best_seen,             \* the highest block any peer has, Nothing without peers
  schema,                \* PALLET_STARKNET_SCHEMA
  fee_disabled,          \* is_transaction_fee_disabled
  \* the Madara database
  cache_more_things,
  block_mapping, tx_mapping, tx_cache, state_diffs, sierra_classes,
  last_l1_block,         \* last_synced_l1_block_with_event
  pool,                  \* what was handed to the transaction pool, and at which block
  \* the call
  call, answer

chain == <<imported, best, best_seen, schema, fee_disabled>>
database == <<cache_more_things, block_mapping, tx_mapping, tx_cache, state_diffs, last_l1_block>>
vars == <<chain, database, sierra_classes, pool, call, answer>>

Hashes == {Hash[b] : b \in Block}
Numbers == {Number[b] : b \in Block}

----------------------------------------------------------------------------
(* Blocks, as the digest log and the runtime API give them *)

extrinsic_filter(body) == SelectSeq(body, LAMBDA x : x.call # "inherent")
Executed(body) == SelectSeq(body, LAMBDA x : x.call # "inherent" /\ x.outcome # "failed")

\* The transactions of the Starknet block in the digest.
Transactions(b) == LET xs == Executed(Body[b]) IN [i \in DOMAIN xs |-> xs[i].tx]
Tx == UNION {ToSet(Transactions(b)) : b \in Block}

\* The extrinsics before the first Starknet one.
InherentCount(b) == Len(Body[b]) - Len(extrinsic_filter(Body[b]))

----------------------------------------------------------------------------
(* The rest of the node *)

\* The longest chain is the best.
ImportBlock(b) ==
  /\ b \notin imported /\ Parent[b] \in imported
  /\ imported' = imported \cup {b}
  /\ best' = IF Number[b] > Number[best] THEN b ELSE best
  /\ UNCHANGED <<best_seen, schema, fee_disabled, database, sierra_classes, pool, call, answer>>

\* Peers come, go and announce blocks.
SeeBlock ==
  /\ best_seen' \in (Numbers \cup {Nothing}) \ {best_seen}
  /\ UNCHANGED <<imported, best, schema, fee_disabled, database, sierra_classes, pool, call, answer>>

\* The mapping worker has processed a block (module MappingSync).
MapBlock(b) ==
  /\ b \in imported /\ ~Contains(block_mapping[Hash[b]], b)
  /\ block_mapping' = [block_mapping EXCEPT ![Hash[b]] = Append(@, b)]
  /\ LET txs == IF b = Genesis THEN <<>> ELSE Transactions(b) IN
     /\ tx_mapping' = [t \in Tx |-> IF Contains(txs, t) THEN b ELSE tx_mapping[t]]
     /\ tx_cache' = IF cache_more_things THEN [tx_cache EXCEPT ![Hash[b]] = txs] ELSE tx_cache
  /\ UNCHANGED <<chain, cache_more_things, state_diffs, last_l1_block, sierra_classes, pool,
                 call, answer>>

\* The DA worker has stored a state diff (module DataAvailability).
StoreDiff(b) ==
  /\ b \in imported /\ state_diffs[Hash[b]] # b
  /\ state_diffs' = [state_diffs EXCEPT ![Hash[b]] = b]
  /\ UNCHANGED <<chain, cache_more_things, block_mapping, tx_mapping, tx_cache, last_l1_block,
                 sierra_classes, pool, call, answer>>

\* The L1 messages worker has processed an event of an Ethereum block.
SyncL1 ==
  /\ last_l1_block' \in {n \in Numbers : n > last_l1_block}
  /\ UNCHANGED <<chain, cache_more_things, block_mapping, tx_mapping, tx_cache, state_diffs,
                 sierra_classes, pool, call, answer>>

----------------------------------------------------------------------------
(* Block ids *)

\* The chain that ends in the best block.
Canonical ==
  LET path[b \in Block] == {b} \cup IF b = Genesis THEN {} ELSE path[Parent[b]] IN path[best]

\* client.hash(n): the canonical block of that number.
client_hash(n) ==
  IF \E b \in Canonical : Number[b] = n
  THEN CHOOSE b \in Canonical : Number[b] = n ELSE Nothing

is_canon(b) == client_hash(Number[b]) = b

\* The first of the mapped blocks that is canonical.
load_hash(h) ==
  LET bs == SelectSeq(block_mapping[h], is_canon) IN IF bs = <<>> THEN Nothing ELSE bs[1]

substrate_block_hash_from_starknet_block(id) ==
  CASE id[1] = "Hash" -> load_hash(id[2])
    [] id[1] = "Number" -> client_hash(id[2])
    [] id[1] = "Latest" -> best

BlockIds == ({"Hash"} \X Hashes) \cup ({"Number"} \X Numbers) \cup {<<"Latest", 0>>}

----------------------------------------------------------------------------
(* Calls *)

NoCall == [op |-> "none", arg |-> Nothing, pc |-> "idle", block |-> Nothing]
Chosen(b) == [call EXCEPT !.pc = "read", !.block = b]
Answer(a) == answer' = a /\ call' = [call EXCEPT !.pc = "done"]
Error(e) == Answer([error |-> e])
ReadOnly == UNCHANGED <<chain, database, sierra_classes, pool>>

Reading(op) == call.op = op /\ call.pc = "read"

\* The calls that begin with a block id, a transaction hash, or neither.
ByBlock == {"get_block_transaction_count", "get_block_with_tx_hashes", "get_block_with_txs",
            "get_transaction_by_block_id_and_index", "get_state_update", "get_nonce",
            "get_class_hash_at", "get_class_at", "get_class", "get_storage_at", "call"}
ByTransaction == {"get_transaction_status", "get_transaction_by_hash", "get_transaction_receipt"}

Arguments(op) ==
  CASE op \in {"get_nonce", "get_class_hash_at", "get_class_at", "get_storage_at", "call"} ->
         {[id |-> i, key |-> a] : i \in BlockIds, a \in Address}
    [] op = "get_class" -> {[id |-> i, key |-> c] : i \in BlockIds, c \in ClassHash}
    [] op = "get_transaction_by_block_id_and_index" ->
         {[id |-> i, key |-> k] : i \in BlockIds, k \in 1 .. 3}
    [] op \in ByBlock -> {[id |-> i] : i \in BlockIds}
    [] op \in ByTransaction -> {[tx |-> t] : t \in Tx}
    [] op = "add_declare_transaction" -> [class : ClassHash, version : 1 .. 2]
    [] op = "get_events" -> {[filter |-> f, token |-> DefaultToken, pages |-> <<>>] : f \in Filters}
    [] op = "predeployed_accounts" -> {<<>>}
    [] OTHER -> {Nothing}

Request ==
  /\ call.pc = "idle"
  /\ \E op \in Ops : \E arg \in Arguments(op) :
       call' = [op |-> op, arg |-> arg, pc |-> "start", block |-> Nothing]
  /\ UNCHANGED answer /\ ReadOnly

\* Every call with a block id starts by resolving it.
ResolveBlock ==
  /\ call.pc = "start" /\ call.op \in ByBlock
  /\ LET b == substrate_block_hash_from_starknet_block(call.arg.id) IN
       IF b = Nothing THEN Error("BlockNotFound") ELSE call' = Chosen(b) /\ UNCHANGED answer
  /\ ReadOnly

\* Every call with a transaction hash starts with the transaction mapping.
\* Nobody looks whether the block found is canonical.
ResolveTransaction ==
  /\ call.pc = "start" /\ call.op \in ByTransaction
  /\ LET b == tx_mapping[call.arg.tx] IN
       IF b = Nothing THEN Error("TxnHashNotFound") ELSE call' = Chosen(b) /\ UNCHANGED answer
  /\ ReadOnly

\* get_cached_transaction_hashes: Nothing when the cache is off or has no entry.
get_cached_transaction_hashes(b) == tx_cache[Hash[b]]

\* Mutation: the index counts from one.
try_txn_hash_from_cache_OffByOne(i, cached, transactions) ==
  LET hashes == IF cached = Nothing THEN transactions ELSE cached IN
  IF i \in DOMAIN hashes /\ i + 1 \in DOMAIN hashes THEN hashes[i + 1] ELSE Nothing

\* The hash of the i-th transaction: from the cache, or computed.  Nothing: an
\* index out of range, which ends the call with an error.
try_txn_hash_from_cache(i, cached, transactions) ==
  LET hashes == IF cached = Nothing THEN transactions ELSE cached IN
  IF i \in DOMAIN hashes THEN hashes[i] ELSE Nothing

\* What the two calls that list transactions do of the same kind.
HashAt(b, i) == try_txn_hash_from_cache(i, get_cached_transaction_hashes(b), Transactions(b))

----------------------------------------------------------------------------
(* Reads of blocks *)

get_block_transaction_count ==
  /\ Reading("get_block_transaction_count")
  /\ Answer([count |-> Len(Transactions(call.block))])
  /\ ReadOnly

block_status(b) == IF last_l1_block >= Number[b] THEN "AcceptedOnL1" ELSE "AcceptedOnL2"

get_block_with_tx_hashes ==
  /\ Reading("get_block_with_tx_hashes")
  /\ LET b == call.block  cached == get_cached_transaction_hashes(b) IN
     Answer([block |-> b, status |-> block_status(b),
             transactions |-> IF cached = Nothing THEN Transactions(b) ELSE cached])
  /\ ReadOnly

get_block_with_txs ==
  /\ Reading("get_block_with_txs")
  /\ LET b == call.block  txs == Transactions(b) IN
     IF \E i \in DOMAIN txs : HashAt(b, i) = Nothing THEN Error("CallError")
     ELSE Answer([block |-> b, status |-> "AcceptedOnL2",
                  transactions |-> [i \in DOMAIN txs |-> [tx |-> txs[i], hash |-> HashAt(b, i)]]])
  /\ ReadOnly

get_transaction_by_block_id_and_index ==
  /\ Reading("get_transaction_by_block_id_and_index")
  /\ LET b == call.block  i == call.arg.key IN
     CASE i \notin DOMAIN Transactions(b) -> Error("InvalidTxnIndex")
       [] i \in DOMAIN Transactions(b) /\ HashAt(b, i) = Nothing -> Error("CallError")
       [] OTHER -> Answer([tx |-> Transactions(b)[i], hash |-> HashAt(b, i)])
  /\ ReadOnly

\* The parent is looked up by its Starknet hash, later than the block itself.
get_state_update ==
  /\ Reading("get_state_update")
  /\ LET b == call.block IN
     CASE Number[b] > 0 /\ load_hash(Hash[Parent[b]]) = Nothing -> Error("BlockNotFound")
       [] state_diffs[Hash[b]] = Nothing -> Error("InternalServerError")
       [] OTHER -> Answer([block |-> b, diff |-> state_diffs[Hash[b]]])
  /\ ReadOnly

----------------------------------------------------------------------------
(* Reads of transactions *)

Index(seq, e) == IF Contains(seq, e) THEN CHOOSE i \in DOMAIN seq :
                   seq[i] = e /\ \A j \in 1 .. (i - 1) : seq[j] # e ELSE 0

\* The revert error the pallet stored for the transaction in this block.
get_tx_execution_outcome(b, t) ==
  IF \E x \in ToSet(Body[b]) : x.tx = t /\ x.outcome = "reverted" THEN "Reverted" ELSE "Succeeded"

get_transaction_status ==
  /\ Reading("get_transaction_status")
  /\ Answer([finality_status |-> "AcceptedOnL2",
             execution_status |-> get_tx_execution_outcome(call.block, call.arg.tx)])
  /\ ReadOnly

\* The cached hashes are zipped with the transactions of the block.
get_transaction_by_hash ==
  /\ Reading("get_transaction_by_hash")
  /\ LET b == call.block
         cached == get_cached_transaction_hashes(b)
         i == Index(IF cached = Nothing THEN Transactions(b) ELSE cached, call.arg.tx)
     IN IF i \in DOMAIN Transactions(b) THEN Answer([tx |-> Transactions(b)[i]])
        ELSE Error("TxnHashNotFound")
  /\ ReadOnly

\* The place of a hash among the Starknet extrinsics of a body, those that
\* failed included: the hashes are those of the cache when it has any.
ReceiptIndex(b, t) ==
  LET xs == extrinsic_filter(Body[b])
      cached == get_cached_transaction_hashes(b)
      hashes == [k \in DOMAIN xs |->
                   try_txn_hash_from_cache(k, cached, [n \in DOMAIN xs |-> xs[n].tx])]
  IN Index(hashes, t)

\* Mutation: the inherents are not counted.
get_events_for_tx_by_index_NoInherents(b, i) == Body[b][i].events

\* The events of the i-th Starknet extrinsic.
get_events_for_tx_by_index(b, i) == Body[b][i + InherentCount(b)].events

\* The fee is the amount in the last event; without events the call panics.
get_transaction_receipt ==
  /\ Reading("get_transaction_receipt")
  /\ LET b == call.block  t == call.arg.tx  i == ReceiptIndex(b, t) IN
     IF i = 0 THEN Error("InternalServerError")
     ELSE LET events == get_events_for_tx_by_index(b, i) IN
          IF events = <<>> /\ ~fee_disabled THEN Error("panic")
          ELSE Answer([kind |-> extrinsic_filter(Body[b])[i].call, events |-> events,
                       actual_fee |-> IF fee_disabled THEN 0 ELSE Last(events).amount,
                       execution_result |-> get_tx_execution_outcome(b, t)])
  /\ ReadOnly

----------------------------------------------------------------------------
(* Reads of the state *)

\* The two implementations of StorageOverride: SchemaV1Override reads the
\* storage, where an absent entry is None; RuntimeApiStorageOverride asks the
\* pallet, whose ContractClassHashes and Nonces have default values.
contract_class_hash_by_address(b, a) ==
  IF schema = "V1" \/ ClassHashes[b][a] # Nothing THEN ClassHashes[b][a] ELSE "default"

contract_class_by_class_hash(b, c) == IF c \in Classes[b] THEN c ELSE Nothing

contract_class_by_address(b, a) ==
  LET c == contract_class_hash_by_address(b, a) IN
  IF c = Nothing THEN Nothing ELSE contract_class_by_class_hash(b, c)

nonce(b, a) ==
  IF schema = "V1" /\ ClassHashes[b][a] = Nothing THEN Nothing
  ELSE IF Nonces[b][a] = Nothing THEN 0 ELSE Nonces[b][a]

\* Both look for the contract first and have zero for an unwritten key.
get_storage_by_storage_key(b, a) == IF ClassHashes[b][a] = Nothing THEN Nothing ELSE 0

Found(value, e) == IF value = Nothing THEN Error(e) ELSE Answer([value |-> value])

get_nonce ==
  Reading("get_nonce") /\ Found(nonce(call.block, call.arg.key), "ContractNotFound") /\ ReadOnly

get_class_hash_at ==
  /\ Reading("get_class_hash_at")
  /\ Found(contract_class_hash_by_address(call.block, call.arg.key), "ContractNotFound")
  /\ ReadOnly

get_class_at ==
  /\ Reading("get_class_at")
  /\ Found(contract_class_by_address(call.block, call.arg.key), "ContractNotFound")
  /\ ReadOnly

get_class ==
  /\ Reading("get_class")
  /\ Found(contract_class_by_class_hash(call.block, call.arg.key), "ClassHashNotFound")
  /\ ReadOnly

get_storage_at ==
  /\ Reading("get_storage_at")
  /\ Found(get_storage_by_storage_key(call.block, call.arg.key), "ContractNotFound")
  /\ ReadOnly

\* convert_error of the runtime turns the errors of the pallet into the ones of
\* RPC; the entry point itself may fail.
call_contract ==
  /\ Reading("call")
  /\ \/ ClassHashes[call.block][call.arg.key] = Nothing /\ Error("ContractNotFound")
     \/ ClassHashes[call.block][call.arg.key] # Nothing /\ Answer([value |-> "retdata"])
     \/ ClassHashes[call.block][call.arg.key] # Nothing /\ Error("ContractError")
  /\ ReadOnly

----------------------------------------------------------------------------
(* The best block *)

\* Two reads of client.info().
block_hash_and_number ==
  /\ call.op = "block_hash_and_number"
  /\ \/ /\ call.pc = "start" /\ call' = Chosen(best) /\ UNCHANGED answer
     \/ /\ call.pc = "read"
        /\ Answer([block |-> best, number |-> Number[call.block]])
  /\ ReadOnly

\* best_seen_block is awaited; the blocks are then looked up by number.  The
\* starting block is always found.
syncing ==
  /\ call.op = "syncing"
  /\ \/ /\ call.pc = "start"
        /\ call' = [call EXCEPT !.pc = "read", !.arg = best_seen] /\ UNCHANGED answer
     \/ /\ call.pc = "read"
        /\ LET highest == IF call.arg = Nothing THEN Number[best] ELSE call.arg IN
           Answer(IF client_hash(highest) = Nothing THEN [syncing |-> FALSE]
                  ELSE [syncing |-> TRUE, current |-> Number[best], highest |-> highest])
  /\ ReadOnly

\* A call of balanceOf at the latest block for each account in turn.
predeployed_accounts ==
  /\ call.op = "predeployed_accounts"
  /\ \/ /\ call.pc = "start" /\ Len(call.arg) < Len(Accounts)
        /\ call' = [call EXCEPT !.arg = Append(@, best)] /\ UNCHANGED answer
     \/ /\ call.pc = "start" /\ Len(call.arg) = Len(Accounts)
        /\ Answer([read_at |-> call.arg])
  /\ ReadOnly

----------------------------------------------------------------------------
(* Events *)

\* Mutation: the extrinsic index is taken for the transaction index.
get_block_events_Extrinsic(b) ==
  LET xs == Body[b]
      cached == get_cached_transaction_hashes(b)
      hash(i) == try_txn_hash_from_cache(i, cached, [n \in DOMAIN xs |-> xs[n].tx])
  IN [ok |-> FlattenSeq([i \in DOMAIN xs |-> [k \in DOMAIN xs[i].events |->
               xs[i].events[k] @@ [transaction_hash |-> hash(i)]]])]

\* The events of a canonical block, each with the hash of its transaction.
get_block_events(b) ==
  LET txs == extrinsic_filter(Body[b])
      cached == get_cached_transaction_hashes(b)
      hash(i) == try_txn_hash_from_cache(i - InherentCount(b), cached,
                                         [n \in DOMAIN txs |-> txs[n].tx])
      emitted(i) == [k \in DOMAIN Body[b][i].events |->
                       Body[b][i].events[k] @@ [transaction_hash |-> hash(i)]]
      Emitting == {i \in DOMAIN Body[b] : Body[b][i].events # <<>>}
  IN IF \E i \in Emitting : hash(i) = Nothing THEN [error |-> "InternalServerError"]
     ELSE [ok |-> FlattenSeq([i \in DOMAIN Body[b] |->
                                IF i \in Emitting THEN emitted(i) ELSE <<>>])]

\* substrate_block_number_from_starknet_block: a number stands for itself.
block_number_of(id) ==
  IF id[1] = "Number" THEN id[2]
  ELSE LET b == substrate_block_hash_from_starknet_block(id) IN
       IF b = Nothing THEN Nothing ELSE Number[b]

\* The page for a filter and a token.
events_page(filter, token) ==
  LET from_block == block_number_of(filter.from)
      to_block == block_number_of(filter.to)
      last == IF Number[best] > to_block THEN to_block ELSE Number[best]
      events == [n \in 0 .. Number[best] |-> get_block_events(client_hash(n))]
  IN CASE from_block = Nothing \/ to_block = Nothing -> [error |-> "BlockNotFound"]
       [] from_block # Nothing /\ to_block # Nothing /\ from_block > to_block -> Page(<<>>, Nothing)
       [] OTHER -> filter_events(filter @@ [from_block |-> from_block, to_block |-> last],
                                 token, events)

\* A client asks for page after page with the token of the page before.
get_events ==
  /\ call.op = "get_events" /\ call.pc = "start"
  /\ LET page == events_page(call.arg.filter, call.arg.token) IN
     IF "error" \in DOMAIN page THEN Answer(page @@ [pages |-> call.arg.pages])
     ELSE LET pages == Append(call.arg.pages, page.events) IN
          IF page.token = Nothing \/ Len(pages) = MaxPages
          THEN Answer([pages |-> pages, token |-> page.token])
          ELSE /\ call' = [call EXCEPT !.arg.token = page.token, !.arg.pages = pages]
               /\ UNCHANGED answer
  /\ ReadOnly

----------------------------------------------------------------------------
(* Transactions *)

Submission == [op |-> call.op, at |-> call.block, arg |-> call.arg]

\* submit_extrinsic: the pool validates at the block the call has read first.
submit_extrinsic(next) ==
  \/ /\ pool' = pool \cup {Submission} /\ call' = [call EXCEPT !.pc = next] /\ UNCHANGED answer
  \/ \E e \in {"ValidationFailure", "InternalServerError"} : Error(e) /\ UNCHANGED pool

\* Mutation: the pool validates at the second of the two blocks.
add_declare_transaction_Late ==
  /\ call.op = "add_declare_transaction"
  /\ \/ /\ call.pc = "start" /\ call' = Chosen(best)
        /\ UNCHANGED <<pool, sierra_classes, answer>>
     \/ /\ call.pc = "read" /\ call.arg.class \notin Classes[call.block]
        /\ call' = [call EXCEPT !.pc = "checked", !.block = best]
        /\ UNCHANGED <<pool, sierra_classes, answer>>
     \/ /\ call.pc = "checked" /\ submit_extrinsic("store") /\ UNCHANGED sierra_classes
  /\ UNCHANGED <<chain, database>>

\* best_hash is read twice: the pool validates at the first, the class is looked
\* up at the second.  The conversion of the class may fail.  The Sierra class of
\* a V2 transaction is stored last, if the database can.
add_declare_transaction ==
  /\ call.op = "add_declare_transaction"
  /\ LET class == call.arg.class  version == call.arg.version IN
     \/ /\ call.pc = "start" /\ call' = Chosen(best)
        /\ UNCHANGED <<pool, sierra_classes, answer>>
     \/ /\ call.pc = "read"
        /\ \/ Error("InternalServerError")
           \/ class \in Classes[best] /\ Error("ClassAlreadyDeclared")
           \/ /\ class \notin Classes[best]
              /\ call' = [call EXCEPT !.pc = "checked"] /\ UNCHANGED answer
        /\ UNCHANGED <<pool, sierra_classes>>
     \/ call.pc = "checked" /\ submit_extrinsic("store") /\ UNCHANGED sierra_classes
     \/ /\ call.pc = "store"
        /\ \/ version = 2 /\ sierra_classes' = sierra_classes \cup {class}
           \/ UNCHANGED sierra_classes
        /\ Answer([class_hash |-> class]) /\ UNCHANGED pool
  /\ UNCHANGED <<chain, database>>

\* add_invoke_transaction and add_deploy_account_transaction.
add_transaction ==
  /\ call.op \in {"add_invoke_transaction", "add_deploy_account_transaction"}
  /\ \/ call.pc = "start" /\ call' = Chosen(best) /\ UNCHANGED <<pool, answer>>
     \/ call.pc = "read" /\ Error("InternalServerError") /\ UNCHANGED pool
     \/ call.pc = "read" /\ submit_extrinsic("hash")
     \/ call.pc = "hash" /\ Answer([transaction_hash |-> call.op]) /\ UNCHANGED pool
  /\ UNCHANGED <<chain, database, sierra_classes>>

----------------------------------------------------------------------------
Init ==
  /\ imported = {Genesis} /\ best = Genesis /\ best_seen = Nothing
  /\ schema \in Schemas /\ fee_disabled \in BOOLEAN /\ cache_more_things \in BOOLEAN
  /\ block_mapping = [h \in Hashes |-> <<>>]
  /\ tx_mapping = [t \in Tx |-> Nothing]
  /\ tx_cache = [h \in Hashes |-> Nothing]
  /\ state_diffs = [h \in Hashes |-> Nothing]
  /\ sierra_classes = {} /\ last_l1_block = 0 /\ pool = {}
  /\ call = NoCall /\ answer = Nothing

Node == SeeBlock \/ SyncL1 \/ \E b \in Block : ImportBlock(b) \/ MapBlock(b) \/ StoreDiff(b)

Rpc ==
  \/ Request \/ ResolveBlock \/ ResolveTransaction
  \/ get_block_transaction_count \/ get_block_with_tx_hashes \/ get_block_with_txs
  \/ get_transaction_by_block_id_and_index \/ get_state_update
  \/ get_transaction_status \/ get_transaction_by_hash \/ get_transaction_receipt
  \/ get_nonce \/ get_class_hash_at \/ get_class_at \/ get_class \/ get_storage_at
  \/ call_contract \/ block_hash_and_number \/ syncing \/ predeployed_accounts
  \/ get_events \/ add_declare_transaction \/ add_transaction

Next == Node \/ Rpc

Spec == Init /\ [][Next]_vars

----------------------------------------------------------------------------
(* Properties *)

Answered(op) == call.op = op /\ call.pc = "done" /\ "error" \notin DOMAIN answer

\* The Starknet hash covers the counts of a block, not its transactions: two
\* blocks of two forks may share one, and the entries of the databases with it.
Twin(b) == \E c \in Block \ {b} : Hash[c] = Hash[b]

\* The extrinsic of a transaction, and whether one before it failed.
PlaceOf(b, t) == CHOOSE i \in DOMAIN Body[b] : Body[b][i].tx = t /\ Body[b][i].outcome # "failed"
FailedBefore(b, t) == \E j \in 1 .. PlaceOf(b, t) : Body[b][j].outcome = "failed"

\* What is answered about a block is about that block, whether the mapping worker
\* has cached its hashes before, during or after the call: each transaction has
\* its own hash, a transaction asked for by hash is that one, and the state diff
\* is that of the block.  Blocks that share their Starknet hash are the exception.
AnswersOfBlock ==
  (call.pc = "done" /\ call.block # Nothing /\ ~Twin(call.block)) =>
    /\ Answered("get_block_with_tx_hashes") => answer.transactions = Transactions(call.block)
    /\ Answered("get_block_with_txs") =>
         /\ \A i \in DOMAIN answer.transactions :
              answer.transactions[i].hash = answer.transactions[i].tx
         /\ Len(answer.transactions) = Len(Transactions(call.block))
    /\ Answered("get_transaction_by_block_id_and_index") => answer.hash = answer.tx
    /\ Answered("get_transaction_by_hash") => answer.tx = call.arg.tx
    /\ Answered("get_state_update") => answer.diff = call.block

\* A receipt has the kind, the events and the fee of its own transaction, unless
\* the hashes came from the cache of a block where an extrinsic before it failed
\* or that shares its hash.  The call panics only for a transaction that emitted
\* no event.
ReceiptOfTransaction ==
  (call.op = "get_transaction_receipt" /\ call.pc = "done" /\ call.block # Nothing) =>
    LET b == call.block  t == call.arg.tx  x == Body[b][PlaceOf(b, t)] IN
    (~cache_more_things \/ ~(Twin(b) \/ FailedBefore(b, t))) =>
      \/ Answered(call.op) /\ answer.kind = x.call /\ answer.events = x.events
           /\ (~fee_disabled => answer.actual_fee = Last(x.events).amount)
      \/ answer = [error |-> "panic"] /\ x.events = <<>>

\* The execution status of a transaction that only one block has is the outcome
\* it had there, in the status and in the receipt, wherever the best block is.
StatusOfItsBlock ==
  \A b \in Block :
    (call.op \in ByTransaction /\ call.pc = "done" /\ {c \in Block : Contains(Transactions(c), call.arg.tx)} = {b}) =>
      LET outcome == IF Body[b][PlaceOf(b, call.arg.tx)].outcome = "reverted"
                     THEN "Reverted" ELSE "Succeeded" IN
      /\ Answered("get_transaction_status") => answer.execution_status = outcome
      /\ Answered("get_transaction_receipt") => answer.execution_result = outcome

\* What the RPC tells of the execution of a transaction, from the mapping, the
\* cache, the body and the runtime, is what happened to that transaction
\* (get_transaction_receipt, get_transaction_status).
ReceiptDescribes == ReceiptOfTransaction /\ StatusOfItsBlock

\* A declare transaction is submitted at a block where its class is not declared,
\* unless that block has left the best chain during the call: the class is looked
\* up at a later block than the one the pool validates at.
DeclareFresh ==
  \A s \in pool : (s.op = "add_declare_transaction" /\ s.at \in Canonical) =>
    s.arg.class \notin Classes[s.at]

EventsOf(b) == FlattenSeq([i \in DOMAIN Body[b] |-> Body[b][i].events])
AnsweredPages ==
  IF call.op # "get_events" THEN <<>>
  ELSE IF call.pc = "done" THEN answer.pages ELSE IF call.pc = "start" THEN call.arg.pages ELSE <<>>

\* Every event is given with the hash of the transaction that emitted it, with the
\* exceptions of ReceiptDescribes.
EventsAttributed ==
  \A p \in ToSet(AnsweredPages) : \A e \in ToSet(p) :
    \A b \in Block : \A i \in DOMAIN Body[b] :
      ((\E k \in DOMAIN Body[b][i].events : Body[b][i].events[k].id = e.id)
         /\ (~cache_more_things \/ ~(Twin(b) \/ FailedBefore(b, Body[b][i].tx))))
        => e.transaction_hash = Body[b][i].tx

\* The matching events from the first block of the filter on, along the best chain.
MatchingEvents(filter) ==
  LET from_block == block_number_of(filter.from)
      blocks == [k \in 1 .. (Number[best] - from_block + 1) |-> client_hash(from_block + k - 1)]
  IN SelectSeq(FlattenSeq([k \in DOMAIN blocks |-> EventsOf(blocks[k])]),
               LAMBDA e : Matches(e, filter))
Ids(events) == [i \in DOMAIN events |-> events[i].id]
Continue(pages) ==
  LET ids == Ids(FlattenSeq(pages))
      all == Ids(MatchingEvents(call.arg.filter))
      served == {b \in Block : \E id \in ToSet(ids) : Contains(Ids(EventsOf(b)), id)}
  IN served \subseteq Canonical => IsPrefix(ids, all)

\* The first two pages are the first matching events of the range, none lost and
\* none repeated, while the chain grows between the two requests and as long as
\* it does not drop a block that was served.  A range that begins at the latest
\* block begins elsewhere in each request.
SecondPageContinues ==
  (Len(AnsweredPages) \in 1 .. 2 /\ call.arg.filter.from[1] # "Latest") => Continue(AnsweredPages)
=============================================================================
