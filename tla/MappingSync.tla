---------------------------- MODULE MappingSync ----------------------------
(***************************************************************************)
(* The worker that keeps the Madara mapping database in step with the      *)
(* Substrate chain (client/mapping-sync) and the two databases it writes   *)
(* (client/db: mapping_db, meta_db).                                       *)
(*                                                                         *)
(* Every Substrate block wraps a Starknet block in its digest.  The worker *)
(* walks from the leaves of the block tree towards genesis, one block per  *)
(* poll.  For each block it makes two separate database commits: the       *)
(* mapping entry of the block, then the list of tips still to visit.  The  *)
(* process may stop between the two, and either database call may fail.    *)
(*                                                                         *)
(* The Substrate backend (block tree, leaves, best block, import           *)
(* notifications) is external and modelled from how the worker uses it.    *)
(***************************************************************************)
EXTENDS Naturals, Sequences, FiniteSets

CONSTANTS
  Block,         \* Substrate block hashes
  Genesis,       \* the block with number 0
  Parent,        \* parent_hash of each block but Genesis
  Number,        \* header number of each block
  Logs,          \* how many Madara logs the digest of each block holds
  StarknetHash,  \* hash of the Starknet block wrapped in each block
  TxHashes,      \* its transaction hashes, in order
  Hash,          \* Starknet block hashes
  Tx,            \* Starknet transaction hashes
  NoBlock,       \* an absent database entry
  SyncFrom,      \* sync_from: first block number to map (0 in the node)
  CacheMoreThings, \* cache_more_things: transaction hashes are cached
  Limit,         \* retry_times: calls of sync_one_block per poll (3 in the node)
  MaxErrors,     \* bound: failing database or header reads
  MaxLost,       \* bound: commits of the tips that are lost
  MaxRestarts    \* bound: restarts of the node

ASSUME BlockAssumption ==
  /\ IsFiniteSet(Block)
  /\ Genesis \in Block
  /\ NoBlock \notin Block
  /\ Parent \in [Block \ {Genesis} -> Block]
  /\ Number \in [Block -> Nat]
  /\ Number[Genesis] = 0
  /\ \A b \in Block \ {Genesis} : Number[b] = Number[Parent[b]] + 1
  /\ Logs \in [Block -> Nat]
  /\ StarknetHash \in [Block -> Hash]
  /\ TxHashes \in [Block -> Seq(Tx)]

\* A Starknet header hash covers the block number and the number of transactions,
\* but not the transactions.
ASSUME HashAssumption ==
  \A a, b \in Block : StarknetHash[a] = StarknetHash[b] =>
    Number[a] = Number[b] /\ Len(TxHashes[a]) = Len(TxHashes[b])

ASSUME BoundAssumption ==
  /\ CacheMoreThings \in BOOLEAN
  /\ SyncFrom \in Nat /\ Limit \in Nat \ {0} /\ MaxErrors \in Nat
  /\ MaxLost \in Nat /\ MaxRestarts \in Nat

VARIABLES
  \* Substrate backend
  imported,      \* blocks of the tree
  best,          \* best block
  \* Madara database
  synced,        \* SYNCED_MAPPING: blocks already processed
  block_mapping, \* BLOCK_MAPPING: Starknet hash -> Substrate hashes
  tx_mapping,    \* TRANSACTION_MAPPING: transaction hash -> Substrate hash
  tx_hashes_cache, \* STARKNET_TRANSACTION_HASHES_CACHE: Starknet hash -> transaction hashes
  tips,          \* CURRENT_SYNCING_TIPS
  \* the worker
  pc,            \* "idle", "sync" (between sync_one_block calls), "tips"
  notified,      \* import_notifications holds an item
  have_next,
  inner_delay,   \* "none", "armed" or "elapsed"
  attempts,      \* calls of sync_one_block left in this sync_blocks
  operating,     \* the block whose mapping was just committed
  next_tips,     \* the tips about to be committed
  \* what went wrong so far
  errors,        \* number of failed reads
  misread,       \* blocks whose header could not be read the second time
  lost,          \* blocks whose commit of the tips was lost
  restarts       \* number of restarts

chainVars == <<imported, best>>
dbVars == <<synced, block_mapping, tx_mapping, tx_hashes_cache, tips>>
workerVars == <<pc, notified, have_next, inner_delay, attempts, operating, next_tips>>
faultVars == <<errors, misread, lost, restarts>>
vars == <<chainVars, dbVars, workerVars, faultVars>>

Elements(s) == {s[i] : i \in DOMAIN s}

----------------------------------------------------------------------------
(* The block tree *)

Leaves == {b \in imported : \A c \in imported \ {Genesis} : Parent[c] # b}

\* blockchain().leaves(): highest number first, so that pop() takes the lowest.
LeafOrders ==
  {s \in [1..Cardinality(Leaves) -> Leaves] :
     /\ Elements(s) = Leaves
     /\ \A i, j \in DOMAIN s : i < j => Number[s[i]] >= Number[s[j]]}

\* A block joins the tree; the longest chain is the best one.  Blocks fetched
\* during the initial synchronisation of the chain send no import notification.
ImportBlock(b) ==
  /\ b \in Block \ imported
  /\ Parent[b] \in imported
  /\ imported' = imported \cup {b}
  /\ best' = IF Number[b] > Number[best] THEN b ELSE best
  /\ notified' \in {notified, TRUE}
  /\ UNCHANGED <<dbVars, pc, have_next, inner_delay, attempts, operating, next_tips, faultVars>>

----------------------------------------------------------------------------
(* The mapping database *)

\* What write_hashes stores about the transactions of a block.
write_transaction_hashes(b, txs) ==
  /\ tx_mapping' = [t \in Tx |-> IF t \in Elements(txs) THEN b ELSE tx_mapping[t]]
  /\ tx_hashes_cache' = IF CacheMoreThings
                         THEN [tx_hashes_cache EXCEPT ![StarknetHash[b]] = txs]
                         ELSE tx_hashes_cache

\* Mutation: the block is not marked as processed.
write_hashes_Unmarked(b, txs) ==
  /\ block_mapping' = [block_mapping EXCEPT ![StarknetHash[b]] = Append(@, b)]
  /\ write_transaction_hashes(b, txs)
  /\ UNCHANGED synced

\* Mutation: a Substrate block replaces the ones registered before.
write_hashes_Replacing(b, txs) ==
  /\ block_mapping' = [block_mapping EXCEPT ![StarknetHash[b]] = <<b>>]
  /\ write_transaction_hashes(b, txs)
  /\ synced' = synced \cup {b}

\* One database transaction.
write_hashes(b, txs) ==
  /\ block_mapping' = [block_mapping EXCEPT ![StarknetHash[b]] = Append(@, b)]
  /\ synced' = synced \cup {b}
  /\ write_transaction_hashes(b, txs)

write_none(b) ==
  /\ synced' = synced \cup {b}
  /\ UNCHANGED <<block_mapping, tx_mapping, tx_hashes_cache>>

----------------------------------------------------------------------------
(* The worker *)

\* A stored tip that fetch_header turns down, and the loop drops.
Skipped(b) == b \in synced \/ Number[b] < SyncFrom

\* current_syncing_tips, or the leaves when none is stored.
TipsToVisit == IF tips = <<>> THEN LeafOrders ELSE {tips}

\* Mutation: an elapsed delay is not noticed.
Fire_NoTimeout == notified \/ have_next

Fire == notified \/ inner_delay = "elapsed" \/ have_next

\* poll_next up to the call of sync_blocks.  Any import notification, an elapsed
\* delay or have_next fires; otherwise the delay is armed.
poll_next ==
  /\ pc = "idle"
  /\ notified' = FALSE
  /\ IF Fire
     THEN pc' = "sync" /\ attempts' = Limit /\ inner_delay' = "none"
     ELSE inner_delay = "none" /\ inner_delay' = "armed" /\ UNCHANGED <<pc, attempts>>
  /\ UNCHANGED <<chainVars, dbVars, have_next, operating, next_tips, faultVars>>

\* The timer of inner_delay.
Elapse ==
  /\ inner_delay = "armed"
  /\ inner_delay' = "elapsed"
  /\ UNCHANGED <<chainVars, dbVars, pc, notified, have_next, attempts, operating, next_tips, faultVars>>

\* sync_blocks returns to poll_next, have_next is Ok's value or FALSE on Err; its
\* locals go out of scope.
Return(r) ==
  /\ pc' = "idle"
  /\ have_next' = r
  /\ attempts' = Limit
  /\ operating' = Genesis
  /\ next_tips' = <<>>

\* The loop of sync_blocks after Ok(false).
Retry ==
  IF attempts = 1
  THEN Return(FALSE)
  ELSE attempts' = attempts - 1 /\ UNCHANGED <<pc, have_next, operating, next_tips>>

\* sync_one_block when every tip is dropped: one commit, Ok(false).
DrainTips ==
  /\ pc = "sync"
  /\ \E ts \in TipsToVisit : \A i \in DOMAIN ts : Skipped(ts[i])
  /\ tips' = <<>>
  /\ Retry
  /\ UNCHANGED <<chainVars, synced, block_mapping, tx_mapping, tx_hashes_cache, notified, inner_delay, faultVars>>

\* sync_block and sync_genesis_block: the first commit of a visit.  The genesis
\* block is mapped without its transactions.
sync_block(b) ==
  IF Logs[b] = 1
  THEN write_hashes(b, IF b = Genesis THEN <<>> ELSE TxHashes[b])
  ELSE write_none(b)

\* Mutation: the walk stops at the visited block.
TipsAfter_NoParent(ts, k) == SubSeq(ts, 1, k - 1)

\* The tips left once the k-th was visited and the later ones were dropped.
TipsAfter(ts, k) ==
  IF ts[k] = Genesis THEN SubSeq(ts, 1, k - 1)
  ELSE Append(SubSeq(ts, 1, k - 1), Parent[ts[k]])

\* sync_one_block up to its first commit: tips are popped until one is not
\* skipped; its parent is pushed for the next visit.  When get_block_by_block_hash
\* fails to read the header again, sync_block records a block without Starknet
\* block.
VisitTip ==
  /\ pc = "sync"
  /\ \E ts \in TipsToVisit : \E k \in DOMAIN ts :
       LET b == ts[k] IN
       /\ ~Skipped(b)
       /\ \A j \in DOMAIN ts : j > k => Skipped(ts[j])
       /\ Logs[b] <= 1
       /\ \/ sync_block(b) /\ UNCHANGED <<errors, misread>>
          \/ /\ b # Genesis /\ Logs[b] = 1 /\ errors < MaxErrors
             /\ write_none(b)
             /\ errors' = errors + 1
             /\ misread' = misread \cup {b}
       /\ operating' = b
       /\ next_tips' = TipsAfter(ts, k)
  /\ pc' = "tips"
  /\ UNCHANGED <<chainVars, tips, notified, have_next, inner_delay, attempts, lost, restarts>>

\* sync_one_block's second commit; Ok(true) ends the loop of sync_blocks.
write_current_syncing_tips ==
  /\ pc = "tips"
  /\ tips' = next_tips
  /\ Return(TRUE)
  /\ UNCHANGED <<chainVars, synced, block_mapping, tx_mapping, tx_hashes_cache, notified, inner_delay, faultVars>>

\* The digest of the block on top holds several Madara logs: Err, nothing written.
MultipleLogs ==
  /\ pc = "sync"
  /\ \E ts \in TipsToVisit : \E k \in DOMAIN ts :
       /\ ~Skipped(ts[k])
       /\ \A j \in DOMAIN ts : j > k => Skipped(ts[j])
       /\ Logs[ts[k]] > 1
  /\ Return(FALSE)
  /\ UNCHANGED <<chainVars, dbVars, notified, inner_delay, faultVars>>

\* Any read, or the first commit, fails before something is written.
SyncError ==
  /\ pc = "sync"
  /\ errors < MaxErrors
  /\ errors' = errors + 1
  /\ Return(FALSE)
  /\ UNCHANGED <<chainVars, dbVars, notified, inner_delay, misread, lost, restarts>>

\* The commit of the tips fails: Err, the next poll starts from the old tips.
TipsError ==
  /\ pc = "tips"
  /\ Cardinality(lost) < MaxLost
  /\ lost' = lost \cup {operating}
  /\ Return(FALSE)
  /\ UNCHANGED <<chainVars, dbVars, notified, inner_delay, errors, misread, restarts>>

\* The node stops and starts again.  Only the databases survive.
Restart ==
  /\ restarts < MaxRestarts
  /\ restarts' = restarts + 1
  /\ pc = "tips" => Cardinality(lost) < MaxLost
  /\ lost' = IF pc = "tips" THEN lost \cup {operating} ELSE lost
  /\ Return(TRUE)
  /\ notified' = FALSE
  /\ inner_delay' = "none"
  /\ UNCHANGED <<chainVars, dbVars, errors, misread>>

----------------------------------------------------------------------------
Init ==
  /\ imported = {Genesis}
  /\ best = Genesis
  /\ synced = {}
  /\ block_mapping = [h \in Hash |-> <<>>]
  /\ tx_mapping = [t \in Tx |-> NoBlock]
  /\ tx_hashes_cache = [h \in Hash |-> NoBlock]
  /\ tips = <<>>
  /\ pc = "idle"
  /\ notified = FALSE
  /\ have_next = TRUE
  /\ inner_delay = "none"
  /\ attempts = Limit
  /\ operating = Genesis
  /\ next_tips = <<>>
  /\ errors = 0
  /\ misread = {}
  /\ lost = {}
  /\ restarts = 0

Worker ==
  \/ poll_next
  \/ DrainTips
  \/ VisitTip
  \/ write_current_syncing_tips
  \/ MultipleLogs

Next ==
  \/ \E b \in Block : ImportBlock(b)
  \/ Worker
  \/ Elapse
  \/ SyncError
  \/ TipsError
  \/ Restart

Spec == Init /\ [][Next]_vars

\* The executor keeps polling the worker, and timers elapse.
FairSpec == Spec /\ WF_vars(Worker) /\ WF_vars(Elapse)

----------------------------------------------------------------------------
(* The readers of the mapping *)

Ancestry[b \in Block] == IF b = Genesis THEN {b} ELSE {b} \cup Ancestry[Parent[b]]

\* The block the client knows under the number of b is b itself.
is_canon(b) == b \in Ancestry[best]

\* The first canonical Substrate block mapped to a Starknet block hash.
load_hash(h) ==
  LET canon == SelectSeq(block_mapping[h], is_canon)
  IN IF canon = <<>> THEN NoBlock ELSE canon[1]

----------------------------------------------------------------------------
(* Properties *)

TypeOK ==
  /\ imported \in SUBSET Block
  /\ best \in Block
  /\ synced \in SUBSET Block
  /\ block_mapping \in [Hash -> Seq(Block)]
  /\ tx_mapping \in [Tx -> Block \cup {NoBlock}]
  /\ tx_hashes_cache \in [Hash -> Seq(Tx) \cup {NoBlock}]
  /\ tips \in Seq(Block)
  /\ pc \in {"idle", "sync", "tips"}
  /\ notified \in BOOLEAN
  /\ have_next \in BOOLEAN
  /\ inner_delay \in {"none", "armed", "elapsed"}
  /\ attempts \in 1..Limit
  /\ operating \in Block
  /\ next_tips \in Seq(Block)
  /\ errors \in Nat
  /\ misread \in SUBSET Block
  /\ lost \in SUBSET Block
  /\ restarts \in Nat

\* Blocks the worker will still visit without a new leaf being imported.
Covered(b) ==
  \/ Skipped(b)
  \/ b \in Elements(tips)
  \/ pc = "tips" /\ b \in Elements(next_tips)

\* sync_one_block leaves no hole behind it: below a processed block the walk
\* towards genesis has been done or is still recorded, unless the commit of the
\* tips that should have followed the commit of that very block was lost.
GapsOnlyBelowLostTips ==
  \A b \in synced \ ({Genesis} \cup lost) : Covered(Parent[b])

\* A Substrate block is registered once, under the hash of the Starknet block it
\* wraps; a processed block that is not registered wraps none or was misread.
BlocksRegistered ==
  /\ \A h \in Hash : \A i, j \in DOMAIN block_mapping[h] :
        /\ block_mapping[h][i] \in synced
        /\ Logs[block_mapping[h][i]] = 1
        /\ StarknetHash[block_mapping[h][i]] = h
        /\ block_mapping[h][i] = block_mapping[h][j] => i = j
  /\ \A b \in synced \ misread :
        Logs[b] = 1 => b \in Elements(block_mapping[StarknetHash[b]])

\* A transaction hash leads to a processed block that holds the transaction,
\* whichever forks were visited and in whichever order.
TransactionsResolve ==
  /\ \A t \in Tx : tx_mapping[t] # NoBlock =>
        tx_mapping[t] \in synced /\ t \in Elements(TxHashes[tx_mapping[t]])
  /\ \A b \in synced \ ({Genesis} \cup misread) :
        Logs[b] = 1 => \A t \in Elements(TxHashes[b]) : tx_mapping[t] # NoBlock

\* The cached transaction hashes of a Starknet block hash are those of one processed
\* block with that hash, and as many as any block with that hash has transactions:
\* the RPC pairs them with the transactions of the block by index.
CacheConsistent ==
  \A b \in synced \ ({Genesis} \cup misread) : CacheMoreThings /\ Logs[b] = 1 =>
    LET cached == tx_hashes_cache[StarknetHash[b]]
    IN /\ cached # NoBlock /\ Len(cached) = Len(TxHashes[b])
       /\ \E c \in synced : StarknetHash[c] = StarknetHash[b] /\ cached = TxHashes[c]

\* What write_hashes has stored in the transaction that marks a block as processed
\* agrees in all its columns, at every step and in every order of visits.
MappingSound == BlocksRegistered /\ TransactionsResolve /\ CacheConsistent

\* load_hash finds every processed block of the best chain by its Starknet hash,
\* also when a fork wraps a Starknet block with the same hash and after the best
\* chain has changed.
CanonicalResolvable ==
  \A b \in (synced \cap Ancestry[best]) \ misread :
     Logs[b] = 1 => load_hash(StarknetHash[b]) = b

\* Every imported block is processed in the end, unless a commit of the tips was
\* lost or a digest with two Madara logs stops the walk: a failing read is
\* retried when inner_delay elapses, without a new block being needed.
EventuallySynced ==
  []<>(imported \subseteq synced \/ lost # {} \/ \E b \in imported : Logs[b] > 1)

\* What the settlement thread expects of the mapping ("eventually it will be
\* ok"): a Starknet block of the tree can be found by its hash in the end.
EventuallyMapped ==
  \A b \in Block :
    (b \in imported /\ Logs[b] = 1) ~> (b \in Elements(block_mapping[StarknetHash[b]]))
============================================================================
