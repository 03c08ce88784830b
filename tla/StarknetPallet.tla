--------------------------- MODULE StarknetPallet ---------------------------
(***************************************************************************)
(* The Starknet pallet (pallets/starknet): the transactions a block author *)
(* takes from the pool, what each dispatchable does to the storage of the  *)
(* pallet, and the Starknet block on_finalize wraps in the digest.         *)
(*                                                                         *)
(* A pool validates transactions against the best block while the next one *)
(* is built, so what it knows may be stale when a transaction is           *)
(* dispatched; pre_dispatch does not validate again.  A dispatchable that  *)
(* returns Err is rolled back but its extrinsic stays in the block.  A     *)
(* block that is given up, or whose on_finalize panics, leaves no trace.   *)
(*                                                                         *)
(* Cairo code (blockifier) and the transaction pool are external: what     *)
(* they may do is a choice.  A transaction stands for its hash.            *)
(***************************************************************************)
EXTENDS Naturals, Sequences, FiniteSetsExt

CONSTANTS
  Tx,              \* transactions
  TxType,          \* "invoke0", "invoke", "declare0", "declare", "deploy" or "l1"
  Sender,          \* sender_address, or the contract of an L1 message
  TxNonce,         \* nonce
  Class,           \* class hash a declare transaction declares
  MaxFee,          \* max_fee
  PaidFee,         \* paid_fee_on_l1
  Account,         \* contract addresses
  Sequencer,       \* the address fees are transferred to
  Deployed,        \* contracts of the genesis configuration
  GenesisBalance,  \* fee token balances of the genesis configuration
  ActualFee,       \* bound: fees calculate_tx_fee may return
  MaxEvents,       \* bound: events a transaction emits before its fee transfer
  DisableTransactionFee,
  Zero,            \* the hash 0, and the address 0
  MaxBlocks,       \* bound: blocks after genesis
  MaxExtrinsics    \* bound: extrinsics in a block

TxTypes == {"invoke0", "invoke", "declare0", "declare", "deploy", "l1"}

ASSUME TxAssumption ==
  /\ TxType \in [Tx -> TxTypes]
  /\ Sender \in [Tx -> Account]
  /\ TxNonce \in [Tx -> Nat]
  /\ MaxFee \in [Tx -> Nat]
  /\ PaidFee \in [Tx -> Nat]
  /\ Sequencer \notin Account
  /\ Deployed \subseteq Account
  /\ GenesisBalance \in [Account \cup {Sequencer} -> Nat]
  /\ ActualFee \subseteq Nat
  /\ MaxEvents \in Nat
  /\ DisableTransactionFee \in BOOLEAN

VARIABLES
  storage,    \* the storage of the block being built
  committed,  \* the storage of the best block
  phase,      \* "closed", "inherents" or "transactions"
  body,       \* extrinsics of the block being built, inherents left out
  included,   \* transactions of sealed blocks whose tags the pool remembers
  pool,       \* validated transactions with the tags they wait for
  panicked    \* a block was lost to a panic of on_finalize

vars == <<storage, committed, phase, body, included, pool, panicked>>

Elements(s) == {s[i] : i \in DOMAIN s}

Holder == Account \cup {Sequencer}

----------------------------------------------------------------------------
(* Execution of one transaction, on a storage s *)

\* Transactions of version 0, L1 messages among them, bypass handle_nonce.
HasNonce(t) == TxType[t] \in {"invoke", "declare", "deploy"}

\* Mutation: the nonce is not incremented.
handle_nonce_Kept(t, s) == s

handle_nonce(t, s) ==
  IF HasNonce(t) THEN [s EXCEPT !.nonces[Sender[t]] = @ + 1] ELSE s

\* Mutation: a nonce already used is accepted.
handle_nonce_and_check_fee_balance_Stale(t, s) ==
  /\ HasNonce(t) => s.nonces[Sender[t]] >= TxNonce[t]
  /\ DisableTransactionFee \/ TxType[t] = "l1" \/ s.balance[Sender[t]] >= MaxFee[t]

\* The checks before any Cairo code runs.
handle_nonce_and_check_fee_balance(t, s) ==
  /\ HasNonce(t) => s.nonces[Sender[t]] = TxNonce[t]
  /\ DisableTransactionFee \/ TxType[t] = "l1" \/ s.balance[Sender[t]] >= MaxFee[t]

Transfer(balance, from, to, amount) ==
  [h \in DOMAIN balance |->
     IF from = to THEN balance[h]
     ELSE IF h = from THEN balance[h] - amount
     ELSE IF h = to THEN balance[h] + amount ELSE balance[h]]

\* What the Cairo code of a transaction may do to the fee token: its sender
\* passes one unit on, or none.
run_execute(t, s) ==
  {s} \cup {[s EXCEPT !.balance = Transfer(@, Sender[t], to, 1)] :
              to \in {a \in Account : s.balance[Sender[t]] > 0}}

ChargeOne(t, s, fee) ==
  [s EXCEPT !.balance = Transfer(@, Sender[t], Sequencer, fee),
            !.fees[t] = fee,
            !.tx_events[t] = @ + 1]

\* Mutation: the fee is not compared with max_fee.
charge_fee_AboveMax(t, s) ==
  IF DisableTransactionFee THEN {s}
  ELSE {ChargeOne(t, s, fee) : fee \in {f \in ActualFee : f <= s.balance[Sender[t]]}}

\* execute_fee_transfer fails, and with it the transaction, when the fee exceeds
\* max_fee or what the sender has left; it emits the event of the transfer.
charge_fee(t, s) ==
  IF DisableTransactionFee THEN {s}
  ELSE {ChargeOne(t, s, fee) :
          fee \in {f \in ActualFee : f <= MaxFee[t] /\ f <= s.balance[Sender[t]]}}

\* execute once the nonce is handled: user code, then the fee.
execute(t, s) == UNION {charge_fee(t, e) : e \in run_execute(t, s)}

emit_events(t, s) ==
  {[s EXCEPT !.tx_events[t] = @ + n] : n \in 0..MaxEvents}

store_transaction(t, s, revert_error) ==
  [s EXCEPT !.pending = Append(@, t), !.reverted[t] = revert_error]

\* The transaction is stored with the events of its execution...
Accepted(t, executed) ==
  {store_transaction(t, r, FALSE) : r \in UNION {emit_events(t, e) : e \in executed}}

\* ... or, when an invoke transaction fails, without them: it is charged, and what
\* it wrote before it failed stays.
Reverted(t, executed) == {store_transaction(t, r, TRUE) : r \in executed}

----------------------------------------------------------------------------
(* The dispatchables: the storages they may leave when they return Ok *)

InvokeOk(t, s) ==
  IF Sender[t] \in s.deployed /\ handle_nonce_and_check_fee_balance(t, s)
  THEN LET executed == execute(t, handle_nonce(t, s))
       IN Accepted(t, executed) \cup Reverted(t, executed)
  ELSE {}

\* Declaring runs no entry point, so that no event precedes the fee transfer.  It
\* cannot revert: the class was just found undeclared.
DeclareOk(t, s) ==
  IF /\ Class[t] \notin s.classes
     /\ Sender[t] \in s.deployed
     /\ handle_nonce_and_check_fee_balance(t, s)
  THEN {store_transaction(t, r, FALSE) :
          r \in charge_fee(t, [handle_nonce(t, s) EXCEPT !.classes = @ \cup {Class[t]}])}
  ELSE {}

DeployOk(t, s) ==
  IF Sender[t] \notin s.deployed /\ handle_nonce_and_check_fee_balance(t, s)
  THEN Accepted(t, execute(t, [handle_nonce(t, s) EXCEPT !.deployed = @ \cup {Sender[t]}]))
  ELSE {}

\* Mutation: a message is executed whether or not its nonce is recorded.
ConsumeOk_Unchecked(t, s) ==
  IF PaidFee[t] > 0
  THEN Accepted(t, run_execute(t, [s EXCEPT !.l1_messages = @ \cup {TxNonce[t]}]))
  ELSE {}

ConsumeOk(t, s) ==
  IF TxNonce[t] \notin s.l1_messages /\ PaidFee[t] > 0
  THEN Accepted(t, run_execute(t, [s EXCEPT !.l1_messages = @ \cup {TxNonce[t]}]))
  ELSE {}

----------------------------------------------------------------------------
(* The transaction pool *)

Tag(t) == <<IF TxType[t] = "l1" THEN Zero ELSE Sender[t], TxNonce[t]>>

\* validate_unsigned on the best block; the Cairo validation that may fail on top
\* of this is a rejection, which changes nothing.  A transaction that provides no
\* tag (InvokeV0) is turned down by the pool.
ValidTransaction(t) ==
  /\ TxType[t] # "invoke0"
  /\ IF TxType[t] = "l1"
     THEN TxNonce[t] \notin committed.l1_messages /\ PaidFee[t] > 0
     ELSE /\ TxNonce[t] >= committed.nonces[Sender[t]]
          /\ \/ TxType[t] \in {"deploy", "declare0"}
             \/ Sender[t] \in committed.deployed
             \/ TxNonce[t] = 1

Requires(t) ==
  IF TxType[t] # "l1" /\ TxNonce[t] > committed.nonces[Sender[t]]
  THEN {<<Sender[t], TxNonce[t] - 1>>} ELSE {}

\* A transaction enters the pool, or is validated again on a new best block.
validate_unsigned(t) ==
  /\ ValidTransaction(t)
  /\ pool' = {p \in pool : p.tx # t} \cup {[tx |-> t, requires |-> Requires(t)]}
  /\ UNCHANGED <<storage, committed, phase, body, included, panicked>>

\* A transaction leaves the pool: it became invalid or its longevity is over.
Evict(t) ==
  /\ t \in {p.tx : p \in pool}
  /\ pool' = {p \in pool : p.tx # t}
  /\ UNCHANGED <<storage, committed, phase, body, included, panicked>>

----------------------------------------------------------------------------
(* Building a block *)

initialize_block ==
  /\ phase = "closed"
  /\ Len(committed.bodies) <= MaxBlocks
  /\ phase' = "inherents"
  /\ body' = <<>>
  /\ UNCHANGED <<storage, committed, included, pool, panicked>>

\* The inherent of the author comes first.
set_sequencer_address ==
  /\ phase = "inherents"
  /\ Len(storage.bodies) > 1 => ~storage.seq_addr_update
  /\ storage' = [storage EXCEPT !.seq_addr_update = TRUE]
  /\ phase' = "transactions"
  /\ UNCHANGED <<committed, body, included, pool, panicked>>

\* A block whose author left the inherent out.
OmitInherent ==
  /\ phase = "inherents"
  /\ phase' = "transactions"
  /\ UNCHANGED <<storage, committed, body, included, pool, panicked>>

\* The author takes a transaction whose tags are provided by earlier ones, and
\* dispatches it.  Err, which Cairo code may always cause, is rolled back.
Dispatch(t, results) ==
  /\ phase = "transactions"
  /\ Len(body) < MaxExtrinsics
  /\ t \notin Elements(body)
  /\ \E p \in pool : /\ p.tx = t
                     /\ p.requires \subseteq {Tag(u) : u \in included \cup Elements(body)}
  /\ storage' \in results \cup {storage}
  /\ body' = Append(body, t)
  /\ UNCHANGED <<committed, phase, included, pool, panicked>>

invoke(t) == TxType[t] = "invoke" /\ Dispatch(t, InvokeOk(t, storage))

declare(t) == TxType[t] \in {"declare0", "declare"} /\ Dispatch(t, DeclareOk(t, storage))

deploy_account(t) == TxType[t] = "deploy" /\ Dispatch(t, DeployOk(t, storage))

consume_l1_message(t) == TxType[t] = "l1" /\ Dispatch(t, ConsumeOk(t, storage))

\* Mutation: off by one.
parent_block_hash_Own(s, n) == IF n = 0 THEN Zero ELSE s.block_hash[n]

parent_block_hash(s, n) == IF n = 0 THEN Zero ELSE s.block_hash[n - 1]

\* The digest gets a header, which also stands for its hash, and a body.
store_block(s) ==
  LET n == Len(s.bodies)
      header == [parent |-> parent_block_hash(s, n),
                 number |-> n,
                 transaction_count |-> Len(s.pending),
                 event_count |-> MapThenSumSet(LAMBDA i : s.tx_events[s.pending[i]],
                                               DOMAIN s.pending)]
  IN [s EXCEPT !.block_hash[n] = header,
               !.headers = Append(@, header),
               !.bodies = Append(@, s.pending),
               !.tx_events = [t \in Tx |-> IF t \in Elements(s.pending) THEN 0 ELSE @[t]],
               !.pending = <<>>]

\* The block is sealed and imported as the best one; the pool prunes the tags its
\* extrinsics provide.
Seal(s) ==
  /\ storage' = s
  /\ committed' = s
  /\ included' = included \cup Elements(body)
  /\ pool' = {p \in pool : Tag(p.tx) \notin {Tag(u) : u \in Elements(body)}}
  /\ UNCHANGED panicked

on_finalize ==
  /\ phase = "transactions"
  /\ IF storage.seq_addr_update
     THEN Seal(store_block([storage EXCEPT !.seq_addr_update = FALSE]))
     ELSE storage' = committed /\ panicked' = TRUE /\ UNCHANGED <<committed, included, pool>>
  /\ phase' = "closed"
  /\ body' = <<>>

\* The block is given up before it is sealed.
GiveUp ==
  /\ phase # "closed"
  /\ storage' = committed
  /\ phase' = "closed"
  /\ body' = <<>>
  /\ UNCHANGED <<committed, included, pool, panicked>>

\* The node restarts: the pool and what it remembers are gone.
Restart ==
  /\ storage' = committed
  /\ phase' = "closed"
  /\ body' = <<>>
  /\ included' = {}
  /\ pool' = {}
  /\ UNCHANGED <<committed, panicked>>

----------------------------------------------------------------------------
\* Mutation: SeqAddrUpdate is not set.
GenesisStorage_NotUpdated ==
  store_block([nonces |-> [a \in Account |-> 0],
               deployed |-> Deployed,
               classes |-> {},
               l1_messages |-> {},
               balance |-> GenesisBalance,
               fees |-> [t \in Tx |-> 0],
               tx_events |-> [t \in Tx |-> 0],
               reverted |-> [t \in Tx |-> FALSE],
               pending |-> <<>>,
               seq_addr_update |-> FALSE,
               block_hash |-> [n \in 0..MaxBlocks |-> Zero],
               headers |-> <<>>,
               bodies |-> <<>>])

\* The genesis build stores block 0 and sets SeqAddrUpdate.
GenesisStorage ==
  store_block([nonces |-> [a \in Account |-> 0],
               deployed |-> Deployed,
               classes |-> {},
               l1_messages |-> {},
               balance |-> GenesisBalance,
               fees |-> [t \in Tx |-> 0],
               tx_events |-> [t \in Tx |-> 0],
               reverted |-> [t \in Tx |-> FALSE],
               pending |-> <<>>,
               seq_addr_update |-> TRUE,
               block_hash |-> [n \in 0..MaxBlocks |-> Zero],
               headers |-> <<>>,
               bodies |-> <<>>])

Init ==
  /\ storage = GenesisStorage
  /\ committed = GenesisStorage
  /\ phase = "closed"
  /\ body = <<>>
  /\ included = {}
  /\ pool = {}
  /\ panicked = FALSE

Next ==
  \/ \E t \in Tx : validate_unsigned(t)
  \/ \E t \in Tx : Evict(t)
  \/ initialize_block
  \/ set_sequencer_address
  \/ OmitInherent
  \/ \E t \in Tx : invoke(t)
  \/ \E t \in Tx : declare(t)
  \/ \E t \in Tx : deploy_account(t)
  \/ \E t \in Tx : consume_l1_message(t)
  \/ on_finalize
  \/ GiveUp
  \/ Restart

Spec == Init /\ [][Next]_vars

----------------------------------------------------------------------------
(* Properties *)

\* The transactions of the blocks of s and, last, those pending.
Bodies(s) == Append(s.bodies, s.pending)

Positions(s) == UNION {{<<i, k>> : k \in DOMAIN Bodies(s)[i]} : i \in DOMAIN Bodies(s)}

At(s, p) == Bodies(s)[p[1]][p[2]]

Stored(s) == {At(s, p) : p \in Positions(s)}

\* No transaction is executed twice, in one block or in two, whatever the pool
\* offers the author again: handle_nonce, the class and account checks and
\* L1Messages each stop a second execution although pre_dispatch validates
\* nothing.
ExecutedOnce ==
  \A p, q \in Positions(storage) : At(storage, p) = At(storage, q) => p = q

\* The transactions of an account with a nonce are stored in the order of their
\* nonces, without a gap, and Nonces holds the next one, also when transactions
\* before them failed and were rolled back.
NonceOrder ==
  LET Of(a) == {p \in Positions(storage) : HasNonce(At(storage, p)) /\ Sender[At(storage, p)] = a}
      Before(p, q) == p[1] < q[1] \/ (p[1] = q[1] /\ p[2] < q[2])
  IN \A a \in Account :
       /\ {TxNonce[At(storage, p)] : p \in Of(a)} = 0..storage.nonces[a] - 1
       /\ \A p, q \in Of(a) : Before(p, q) => TxNonce[At(storage, p)] < TxNonce[At(storage, q)]

\* An L1 message nonce is recorded exactly when one message with that nonce was
\* executed and stored: consume_l1_message never runs two messages of one nonce,
\* and a failed one can still be retried.
L1MessagesExactlyOnce ==
  LET l1 == {t \in Stored(storage) : TxType[t] = "l1"}
  IN /\ storage.l1_messages = {TxNonce[t] : t \in l1}
     /\ \A t, u \in l1 : TxNonce[t] = TxNonce[u] => t = u

\* The fee token is conserved, and the sequencer received exactly the fees of the
\* stored transactions, none above its max_fee: a transaction that cannot pay
\* after its own code ran is rolled back as a whole.
FeesConserved ==
  LET Total(f) == MapThenSumSet(LAMBDA h : f[h], DOMAIN f)
  IN /\ Total(storage.balance) = Total(GenesisBalance)
     /\ storage.balance[Sequencer] = GenesisBalance[Sequencer] + Total(storage.fees)
     /\ \A t \in Tx : /\ storage.fees[t] <= MaxFee[t]
                      /\ storage.fees[t] > 0 => t \in Stored(storage)

\* Every block in a digest extends the one before and counts its own transactions
\* and events; nothing pending or emitted is carried into the next block by
\* store_block, nor left behind by a block that was given up.
BlocksSound ==
  /\ \A i \in DOMAIN storage.bodies :
       LET header == storage.headers[i]
           txs == storage.bodies[i]
           paying == {t \in Elements(txs) : TxType[t] # "l1" /\ ~DisableTransactionFee}
       IN /\ header.number = i - 1
          /\ header.parent = IF i = 1 THEN Zero ELSE storage.headers[i - 1]
          /\ header.transaction_count = Len(txs)
          /\ header.event_count \in
               Cardinality(paying)..(Cardinality(paying) + MaxEvents * Len(txs))
  /\ \A t \in Tx : storage.tx_events[t] > 0 => t \in Elements(storage.pending)
  /\ phase = "closed" => storage.pending = <<>>

\* on_finalize panics for want of the inherent only on top of a block that took
\* the flag away: the block after genesis is always sealed, also after blocks
\* that were given up and restarts (SeqAddrUpdate::put(true) of the genesis build).
FirstBlockSealed == panicked => Len(committed.bodies) > 1
=============================================================================
