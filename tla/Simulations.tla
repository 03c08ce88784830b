---------------------------- MODULE Simulations ----------------------------
(***************************************************************************)
(* Execution outside blocks: fee estimation, simulation and the trace of a *)
(* block (pallets/starknet/src/simulations.rs, client/rpc/src/trace_api.rs)*)
(* against the execution of the same transactions in blocks.               *)
(*                                                                         *)
(* Execute of mp_transactions is an operator from a state, a block context *)
(* and an execution configuration to a result.  A transaction is a record: *)
(*   kind "invoke", "declare", "deploy_account" or "l1_handler"; version;  *)
(*   sender; nonce; max_fee; class; paid_fee (L1 handlers)                 *)
(*   fee: what calculate_tx_fee gives; valid: its validation succeeds      *)
(*   pays, to: the fee token its code passes on; runs: "always", "never"   *)
(*   or "even", when its code asks for the block number.                   *)
(* A state has the nonces, the balances, the deployed contracts and the    *)
(* declared classes; blocks of two forks keep the state after them.        *)
(***************************************************************************)
EXTENDS Integers, Sequences, SequencesExt, FiniteSets, TLC

CONSTANTS
  Batches,          \* for each fork, the sequences of transactions its blocks may be offered
  Requests,         \* the sequences of transactions a call may have
  FlagLists,        \* the lists of simulation flags a call may have
  Messages,         \* the L1 messages a call may have
  GenesisState,
  Sequencers,       \* for each fork and block number, the sequencer address
  DisableTransactionFee, DisableNonceValidation,
  FeeWidth,         \* number of bits a fee estimate keeps
  MaxBlocks,        \* bound: blocks of a fork, genesis left out
  Nothing

VARIABLES
  chains,           \* for each of the two forks, its blocks
  best,             \* the fork of the best block
  sierra_classes,   \* the Sierra classes of the database
  paid_fees,        \* the messages with an L1_HANDLER_PAID_FEE
  call,             \* the request being served, or served last
  answer            \* Nothing while it is served

vars == <<chains, best, sierra_classes, paid_fees, call, answer>>

Fork == {1, 2}
Err == [ok |-> FALSE]

----------------------------------------------------------------------------
(* RuntimeExecutionConfigBuilder *)

new ==
  [is_query |-> FALSE, disable_fee_charge |-> FALSE, disable_validation |-> FALSE,
   disable_nonce_validation |-> DisableNonceValidation,
   disable_transaction_fee |-> DisableTransactionFee]

with_query_mode(c) == [c EXCEPT !.is_query = TRUE]

\* Mutation: the two flags are swapped.
with_simulation_mode_Swapped(c, flags) ==
  [c EXCEPT !.disable_fee_charge = flags.skip_validate,
            !.disable_validation = flags.skip_fee_charge]

with_simulation_mode(c, flags) ==
  [c EXCEPT !.disable_fee_charge = flags.skip_fee_charge,
            !.disable_validation = flags.skip_validate]

with_disable_nonce_validation(c) == [c EXCEPT !.disable_nonce_validation = TRUE]

\* SimulationFlags::from a list of flags.
SimulationFlags(list) ==
  [skip_validate |-> Contains(list, "SkipValidate"),
   skip_fee_charge |-> Contains(list, "SkipFeeCharge")]

----------------------------------------------------------------------------
(* Execute *)

\* Version 0, which L1 handlers have too.
is_v0(t) == t.version = 0

HandlesNonce(t, config) == ~config.disable_nonce_validation /\ ~is_v0(t)

\* Mutation: an estimate also needs a balance of max_fee.
handle_nonce_and_check_fee_balance_Query(s, t, config) ==
  /\ HandlesNonce(t, config) => s.nonces[t.sender] = t.nonce
  /\ \/ t.max_fee = 0 \/ config.disable_fee_charge \/ config.disable_transaction_fee
     \/ s.balance[t.sender] >= t.max_fee

handle_nonce_and_check_fee_balance(s, t, config) ==
  /\ HandlesNonce(t, config) => s.nonces[t.sender] = t.nonce
  /\ \/ t.max_fee = 0 \/ config.disable_fee_charge \/ config.disable_transaction_fee
     \/ config.is_query \/ s.balance[t.sender] >= t.max_fee

handle_nonce(s, t, config) ==
  IF HandlesNonce(t, config) THEN [s EXCEPT !.nonces[t.sender] = @ + 1] ELSE s

Transfer(s, from, to, amount) ==
  LET taken == [s.balance EXCEPT ![from] = @ - amount]
  IN [s EXCEPT !.balance = [taken EXCEPT ![to] = @ + amount]]

\* The __validate__ entry point of the sender, None for version 0.
validate_tx_inner(s, t, config) ==
  CASE config.disable_validation \/ is_v0(t) -> "None"
    [] ~config.disable_validation /\ ~is_v0(t) /\ t.valid /\ t.sender \in s.deployed -> "Some"
    [] OTHER -> "Err"

\* The Cairo code of an entry point: it pays t.pays, unless the balance is too low,
\* and may fail after that.  What it wrote before it failed stays.
entry_point(s, ctx, t) ==
  IF t.sender \notin s.deployed \/ s.balance[t.sender] < t.pays THEN [ok |-> FALSE, state |-> s]
  ELSE [ok |-> t.runs = "always" \/ (t.runs = "even" /\ ctx.number % 2 = 0),
        state |-> Transfer(s, t.sender, t.to, t.pays)]

\* The executors of blockifier.  Only a declare transaction of version 2 minds a
\* class that is declared already.
run_execute(s, ctx, t) ==
  CASE t.kind = "declare" ->
         [ok |-> t.version < 2 \/ t.class \notin s.classes,
          state |-> [s EXCEPT !.classes = @ \cup {t.class}]]
    [] t.kind = "deploy_account" ->
         IF t.sender \in s.deployed \/ t.class \notin s.classes THEN [ok |-> FALSE, state |-> s]
         ELSE entry_point([s EXCEPT !.deployed = @ \cup {t.sender}], ctx, t)
    [] OTHER -> entry_point(s, ctx, t)

\* Validation comes first, but for the account that is deployed, and an L1 handler
\* has none.  Invoke and declare transactions above version 0 revert, the others
\* fail.
execute_inner(s, ctx, t, config) ==
  LET run == run_execute(s, ctx, t)
      validate_call_info ==
        CASE t.kind = "l1_handler" -> "None"
          [] t.kind = "deploy_account" -> validate_tx_inner(run.state, t, config)
          [] OTHER -> validate_tx_inner(s, t, config)
      can_revert == t.kind \in {"invoke", "declare"} /\ ~is_v0(t)
  IN IF validate_call_info = "Err" \/ (~run.ok /\ ~can_revert) THEN Err
     ELSE [ok |-> TRUE, state |-> run.state, reverted |-> ~run.ok, validated |-> validate_call_info]

\* No fee at all, a fee that is only computed, or a transfer, which fails above
\* max_fee and above the balance.
charge_fee(s, ctx, t, fee, config) ==
  CASE config.disable_transaction_fee -> [ok |-> TRUE, state |-> s, fee |-> 0, charged |-> FALSE]
    [] ~config.disable_transaction_fee /\ (config.disable_fee_charge \/ config.is_query) ->
         [ok |-> TRUE, state |-> s, fee |-> fee, charged |-> FALSE]
    [] OTHER -> IF fee > t.max_fee \/ fee > s.balance[t.sender] THEN Err
                ELSE [ok |-> TRUE, state |-> Transfer(s, t.sender, ctx.sequencer, fee),
                      fee |-> fee, charged |-> TRUE]

\* A transaction that reverts uses fewer resources.  An L1 handler is charged
\* nothing, but some fee must have been paid on L1.
handle_fee(inner, ctx, t, config) ==
  IF t.kind # "l1_handler"
  THEN charge_fee(inner.state, ctx, t, IF inner.reverted THEN 1 ELSE t.fee, config)
  ELSE IF t.paid_fee = 0 THEN Err
  ELSE [ok |-> TRUE, state |-> inner.state, fee |-> 0, charged |-> FALSE]

execute(s, ctx, t, config) ==
  LET inner == execute_inner(handle_nonce(s, t, config), ctx, t, config)
      paid == handle_fee(inner, ctx, t, config)
  IN IF \/ ~handle_nonce_and_check_fee_balance(s, t, config)
        \/ ~inner.ok
        \/ ~paid.ok THEN Err
     ELSE [ok |-> TRUE, state |-> paid.state,
           info |-> [reverted |-> inner.reverted, validated |-> inner.validated,
                     fee |-> paid.fee, charged |-> paid.charged]]

----------------------------------------------------------------------------
(* Blocks *)

\* get_block_context on the state after a block: its own number and sequencer.
get_block_context(b) == [number |-> b.number, sequencer |-> b.sequencer]

\* The dispatchables look for the class or the account before they execute, and
\* Err is rolled back.
dispatch(loop, t, ctx) ==
  LET s == loop.state
      refused == \/ t.kind = "declare" /\ t.class \in s.classes
                 \/ t.kind = "deploy_account" /\ t.sender \in s.deployed
                 \/ t.kind = "l1_handler" /\ t.nonce \in s.l1_messages
      seen == IF t.kind = "l1_handler" THEN [s EXCEPT !.l1_messages = @ \cup {t.nonce}] ELSE s
      r == execute(seen, ctx, t, new)
  IN IF refused \/ ~r.ok THEN loop
     ELSE [state |-> r.state, txs |-> Append(loop.txs, t), infos |-> Append(loop.infos, r.info)]

\* The block on top of b that is offered these transactions.
Child(f, b, batch) ==
  LET ctx == [number |-> b.number + 1, sequencer |-> Sequencers[f][b.number + 1]]
      r == FoldLeft(LAMBDA l, t : dispatch(l, t, ctx),
                    [state |-> b.state, txs |-> <<>>, infos |-> <<>>], batch)
  IN [number |-> ctx.number, sequencer |-> ctx.sequencer,
      txs |-> r.txs, infos |-> r.infos, state |-> r.state]

\* The longer fork is the best.
Build(f, batch) ==
  /\ Len(chains[f]) <= MaxBlocks
  /\ chains' = [chains EXCEPT ![f] = Append(@, Child(f, Last(@), batch))]
  /\ best' = IF Len(chains[f]) >= Len(chains[best]) THEN f ELSE best
  /\ UNCHANGED <<sierra_classes, paid_fees, call, answer>>

\* add_declare_transaction of module StarknetRpc, at this node.
StoreSierra(class) ==
  /\ class \notin sierra_classes
  /\ sierra_classes' = sierra_classes \cup {class}
  /\ UNCHANGED <<chains, best, paid_fees, call, answer>>

----------------------------------------------------------------------------
(* The runtime API on a block: executions that are rolled back *)

\* The transactions in turn, each on the state the one before left.  The first Err
\* ends estimate_fee and re_execute_transactions, and is all the caller of
\* simulate_transactions learns.
Results(b, batch, config) ==
  LET r == FoldLeft(LAMBDA l, t :
                      LET e == execute(l.state, get_block_context(b), t, config) IN
                      IF ~l.ok \/ ~e.ok THEN [l EXCEPT !.ok = FALSE]
                      ELSE [l EXCEPT !.state = e.state, !.infos = Append(@, e.info)],
                    [ok |-> TRUE, state |-> b.state, infos |-> <<>>], batch)
  IN IF r.ok THEN [ok |-> TRUE, infos |-> r.infos] ELSE Err

Fees(r) ==
  IF ~r.ok \/ (\E i \in DOMAIN r.infos : r.infos[i].reverted) THEN Err
  ELSE [ok |-> TRUE, fees |-> [i \in DOMAIN r.infos |-> r.infos[i].fee % 2^FeeWidth]]

\* A transaction that reverts is an error as well.
estimate_fee_inner(b, batch) == Fees(Results(b, batch, with_query_mode(new)))

estimate_message_fee_inner(b, t) ==
  Fees(Results(b, <<[t EXCEPT !.paid_fee = 1]>>,
               with_disable_nonce_validation(with_query_mode(new))))

simulate_transactions_inner(b, batch, flags) ==
  Results(b, batch, with_simulation_mode(new, flags))

\* Mutation: blocks are executed again the way fees are estimated.
re_execute_transactions_inner_Query(b, batch) == Results(b, batch, with_query_mode(new))

re_execute_transactions_inner(b, batch) == Results(b, batch, new)

----------------------------------------------------------------------------
(* The RPC methods *)

Canonical(n) == chains[best][n + 1]

Known(n) == n + 1 \in DOMAIN chains[best]

\* Bound: one call in a behaviour; calls leave nothing behind.
Idle == call.op = "none"

Answered(request, a) ==
  /\ call' = request
  /\ answer' = a
  /\ UNCHANGED <<chains, best, sierra_classes, paid_fees>>

estimate_fee(n, batch) ==
  /\ Known(n) /\ Idle
  /\ Answered([op |-> "estimate_fee", fork |-> best, number |-> n, txs |-> batch],
              estimate_fee_inner(Canonical(n), batch))

estimate_message_fee(n, t) ==
  /\ Known(n) /\ Idle
  /\ Answered([op |-> "estimate_message_fee", fork |-> best, number |-> n, txs |-> <<t>>],
              estimate_message_fee_inner(Canonical(n), t))

\* The calls of a trace whose class blockifier leaves out are looked up at block b.
ClassesFound(b, txs, infos, class_hash_given) ==
  class_hash_given \/
    \A i \in DOMAIN infos :
      /\ (infos[i].validated = "Some" \/ (txs[i].kind # "declare" /\ ~infos[i].reverted)) =>
           txs[i].sender \in b.state.deployed

\* tx_execution_infos_to_simulated_transactions: one failure, or one contract that
\* is not found on the block, is all the caller learns.
simulate_transactions(n, batch, flag_list, class_hash_given) ==
  LET b == Canonical(n)
      r == simulate_transactions_inner(b, batch, SimulationFlags(flag_list))
  IN /\ Known(n) /\ Idle
     /\ Answered([op |-> "simulate", fork |-> best, number |-> n, txs |-> batch,
                  flags |-> SimulationFlags(flag_list), given |-> class_hash_given],
                 IF r.ok /\ ClassesFound(b, batch, r.infos, class_hash_given) THEN r ELSE Err)

\* What trace_block_transactions needs besides the block: the classes it declared,
\* from its state or, in version 2, from the database of this node, and the fees
\* paid on L1.
Replayable(b) ==
  \A i \in DOMAIN b.txs :
    /\ b.txs[i].kind = "declare" =>
         IF b.txs[i].version < 2 THEN b.txs[i].class \in b.state.classes
         ELSE b.txs[i].class \in sierra_classes
    /\ b.txs[i].kind = "l1_handler" => b.txs[i] \in paid_fees

\* trace_block_transactions up to the lookup of the previous block.
trace_resolve(n) ==
  /\ Known(n) /\ Idle
  /\ LET b == Canonical(n)
         request == [fork |-> best, number |-> n, txs |-> b.txs]
     IN IF ~Replayable(b)
        THEN Answered([op |-> "trace"] @@ request, Err)
        ELSE Answered([op |-> "trace_resolved"] @@ request, Nothing)

\* The block before number n on what is now the best fork; below block 0 the
\* number wraps around, and there is no such block.
PreviousBlock(n) == IF n > 0 /\ Known(n - 1) THEN Canonical(n - 1) ELSE Nothing

\* The rest of it: the transactions are executed again on the previous block, and
\* the classes of the calls looked up at the traced one.
trace_block_transactions(class_hash_given) ==
  /\ call.op = "trace_resolved"
  /\ LET b == chains[call.fork][call.number + 1]
         previous == PreviousBlock(call.number)
         r == IF previous = Nothing THEN Err ELSE re_execute_transactions_inner(previous, b.txs)
     IN Answered([call EXCEPT !.op = "trace"] @@
                   [replayed |-> IF previous = Nothing THEN Nothing
                                 ELSE [on |-> best, failed |-> ~r.ok]],
                 IF r.ok /\ ClassesFound(b, b.txs, r.infos, class_hash_given) THEN r ELSE Err)

----------------------------------------------------------------------------
GenesisBlock == [number |-> 0, sequencer |-> Sequencers[1][0], txs |-> <<>>, infos |-> <<>>,
                 state |-> GenesisState]

Init ==
  /\ chains = [f \in Fork |-> <<GenesisBlock>>]
  /\ best = 1
  /\ sierra_classes = {}
  /\ paid_fees = {}
  /\ call = [op |-> "none"]
  /\ answer = Nothing

Numbers == 0..MaxBlocks

Next ==
  \/ \E f \in Fork : \E batch \in Batches[f] : Build(f, batch)
  \/ \E f \in Fork : \E b \in ToSet(chains[f]) : \E t \in ToSet(b.txs) :
       t.kind = "declare" /\ t.version = 2 /\ StoreSierra(t.class)
  \/ \E n \in Numbers : \E batch \in Requests : estimate_fee(n, batch)
  \/ \E n \in Numbers : \E t \in Messages : estimate_message_fee(n, t)
  \/ \E n \in Numbers : \E batch \in Requests : \E list \in FlagLists : \E given \in BOOLEAN :
       simulate_transactions(n, batch, list, given)
  \/ \E n \in Numbers : trace_resolve(n)
  \/ \E given \in BOOLEAN : trace_block_transactions(given)

Spec == Init /\ [][Next]_vars

----------------------------------------------------------------------------
(* Properties *)

\* The block a call was served on, and the blocks built on top of it.
Served == chains[call.fork][call.number + 1]

Children ==
  {chains[f][call.number + 2] : f \in {g \in Fork :
     /\ call.number + 2 \in DOMAIN chains[g]
     /\ chains[g][call.number + 1] = Served}}

\* Nothing in the transactions tells the block apart from its parent: none of them
\* asks for the block number, and the sequencer did not change.
SameContext(b, parent) ==
  /\ b.sequencer = parent.sequencer
  /\ \A i \in DOMAIN b.txs : b.txs[i].runs # "even"

\* A block is traced as it was executed: the trace, when its replay ran on the own
\* parent of the block, in the same context, shows for every transaction the
\* outcome, the validation and the fee it had in the block (trace_block_transactions,
\* re_execute_transactions against the dispatchables).
TraceFaithful ==
  (/\ call.op = "trace" /\ answer # Nothing /\ "replayed" \in DOMAIN call
   /\ call.replayed # Nothing) =>
     LET b == Served
         parent == chains[call.fork][call.number]
     IN (chains[call.replayed.on][call.number] = parent /\ SameContext(b, parent)) =>
          answer = [ok |-> TRUE, infos |-> b.infos]

\* A simulation foretells the block: when a block on top of the one it ran on takes
\* just these transactions, in the same context, they have the outcomes and the fees
\* simulated without flags.  For a single transaction the flags leave out the
\* validation and the transfer of the fee, and nothing else (simulate_transactions).
SimulatedAsExecuted ==
  (call.op = "simulate" /\ call.given) =>
    \A b \in Children :
      (b.txs = call.txs /\ SameContext(b, Served)) =>
        /\ ~call.flags.skip_validate /\ ~call.flags.skip_fee_charge =>
             answer = [ok |-> TRUE, infos |-> b.infos]
        /\ Len(b.txs) = 1 =>
             /\ answer.ok
             /\ answer.infos[1] =
                  [b.infos[1] EXCEPT !.charged = @ /\ ~call.flags.skip_fee_charge,
                                     !.validated = IF call.flags.skip_validate THEN "None" ELSE @]

\* What is estimated is charged, whatever the max_fee of the request: a transaction
\* that executes as the only one of the next block, in the same context, pays the
\* estimate, up to the bits of a fee that the estimate drops (estimate_fee).  A
\* message that executes can be estimated before its fee is known, whatever the
\* nonce of its contract (estimate_message_fee).
EstimateIsCharged ==
  \A b \in IF call.op \in {"estimate_fee", "estimate_message_fee"} THEN Children ELSE {} :
    (Len(b.txs) = 1 /\ Len(call.txs) = 1 /\ SameContext(b, Served)) =>
      LET t == call.txs[1] IN
      /\ (/\ call.op = "estimate_fee" /\ ~b.infos[1].reverted
          /\ [b.txs[1] EXCEPT !.max_fee = t.max_fee] = t) =>
           answer = [ok |-> TRUE, fees |-> <<b.infos[1].fee % 2^FeeWidth>>]
      /\ (/\ call.op = "estimate_message_fee" /\ b.txs[1].kind = "l1_handler"
          /\ [b.txs[1] EXCEPT !.paid_fee = t.paid_fee] = t) => answer.ok
=============================================================================
