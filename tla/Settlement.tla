----------------------------- MODULE Settlement -----------------------------
(***************************************************************************)
(* The settlement worker (client/settlement): it listens to finality,      *)
(* builds the Starknet OS output of each finalised block and sends it to   *)
(* the core contract on Ethereum.                                          *)
(*                                                                         *)
(* Every await of the code is a point where the worker can be overtaken.   *)
(* A call may fail before or after it took effect; a transaction that was  *)
(* sent may be mined long after the worker gave up on it.                  *)
(*                                                                         *)
(* Substrate blocks and Starknet blocks have the same numbers.  Blocks     *)
(* above the finalised one may still be replaced; the worker asks by       *)
(* number only for blocks below a finalised one, so one chain suffices.    *)
(***************************************************************************)
EXTENDS Integers, Sequences

CONSTANTS MaxHeight,     \* bound: the highest block of the chain
          Height0,       \* the block number the contract is initialised with
          Messages,      \* the L1 and L2 messages of each block
          Root,          \* what temporary_global_state_root_getter returns
          Roots,         \* the state roots the contract may be initialised with
          Specs,         \* how its program and config hash may differ
          MaxErrors,     \* bound: failing calls
          MaxReverts,    \* bound: transactions the contract refuses for reasons of its own
          MaxRestarts    \* bound: restarts of the node

ASSUME HeightAssumption == MaxHeight \in Nat /\ Height0 \in Nat
ASSUME RootAssumption == Root \in Roots
ASSUME SpecAssumption ==
  Specs \subseteq {"match", "ProgramHashMismatch", "ConfigHashMismatch"}
ASSUME BoundAssumption ==
  MaxErrors \in Nat /\ MaxReverts \in Nat /\ MaxRestarts \in Nat

VARIABLES
  \* The chain.
  best,                  \* the height of the best block
  finalized,             \* the height of the last finalised block
  \* Ethereum.
  contract,              \* the core contract
  pending,               \* outputs sent in transactions that are not mined yet
  \* The worker.
  pc,                    \* where sync_state_loop is
  last_settled_state,    \* the local variable of that name
  sync_from, sync_to,    \* likewise
  notifications,         \* the stream of finality notifications
  \* Bounds.
  errors, reverts, restarts

chain == <<best, finalized>>
ethereum == <<contract, pending>>
worker == <<pc, last_settled_state, sync_from, sync_to, notifications>>
bounds == <<errors, reverts, restarts>>
vars == <<chain, ethereum, worker, bounds>>

Heights == 0 .. MaxHeight
State == [block_number : Nat, state_root : Roots]
Output == [prev_state_root : Roots, new_state_root : {Root},
           block_number : Heights, messages : {Messages[h] : h \in Heights}]
Entry == [block : Heights, messages : {Messages[h] : h \in Heights}]
Contract == [initialized : BOOLEAN, spec : Specs, block_number : Nat, state_root : Roots,
             log : Seq(Entry)]

NoState == [block_number |-> 0, state_root |-> Root]

\* The worker holds a stream of notifications.
Subscribed == pc \in {"listen", "update", "sent"}

Init ==
  /\ best = 0 /\ finalized = 0
  /\ \E spec \in Specs, root \in Roots :
       contract = [initialized |-> FALSE, spec |-> spec, block_number |-> Height0,
                   state_root |-> root, log |-> <<>>]
  /\ pending = {}
  /\ pc = "start" /\ last_settled_state = NoState
  /\ sync_from = 0 /\ sync_to = 0 /\ notifications = <<>>
  /\ errors = 0 /\ reverts = 0 /\ restarts = 0

----------------------------------------------------------------------------
(* Errors *)

\* Mutation: a contract that is not initialised yet is not waited for.
can_retry_Initialized(error) == error = "EthereumClient"

can_retry(error) ==
  error \notin {"StateRootMismatch", "ConfigHashMismatch", "ProgramHashMismatch"}

\* sync_state_loop returns an error.  Its local variables and the stream are
\* dropped; sync_state starts it again or panics.
Fail(error) ==
  /\ pc' = IF can_retry(error) THEN "retry" ELSE "panicked"
  /\ last_settled_state' = NoState
  /\ sync_from' = 0 /\ sync_to' = 0 /\ notifications' = <<>>

\* sync_state has waited for the delay.
Retry ==
  /\ pc = "retry"
  /\ pc' = "start"
  /\ UNCHANGED <<chain, ethereum, last_settled_state, sync_from, sync_to, notifications,
                 bounds>>

----------------------------------------------------------------------------
(* The worker up to its subscription *)

\* is_initialized, get_chain_spec and verify_starknet_spec.
verify_starknet_spec ==
  /\ pc = "start"
  /\ \/ ~contract.initialized /\ Fail("StateNotInitialized")
     \/ contract.initialized /\ contract.spec # "match" /\ Fail(contract.spec)
     \/ /\ contract.initialized /\ contract.spec = "match"
        /\ pc' = "get_state"
        /\ UNCHANGED <<last_settled_state, sync_from, sync_to, notifications>>
  /\ UNCHANGED <<chain, ethereum, bounds>>

get_state ==
  /\ pc = "get_state"
  /\ last_settled_state' = [block_number |-> contract.block_number,
                            state_root |-> contract.state_root]
  /\ pc' = "verify"
  /\ UNCHANGED <<chain, ethereum, sync_from, sync_to, notifications, bounds>>

\* get_starknet_block finds the block.
Known(height) == height <= best

\* The check passes for a block the chain does not have yet.
verify_starknet_state ==
  Known(last_settled_state.block_number) => last_settled_state.state_root = Root

Subscribe ==
  /\ pc = "verify"
  /\ \/ ~verify_starknet_state /\ Fail("StateRootMismatch")
     \/ /\ verify_starknet_state
        /\ pc' = "listen"
        /\ sync_from' = last_settled_state.block_number
        /\ UNCHANGED <<last_settled_state, sync_to, notifications>>
  /\ UNCHANGED <<chain, ethereum, bounds>>

----------------------------------------------------------------------------
(* The loop over finality notifications *)

Skip ==
  /\ pc = "listen" /\ notifications # <<>>
  /\ sync_from > Head(notifications)
  /\ notifications' = Tail(notifications)
  /\ UNCHANGED <<chain, ethereum, pc, last_settled_state, sync_from, sync_to, bounds>>

Verify ==
  /\ pc = "listen" /\ notifications # <<>>
  /\ sync_from = Head(notifications)
  /\ \/ ~verify_starknet_state /\ Fail("StateRootMismatch")
     \/ /\ verify_starknet_state
        /\ notifications' = Tail(notifications)
        /\ UNCHANGED <<pc, last_settled_state, sync_from, sync_to>>
  /\ UNCHANGED <<chain, ethereum, bounds>>

\* Mutation: the best block instead of the block that was finalised.
Sync_ToBest ==
  /\ pc = "listen" /\ notifications # <<>>
  /\ sync_from < Head(notifications)
  /\ sync_to' = best
  /\ notifications' = Tail(notifications)
  /\ pc' = "update"
  /\ UNCHANGED <<chain, ethereum, last_settled_state, sync_from, bounds>>

Sync ==
  /\ pc = "listen" /\ notifications # <<>>
  /\ sync_from < Head(notifications)
  /\ sync_to' = Head(notifications)
  /\ notifications' = Tail(notifications)
  /\ pc' = "update"
  /\ UNCHANGED <<chain, ethereum, last_settled_state, sync_from, bounds>>

\* The Starknet OS output of the next block, built on the state settled last.
program_output ==
  [prev_state_root |-> last_settled_state.state_root, new_state_root |-> Root,
   block_number |-> sync_from + 1, messages |-> Messages[sync_from + 1]]

\* update_starknet_state sends the output and waits for the receipt.
update_starknet_state ==
  /\ pc = "update"
  /\ pending' = pending \cup {program_output}
  /\ pc' = "sent"
  /\ UNCHANGED <<chain, contract, last_settled_state, sync_from, sync_to, notifications,
                 bounds>>

\* Mutation: a transaction that was sent is taken as mined.
Receipt_NotAwaited ==
  /\ pc = "sent"
  /\ last_settled_state' = [block_number |-> sync_from + 1, state_root |-> Root]
  /\ sync_from' = sync_from + 1
  /\ pc' = IF sync_from' < sync_to THEN "update" ELSE "listen"
  /\ UNCHANGED <<chain, ethereum, sync_to, notifications, bounds>>

\* Mutation: the loop ends after one block.
Receipt_OneBlock ==
  /\ pc = "sent" /\ program_output \notin pending
  /\ last_settled_state' = [block_number |-> sync_from + 1, state_root |-> Root]
  /\ sync_from' = sync_from + 1
  /\ pc' = "listen"
  /\ UNCHANGED <<chain, ethereum, sync_to, notifications, bounds>>

\* There is a receipt once the transaction is mined.  Its status is not read.
Receipt ==
  /\ pc = "sent" /\ program_output \notin pending
  /\ last_settled_state' = [block_number |-> sync_from + 1, state_root |-> Root]
  /\ sync_from' = sync_from + 1
  /\ pc' = IF sync_from' < sync_to THEN "update" ELSE "listen"
  /\ UNCHANGED <<chain, ethereum, sync_to, notifications, bounds>>

\* A call to Ethereum fails.  A transaction that was being sent may be lost
\* (no receipt), or be mined later.
CallFails ==
  /\ errors < MaxErrors
  /\ errors' = errors + 1
  /\ \/ pc \in {"start", "get_state", "update"} /\ UNCHANGED pending
     \/ pc = "sent" /\ pending' \in {pending, pending \ {program_output}}
  /\ Fail("EthereumClient")
  /\ UNCHANGED <<chain, contract, reverts, restarts>>

Restart ==
  /\ restarts < MaxRestarts
  /\ restarts' = restarts + 1
  /\ pc' = "start" /\ last_settled_state' = NoState
  /\ sync_from' = 0 /\ sync_to' = 0 /\ notifications' = <<>>
  /\ UNCHANGED <<chain, ethereum, errors, reverts>>

----------------------------------------------------------------------------
(* The chain and Ethereum *)

Import ==
  /\ best < MaxHeight
  /\ best' = best + 1
  /\ UNCHANGED <<finalized, ethereum, worker, bounds>>

\* One notification for several blocks that become final together.
Finalize ==
  \E h \in finalized + 1 .. best :
    /\ finalized' = h
    /\ notifications' = IF Subscribed THEN Append(notifications, h) ELSE notifications
    /\ UNCHANGED <<best, ethereum, pc, last_settled_state, sync_from, sync_to, bounds>>

Deploy ==
  /\ ~contract.initialized
  /\ contract' = [contract EXCEPT !.initialized = TRUE]
  /\ UNCHANGED <<chain, pending, worker, bounds>>

\* The contract takes only what follows its own state.
Acceptable(output) ==
  /\ output.prev_state_root = contract.state_root
  /\ output.block_number = contract.block_number + 1

\* A pending transaction is mined: it updates the state, or is reverted.
Mine ==
  \E output \in pending :
    /\ pending' = pending \ {output}
    /\ \/ /\ Acceptable(output)
          /\ contract' =
               [contract EXCEPT
                  !.block_number = output.block_number,
                  !.state_root = output.new_state_root,
                  !.log = Append(@, [block |-> output.block_number,
                                     messages |-> output.messages])]
          /\ UNCHANGED reverts
       \/ ~Acceptable(output) /\ UNCHANGED <<contract, reverts>>
       \/ /\ Acceptable(output) /\ reverts < MaxReverts
          /\ reverts' = reverts + 1
          /\ UNCHANGED contract
    /\ UNCHANGED <<chain, worker, errors, restarts>>

----------------------------------------------------------------------------
Worker == \/ Retry \/ verify_starknet_spec \/ get_state \/ Subscribe
          \/ Skip \/ Verify \/ Sync \/ update_starknet_state \/ Receipt

Next == \/ Worker \/ CallFails \/ Restart
        \/ Import \/ Finalize \/ Deploy \/ Mine

Spec == Init /\ [][Next]_vars

\* The worker is an essential task, and Ethereum mines what is pending.
FairSpec == Spec /\ WF_vars(Worker) /\ WF_vars(Mine)

----------------------------------------------------------------------------
(* Properties *)

\* Every variable has its type: what the loop of sync_state_loop counts stays
\* within the chain.
TypeOK ==
  /\ best \in Heights /\ finalized \in 0 .. best
  /\ contract \in Contract
  /\ pending \subseteq Output
  /\ pc \in {"start", "get_state", "verify", "listen", "update", "sent", "retry", "panicked"}
  /\ last_settled_state \in State
  /\ sync_from \in Nat /\ sync_to \in Heights
  /\ pc \in {"update", "sent"} => sync_from < sync_to
  /\ notifications \in Seq(Heights)
  /\ errors \in 0 .. MaxErrors /\ reverts \in 0 .. MaxReverts /\ restarts \in 0 .. MaxRestarts

Abstract == INSTANCE SettledChain WITH settled <- contract.block_number,
                                       log <- contract.log

\* The worker settles the finalised chain: whatever fails, is sent again or is
\* mined late, the contract gets every block once, in order, only when it is
\* final, and with its own messages (update_starknet_state).
SettlesFinalizedChain == Abstract!Spec

\* What update_state logs for every receipt ("State was successfully updated"): the
\* worker never takes for settled what the contract does not hold.
ReceiptMeansSettled == Subscribed => sync_from <= contract.block_number

\* The same as long as the contract refuses only what is stale, although the
\* status of a receipt is not read: a transaction that is stale was overtaken by
\* one with the same block (update_state).
NothingPresumedSettled == reverts = 0 => ReceiptMeansSettled

\* A block whose finality the worker has been told of is settled in the end,
\* unless an error or a restart ends the loop, or the contract reverts a
\* transaction that is not stale (sync_state_loop).
NotifiedBlocksSettled ==
  \A h \in 1 .. MaxHeight :
    (\/ pc \in {"update", "sent"} /\ sync_to = h
     \/ \E i \in DOMAIN notifications : notifications[i] = h)
    ~> (contract.block_number >= h \/ ~Subscribed \/ reverts > 0)

\* Once the contract is initialised for this chain and with its state root, the
\* worker always comes back to listening, whatever fails (sync_state).
RecoversFromErrors ==
  (/\ contract.initialized /\ contract.spec = "match"
   /\ contract.log = <<>> /\ contract.state_root = Root) ~> []<>Subscribed
=============================================================================
