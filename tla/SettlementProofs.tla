-------------------------- MODULE SettlementProofs --------------------------
(***************************************************************************)
(* The settlement worker implements the settled chain, and presumes        *)
(* nothing settled that the contract does not hold, for chains of every    *)
(* height and any number of failures and restarts.                         *)
(***************************************************************************)
EXTENDS Settlement, SequenceTheorems, TLAPS

\* What is sent, or is going to be sent, is final and has its own messages.
OnlyFinal ==
  /\ \A output \in pending : /\ output.block_number <= finalized
                             /\ output.messages = Messages[output.block_number]
  /\ pc \in {"update", "sent"} => sync_to <= finalized
  /\ \A i \in DOMAIN notifications : notifications[i] <= finalized

IInv == TypeOK /\ OnlyFinal

\* What an error of sync_state_loop leaves of the local variables.
LEMMA FailLocal ==
  ASSUME NEW error, Fail(error)
  PROVE  /\ pc' \in {"retry", "panicked"}
         /\ last_settled_state' \in State
         /\ sync_from' \in Nat /\ sync_to' \in Heights
         /\ notifications' = <<>>
  BY HeightAssumption, RootAssumption DEF Fail, NoState, State, Heights

\* The worker starts with nothing sent and nothing to send (sync_state).
THEOREM InitIInv == Init => IInv
  <1> SUFFICES ASSUME Init PROVE IInv
    OBVIOUS
  <1>1. TypeOK
    BY HeightAssumption, RootAssumption, BoundAssumption
    DEF Init, TypeOK, Contract, Heights, State, NoState
  <1>2. OnlyFinal
    BY DEF Init, OnlyFinal
  <1> QED
    BY <1>1, <1>2 DEF IInv

\* Every step of the worker, the chain and the contract preserves the types.
LEMMA TypeStep == IInv /\ [Next]_vars => TypeOK'
  <1> SUFFICES ASSUME IInv, [Next]_vars PROVE TypeOK'
    OBVIOUS
  <1> USE HeightAssumption, RootAssumption, SpecAssumption, BoundAssumption
  <1>0. TypeOK /\ OnlyFinal
    BY DEF IInv
  <1>a. ASSUME NEW error, Fail(error), UNCHANGED <<chain, contract, reverts, restarts>>,
               pending' \subseteq pending, errors' \in 0 .. MaxErrors
        PROVE  TypeOK'
    <2>1. /\ pc' \in {"retry", "panicked"}
          /\ last_settled_state' \in State
          /\ sync_from' \in Nat /\ sync_to' \in Heights
          /\ notifications' = <<>>
      BY <1>a, FailLocal
    <2>2. notifications' \in Seq(Heights)
      BY <2>1
    <2>3. ~(pc' \in {"update", "sent"})
      BY <2>1
    <2> QED
      BY <1>0, <1>a, <2>1, <2>2, <2>3 DEF TypeOK, chain
  <1>1. CASE Retry
    BY <1>0, <1>1 DEF TypeOK, Retry, chain, ethereum, bounds
  <1>2. CASE verify_starknet_spec
    <2>1. CASE \E error : Fail(error)
      BY <1>0, <1>2, <1>a, <2>1 DEF TypeOK, verify_starknet_spec, chain, ethereum, bounds
    <2>2. CASE pc' = "get_state" /\ UNCHANGED <<last_settled_state, sync_from, sync_to, notifications>>
      BY <1>0, <1>2, <2>2 DEF TypeOK, verify_starknet_spec, chain, ethereum, bounds
    <2> QED
      BY <1>2, <2>1, <2>2 DEF verify_starknet_spec
  <1>3. CASE get_state
    BY <1>0, <1>3 DEF TypeOK, Contract, get_state, chain, ethereum, bounds, State
  <1>4. CASE Subscribe
    <2>1. CASE Fail("StateRootMismatch")
      BY <1>0, <1>4, <1>a, <2>1 DEF TypeOK, Subscribe, chain, ethereum, bounds
    <2>2. CASE pc' = "listen" /\ sync_from' = last_settled_state.block_number
               /\ UNCHANGED <<last_settled_state, sync_to, notifications>>
      BY <1>0, <1>4, <2>2 DEF TypeOK, Subscribe, chain, ethereum, bounds, State
    <2> QED
      BY <1>4, <2>1, <2>2 DEF Subscribe
  <1>5. CASE Skip
    BY <1>0, <1>5 DEF TypeOK, Skip, chain, ethereum, bounds
  <1>6. CASE Verify
    <2>1. CASE Fail("StateRootMismatch")
      BY <1>0, <1>6, <1>a, <2>1 DEF TypeOK, Verify, chain, ethereum, bounds
    <2>2. CASE notifications' = Tail(notifications)
               /\ UNCHANGED <<pc, last_settled_state, sync_from, sync_to>>
      BY <1>0, <1>6, <2>2 DEF TypeOK, Verify, chain, ethereum, bounds
    <2> QED
      BY <1>6, <2>1, <2>2 DEF Verify
  <1>7. CASE Sync
    BY <1>0, <1>7 DEF TypeOK, Sync, chain, ethereum, bounds
  <1>8. CASE update_starknet_state
    <2>1. sync_from + 1 \in Heights
      BY <1>0, <1>8 DEF TypeOK, update_starknet_state, Heights
    <2>2. program_output \in Output
      BY <1>0, <2>1 DEF program_output, Output, TypeOK, State
    <2> QED
      BY <1>0, <1>8, <2>2 DEF TypeOK, update_starknet_state, chain, bounds
  <1>9. CASE Receipt
    <2>1. last_settled_state' \in State
      BY <1>0, <1>9 DEF TypeOK, Receipt, State
    <2> QED
      BY <1>0, <1>9, <2>1 DEF TypeOK, Receipt, chain, ethereum, bounds
  <1>10. CASE CallFails
    BY <1>0, <1>10, <1>a DEF TypeOK, CallFails
  <1>11. CASE Restart
    BY <1>0, <1>11 DEF TypeOK, Restart, chain, ethereum, State, NoState, Heights
  <1>12. CASE Import
    BY <1>0, <1>12 DEF TypeOK, Import, ethereum, worker, bounds, Heights
  <1>13. CASE Finalize
    <2>1. PICK h \in finalized + 1 .. best :
            /\ finalized' = h
            /\ notifications' = IF Subscribed THEN Append(notifications, h) ELSE notifications
            /\ UNCHANGED <<best, ethereum, pc, last_settled_state, sync_from, sync_to, bounds>>
      BY <1>13 DEF Finalize
    <2>2. h \in Heights /\ finalized' \in 0 .. best
      BY <1>0, <2>1 DEF TypeOK, Heights
    <2>3. notifications' \in Seq(Heights)
      BY <1>0, <2>1, <2>2 DEF TypeOK
    <2> QED
      BY <1>0, <2>1, <2>2, <2>3 DEF TypeOK, ethereum, bounds
  <1>14. CASE Deploy
    BY <1>0, <1>14 DEF TypeOK, Contract, Deploy, chain, worker, bounds
  <1>15. CASE Mine
    <2>1. /\ pending' \subseteq pending
          /\ reverts' \in 0 .. MaxReverts
          /\ UNCHANGED <<chain, worker, errors, restarts>>
      BY <1>0, <1>15 DEF Mine, TypeOK
    <2>2. contract' \in Contract
      <3>1. CASE UNCHANGED contract
        BY <1>0, <3>1 DEF TypeOK
      <3>2. ASSUME NEW output \in pending,
                   contract' =
                     [contract EXCEPT
                        !.block_number = output.block_number,
                        !.state_root = output.new_state_root,
                        !.log = Append(@, [block |-> output.block_number,
                                           messages |-> output.messages])]
            PROVE  contract' \in Contract
        <4>1. /\ output.block_number \in Heights /\ output.block_number \in Nat
              /\ output.new_state_root \in Roots
              /\ output.messages \in {Messages[h] : h \in Heights}
          BY <1>0 DEF TypeOK, Output, Heights
        <4>2. [block |-> output.block_number, messages |-> output.messages]
                \in Entry
          BY <4>1 DEF Entry
        <4>3. Append(contract.log, [block |-> output.block_number, messages |-> output.messages])
                \in Seq(Entry)
          BY <1>0, <4>2 DEF TypeOK, Contract
        <4> QED
          BY <1>0, <3>2, <4>1, <4>3 DEF TypeOK, Contract
      <3> QED
        BY <1>15, <3>1, <3>2 DEF Mine
    <2> QED
      BY <1>0, <2>1, <2>2 DEF TypeOK, chain, worker
  <1>16. CASE UNCHANGED vars
    BY <1>0, <1>16 DEF TypeOK, vars, chain, ethereum, worker, bounds
  <1> QED
    BY <1>1, <1>2, <1>3, <1>4, <1>5, <1>6, <1>7, <1>8, <1>9, <1>10, <1>11, <1>12, <1>13,
       <1>14, <1>15, <1>16 DEF Next, Worker

\* No step sends an output of a block that is not final (sync_state_loop).
LEMMA FinalStep == IInv /\ [Next]_vars => OnlyFinal'
  <1> SUFFICES ASSUME IInv, [Next]_vars PROVE OnlyFinal'
    OBVIOUS
  <1> USE HeightAssumption
  <1>0. TypeOK /\ OnlyFinal
    BY DEF IInv
  <1>a. ASSUME NEW error, Fail(error), UNCHANGED chain, pending' \subseteq pending
        PROVE  OnlyFinal'
    <2>1. pc' \in {"retry", "panicked"} /\ notifications' = <<>>
      BY <1>a, FailLocal
    <2> QED
      BY <1>0, <1>a, <2>1 DEF OnlyFinal, chain
  <1>b. ASSUME notifications # <<>>, notifications' = Tail(notifications),
               UNCHANGED <<chain, pending>>,
               pc' \in {"update", "sent"} => sync_to' <= finalized
        PROVE  OnlyFinal'
    <2>1. \A i \in DOMAIN Tail(notifications) :
            i + 1 \in DOMAIN notifications /\ Tail(notifications)[i] = notifications[i + 1]
      BY <1>0, <1>b DEF TypeOK
    <2> QED
      BY <1>0, <1>b, <2>1 DEF OnlyFinal, chain
  <1>1. CASE Retry
    BY <1>0, <1>1 DEF OnlyFinal, Retry, chain, ethereum
  <1>2. CASE verify_starknet_spec
    BY <1>0, <1>2, <1>a DEF OnlyFinal, verify_starknet_spec, chain, ethereum
  <1>3. CASE get_state
    BY <1>0, <1>3 DEF OnlyFinal, get_state, chain, ethereum
  <1>4. CASE Subscribe
    BY <1>0, <1>4, <1>a DEF OnlyFinal, Subscribe, chain, ethereum
  <1>5. CASE Skip
    BY <1>0, <1>5, <1>b DEF OnlyFinal, Skip, ethereum
  <1>6. CASE Verify
    BY <1>0, <1>6, <1>a, <1>b DEF OnlyFinal, Verify, ethereum
  <1>7. CASE Sync
    <2>1. Head(notifications) <= finalized
      BY <1>0, <1>7 DEF OnlyFinal, Sync, TypeOK
    <2> QED
      BY <1>7, <1>b, <2>1 DEF Sync, ethereum
  <1>8. CASE update_starknet_state
    <2>1. program_output.block_number <= finalized
      BY <1>0, <1>8 DEF OnlyFinal, update_starknet_state, TypeOK, Heights, program_output
    <2>2. program_output.messages = Messages[program_output.block_number]
      BY DEF program_output
    <2> QED
      BY <1>0, <1>8, <2>1, <2>2 DEF OnlyFinal, update_starknet_state, chain
  <1>9. CASE Receipt
    BY <1>0, <1>9 DEF OnlyFinal, Receipt, chain, ethereum
  <1>10. CASE CallFails
    BY <1>10, <1>a DEF CallFails
  <1>11. CASE Restart
    BY <1>0, <1>11 DEF OnlyFinal, Restart, chain, ethereum
  <1>12. CASE Import
    BY <1>0, <1>12 DEF OnlyFinal, Import, ethereum, worker
  <1>13. CASE Finalize
    <2>1. PICK h \in finalized + 1 .. best :
            /\ finalized' = h
            /\ notifications' = IF Subscribed THEN Append(notifications, h) ELSE notifications
            /\ UNCHANGED <<best, ethereum, pc, last_settled_state, sync_from, sync_to, bounds>>
      BY <1>13 DEF Finalize
    <2>2. finalized <= h /\ h \in Int /\ finalized \in Int
      BY <1>0, <2>1 DEF TypeOK, Heights
    <2>3. \A i \in DOMAIN notifications : notifications[i] <= h
      BY <1>0, <2>2 DEF TypeOK, OnlyFinal, Heights
    <2>4. \A i \in DOMAIN notifications' : notifications'[i] <= finalized'
      BY <1>0, <2>1, <2>2, <2>3 DEF TypeOK
    <2>5. \A output \in pending : output.block_number <= h
      BY <1>0, <2>2 DEF TypeOK, OnlyFinal, Output, Heights
    <2> QED
      BY <1>0, <2>1, <2>2, <2>4, <2>5 DEF OnlyFinal, TypeOK, Heights, ethereum
  <1>14. CASE Deploy
    BY <1>0, <1>14 DEF OnlyFinal, Deploy, chain, worker
  <1>15. CASE Mine
    BY <1>0, <1>15 DEF OnlyFinal, Mine, chain, worker
  <1>16. CASE UNCHANGED vars
    BY <1>0, <1>16 DEF OnlyFinal, vars, chain, ethereum, worker
  <1> QED
    BY <1>1, <1>2, <1>3, <1>4, <1>5, <1>6, <1>7, <1>8, <1>9, <1>10, <1>11, <1>12, <1>13,
       <1>14, <1>15, <1>16 DEF Next, Worker

\* The inductive invariant holds in every state sync_state_loop reaches.
THEOREM Invariance == Spec => []IInv
  <1>1. IInv /\ [Next]_vars => IInv'
    BY TypeStep, FinalStep DEF IInv
  <1> QED
    BY InitIInv, <1>1, PTL DEF Spec

\* The variables of the settlement worker keep their types, whatever fails, and
\* the loop of sync_state_loop stays below sync_to.
THEOREM TypeCorrect == Spec => []TypeOK
  <1>1. IInv => TypeOK
    BY DEF IInv
  <1> QED
    BY Invariance, <1>1, PTL

----------------------------------------------------------------------------
\* A step settles the next block, finalises, or changes nothing that is promised.
LEMMA StepRefines == IInv /\ [Next]_vars => [Abstract!Next]_(Abstract!settledVars)
  <1> SUFFICES ASSUME IInv, [Next]_vars PROVE [Abstract!Next]_(Abstract!settledVars)
    OBVIOUS
  <1> USE HeightAssumption
  <1>0. TypeOK /\ OnlyFinal
    BY DEF IInv
  <1>a. ASSUME UNCHANGED <<finalized, contract>> PROVE UNCHANGED Abstract!settledVars
    BY <1>a DEF Abstract!settledVars
  <1>1. CASE Worker
    BY <1>1, <1>a DEF Worker, Retry, verify_starknet_spec, get_state, Subscribe, Skip, Verify,
       Sync, update_starknet_state, Receipt, chain, ethereum
  <1>2. CASE CallFails \/ Restart \/ Import \/ UNCHANGED vars
    BY <1>2, <1>a DEF CallFails, Restart, Import, vars, chain, ethereum
  <1>3. CASE Finalize
    <2>1. PICK h \in finalized + 1 .. best : finalized' = h /\ UNCHANGED contract
      BY <1>3 DEF Finalize, ethereum
    <2>2. h \in finalized + 1 .. MaxHeight
      BY <1>0, <2>1 DEF TypeOK, Heights
    <2> QED
      BY <2>1, <2>2 DEF Abstract!Next, Abstract!Finalize
  <1>4. CASE Deploy
    <2>1. contract'.block_number = contract.block_number /\ contract'.log = contract.log
      BY <1>0, <1>4 DEF Deploy, TypeOK, Contract
    <2> QED
      BY <1>4, <2>1 DEF Deploy, chain, Abstract!settledVars
  <1>5. CASE Mine
    <2>1. CASE UNCHANGED contract
      BY <1>5, <1>a, <2>1 DEF Mine, chain
    <2>2. ASSUME NEW output \in pending, Acceptable(output), UNCHANGED finalized,
                 contract' =
                   [contract EXCEPT
                      !.block_number = output.block_number,
                      !.state_root = output.new_state_root,
                      !.log = Append(@, [block |-> output.block_number,
                                         messages |-> output.messages])]
          PROVE  Abstract!Settle
      <3>1. /\ output.block_number = contract.block_number + 1
            /\ output.block_number <= finalized
            /\ output.messages = Messages[output.block_number]
        BY <1>0, <2>2 DEF OnlyFinal, Acceptable
      <3>2. /\ contract'.block_number = output.block_number
            /\ contract'.log = Append(contract.log, [block |-> output.block_number,
                                                     messages |-> output.messages])
        BY <1>0, <2>2 DEF TypeOK, Contract
      <3>3. contract.block_number < finalized
        BY <1>0, <3>1 DEF TypeOK, Contract, Heights
      <3> QED
        BY <2>2, <3>1, <3>2, <3>3 DEF Abstract!Settle
    <2> QED
      BY <1>5, <2>1, <2>2 DEF Mine, chain, Abstract!Next
  <1> QED
    BY <1>1, <1>2, <1>3, <1>4, <1>5 DEF Next

\* The worker with its contract implements the settled chain: every block once,
\* in order, only when final and with its own messages (update_starknet_state),
\* for every number of failures, late transactions and restarts.
THEOREM Refinement == Spec => SettlesFinalizedChain
  <1>1. Init => Abstract!Init
    BY DEF Init, Abstract!Init
  <1> QED
    BY <1>1, StepRefines, Invariance, PTL DEF Spec, SettlesFinalizedChain, Abstract!Spec

----------------------------------------------------------------------------
\* The worker's copy of the settled state is one the contract had, and if the
\* worker waits for a receipt, its output is pending or its block is settled.
Belief ==
  /\ contract.block_number >= Height0
  /\ contract.block_number > Height0 => contract.state_root = Root
  /\ pc \in {"verify", "listen", "update", "sent"} =>
       /\ last_settled_state.block_number >= Height0
       /\ last_settled_state.block_number <= contract.block_number
       /\ last_settled_state.block_number = contract.block_number
            => last_settled_state.state_root = contract.state_root
  /\ Subscribed => sync_from = last_settled_state.block_number
  /\ pc = "sent" => program_output \in pending \/ sync_from < contract.block_number

\* No step lets the worker get ahead of the contract: a transaction that the
\* contract refuses as stale was overtaken (update_state).
LEMMA BeliefStep ==
  ASSUME reverts' = 0, IInv, Belief, [Next]_vars
  PROVE  Belief'
  <1> USE HeightAssumption
  <1>0. TypeOK
    BY DEF IInv
  <1>t. contract.block_number \in Nat /\ last_settled_state.block_number \in Nat
        /\ sync_from \in Nat
    BY <1>0 DEF TypeOK, Contract, State
  <1>a. ASSUME NEW error, Fail(error), UNCHANGED contract PROVE Belief'
    <2>1. pc' \in {"retry", "panicked"}
      BY <1>a, FailLocal
    <2> QED
      BY <1>a, <2>1 DEF Belief, Subscribed
  <1>1. CASE Retry
    BY <1>1 DEF Belief, Subscribed, Retry, ethereum
  <1>2. CASE verify_starknet_spec
    BY <1>2, <1>a DEF Belief, Subscribed, verify_starknet_spec, ethereum
  <1>3. CASE get_state
    BY <1>t, <1>3 DEF Belief, Subscribed, get_state, ethereum
  <1>4. CASE Subscribe
    BY <1>4, <1>a DEF Belief, Subscribed, Subscribe, ethereum
  <1>5. CASE Skip
    BY <1>5 DEF Belief, Subscribed, Skip, ethereum, program_output
  <1>6. CASE Verify
    BY <1>6, <1>a DEF Belief, Subscribed, Verify, ethereum, program_output
  <1>7. CASE Sync
    BY <1>7 DEF Belief, Subscribed, Sync, ethereum
  <1>8. CASE update_starknet_state
    BY <1>8 DEF Belief, Subscribed, update_starknet_state, program_output
  <1>9. CASE Receipt
    <2>1. sync_from < contract.block_number /\ sync_from = last_settled_state.block_number
      BY <1>9 DEF Belief, Receipt, Subscribed
    <2>2. /\ last_settled_state'.block_number = sync_from + 1
          /\ last_settled_state'.state_root = Root
          /\ sync_from' = sync_from + 1 /\ pc' \in {"update", "listen"}
          /\ UNCHANGED contract
      BY <1>9 DEF Receipt, ethereum
    <2>3. /\ last_settled_state.block_number >= Height0
          /\ contract.block_number > Height0 => contract.state_root = Root
      BY <1>9 DEF Belief, Receipt
    <2> QED
      BY <1>t, <2>1, <2>2, <2>3 DEF Belief, Subscribed
  <1>10. CASE CallFails
    BY <1>10, <1>a DEF CallFails
  <1>11. CASE Restart
    BY <1>11 DEF Belief, Subscribed, Restart, ethereum
  <1>12. CASE Import \/ Finalize
    BY <1>12 DEF Belief, Subscribed, Import, Finalize, ethereum, worker, program_output
  <1>13. CASE Deploy
    <2>1. contract'.block_number = contract.block_number
          /\ contract'.state_root = contract.state_root
      BY <1>0, <1>13 DEF Deploy, TypeOK, Contract
    <2> QED
      BY <1>13, <2>1 DEF Belief, Subscribed, Deploy, worker, program_output
  <1>14. CASE Mine
    <2>1. /\ UNCHANGED worker /\ program_output' = program_output
          /\ reverts \in Nat
      BY <1>0, <1>14 DEF Mine, worker, program_output, TypeOK
    <2>2. ASSUME NEW output \in pending, pending' = pending \ {output},
                 ~Acceptable(output), UNCHANGED contract
          PROVE  Belief'
      <3>1. ASSUME pc = "sent", output = program_output PROVE sync_from < contract.block_number
        BY <1>t, <2>2, <3>1 DEF Belief, Subscribed, Acceptable, program_output
      <3> QED
        BY <2>1, <2>2, <3>1 DEF Belief, Subscribed, worker
    <2>3. ASSUME NEW output \in pending, pending' = pending \ {output}, Acceptable(output),
                 contract' =
                   [contract EXCEPT
                      !.block_number = output.block_number,
                      !.state_root = output.new_state_root,
                      !.log = Append(@, [block |-> output.block_number,
                                         messages |-> output.messages])]
          PROVE  Belief'
      <3>1. /\ contract'.block_number = contract.block_number + 1
            /\ contract'.state_root = Root
        BY <1>0, <2>3 DEF TypeOK, Contract, Output, Acceptable
      <3>2. ASSUME pc = "sent" PROVE sync_from < contract'.block_number
        BY <1>t, <3>1, <3>2 DEF Belief, Subscribed
      <3> QED
        BY <1>t, <2>1, <3>1, <3>2 DEF Belief, Subscribed, worker
    <2>4. reverts' # reverts + 1
      BY <2>1
    <2> QED
      BY <1>14, <2>2, <2>3, <2>4 DEF Mine
  <1>15. CASE UNCHANGED vars
    BY <1>15 DEF Belief, Subscribed, vars, ethereum, worker, program_output
  <1> QED
    BY <1>1, <1>2, <1>3, <1>4, <1>5, <1>6, <1>7, <1>8, <1>9, <1>10, <1>11, <1>12, <1>13,
       <1>14, <1>15 DEF Next, Worker

\* As long as the contract refuses only what is stale, the worker never takes
\* for settled what the contract does not hold (update_state, sync_state_loop).
THEOREM NoPresumption == Spec => []NothingPresumedSettled
  <1> DEFINE Inv == reverts = 0 => Belief
  <1>1. Init => Inv
    BY HeightAssumption DEF Init, Belief, Subscribed
  <1>2. IInv /\ Inv /\ [Next]_vars => Inv'
    <2> SUFFICES ASSUME IInv, Inv, [Next]_vars, reverts' = 0 PROVE Belief'
      OBVIOUS
    <2>1. UNCHANGED reverts \/ reverts' = reverts + 1
      <3>1. CASE Worker
        BY <3>1 DEF Worker, Retry, verify_starknet_spec, get_state, Subscribe, Skip, Verify, Sync,
           update_starknet_state, Receipt, bounds
      <3>2. CASE CallFails \/ Restart \/ Import \/ Finalize \/ Deploy \/ UNCHANGED vars
        BY <3>2 DEF CallFails, Restart, Import, Finalize, Deploy, bounds, vars
      <3>3. CASE Mine
        BY <3>3 DEF Mine
      <3> QED
        BY <3>1, <3>2, <3>3 DEF Next
    <2>2. reverts = 0
      BY <2>1 DEF IInv, TypeOK
    <2> QED
      BY <2>2, BeliefStep
  <1>3. Inv => NothingPresumedSettled
    BY DEF Belief, NothingPresumedSettled, ReceiptMeansSettled, Subscribed
  <1> HIDE DEF Inv
  <1> QED
    BY <1>1, <1>2, <1>3, Invariance, PTL DEF Spec
=============================================================================
