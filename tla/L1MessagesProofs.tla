-------------------------- MODULE L1MessagesProofs --------------------------
(***************************************************************************)
(* The L1 messages worker skips no event and never moves the saved block   *)
(* back, for logs of every length and any number of errors and restarts.   *)
(***************************************************************************)
EXTENDS L1Messages, TLAPS

Running == pc \in {"next", "submit", "save"}

\* What is not read yet is not below the saved block.
Ahead ==
  Running => \A i \in 1 .. Events : i >= cursor => L1Block[i] >= last_synced.block_number

\* A message whose position is about to be saved has reached the pool.
Submitted == pc = "save" => cursor \in pool \cup used \cup lost

\* Neither the saved block nor the stream is past an event still to be emitted.
Behind ==
  /\ \A i \in 1 .. Events : i > emitted => L1Block[i] >= last_synced.block_number
  /\ Running => cursor <= emitted + 1

IInv == TypeOK /\ NoEventSkipped /\ Ahead /\ Submitted /\ Behind

\* The worker starts before the first event (run_worker).
LEMMA InitIInv == Init => IInv
  BY EventAssumption, BoundAssumption
  DEF Init, IInv, TypeOK, NoEventSkipped, Passed, Ahead, Submitted, Behind, Running

\* Every step of the worker, the pool and the chain preserves the types.
LEMMA TypeStep == TypeOK /\ [Next]_vars => TypeOK'
  <1> SUFFICES ASSUME TypeOK, [Next]_vars PROVE TypeOK'
    OBVIOUS
  <1> USE EventAssumption, BoundAssumption DEF TypeOK
  <1>1. CASE run_worker
    BY <1>1 DEF run_worker, from_block
  <1>2. CASE process_l1_message
    <2>1. /\ UNCHANGED <<emitted, last_synced, pool, used, lost, errors, restarts>>
          /\ pc = "next" /\ cursor <= emitted /\ cursor \in 1 .. emitted
      BY <1>2 DEF process_l1_message
    <2>2. CASE refused' = refused \cup {cursor} /\ pc' = "next" /\ cursor' = cursor + 1
      BY <2>1, <2>2
    <2>3. CASE UNCHANGED refused /\ pc' = "next" /\ cursor' = cursor + 1
      BY <2>1, <2>3
    <2>4. CASE pc' = "submit" /\ UNCHANGED <<cursor, refused>>
      BY <2>1, <2>4
    <2> QED
      BY <1>2, <2>2, <2>3, <2>4 DEF process_l1_message, Continue
  <1>3. CASE submit_one
    <2>1. /\ UNCHANGED <<emitted, last_synced, used, lost, errors, restarts>>
          /\ pc = "submit" /\ cursor <= emitted /\ cursor \in 1 .. emitted
      BY <1>3 DEF submit_one
    <2>2. CASE pool' = pool \cup {cursor} /\ pc' = "save" /\ UNCHANGED <<cursor, refused>>
      BY <2>1, <2>2
    <2>3. CASE /\ refused' = refused \cup {cursor} /\ pc' = "next" /\ cursor' = cursor + 1
               /\ UNCHANGED pool
      BY <2>1, <2>3
    <2> QED
      BY <1>3, <2>2, <2>3 DEF submit_one, Continue
  <1>4. CASE update_last_synced_l1_block_with_event
    BY <1>4 DEF update_last_synced_l1_block_with_event, Continue
  <1>5. CASE WorkerEnds
    BY <1>5 DEF WorkerEnds
  <1>6. CASE EventFails
    BY <1>6 DEF EventFails, Continue
  <1>7. CASE Emit
    BY <1>7 DEF Emit, worker
  <1>8. CASE Chain
    BY <1>8 DEF Chain, consume_l1_message, Drop, worker
  <1>9. CASE Restart
    BY <1>9 DEF Restart
  <1>10. CASE UNCHANGED vars
    BY <1>10 DEF vars
  <1> QED
    BY <1>1, <1>2, <1>3, <1>4, <1>5, <1>6, <1>7, <1>8, <1>9, <1>10 DEF Next, Worker

\* No step passes an event that is unaccounted for (process_l1_message).
LEMMA SkipStep == IInv /\ [Next]_vars => NoEventSkipped' /\ Ahead' /\ Submitted' /\ Behind'
  <1> SUFFICES ASSUME IInv, [Next]_vars PROVE NoEventSkipped' /\ Ahead' /\ Submitted' /\ Behind'
    OBVIOUS
  <1> USE EventAssumption
      DEF TypeOK, IInv, NoEventSkipped, Passed, Ahead, Submitted, Behind, Running
  <1>a. ASSUME Running, cursor \in 1 .. emitted, pc' = "next", cursor' = cursor + 1,
               UNCHANGED <<emitted, last_synced>>,
               pool \cup used \cup refused \cup lost \cup {cursor}
                 \subseteq pool' \cup used' \cup refused' \cup lost'
        PROVE  NoEventSkipped' /\ Ahead' /\ Submitted' /\ Behind'
    <2>1. Passed' \subseteq Passed \cup {cursor}
      BY <1>a
    <2>2. NoEventSkipped'
      <3>1. Passed \subseteq pool \cup used \cup refused \cup lost
        OBVIOUS
      <3>2. Passed' \subseteq pool' \cup used' \cup refused' \cup lost'
        <4> HIDE DEF Passed
        <4> QED
          BY <1>a, <2>1, <3>1
      <3> QED
        BY <3>2
    <2>3. Ahead' /\ Submitted' /\ Behind'
      BY <1>a
    <2> QED
      BY <2>2, <2>3
  <1>1. CASE run_worker
    <2>1. /\ UNCHANGED <<emitted, last_synced, pool, used, refused, lost>>
          /\ pc' = "next" /\ cursor' \in 1 .. Events + 1
          /\ \A i \in 1 .. Events : i < cursor' <=> L1Block[i] < last_synced.block_number
      BY <1>1 DEF run_worker, from_block
    <2>2. cursor' <= emitted + 1
      <3>1. CASE emitted = Events
        BY <2>1, <3>1
      <3>2. CASE emitted # Events
        <4>1. emitted + 1 \in 1 .. Events /\ emitted + 1 > emitted
          BY <3>2
        <4>2. ~(L1Block[emitted + 1] < last_synced.block_number)
          BY <4>1
        <4> QED
          BY <2>1, <4>1, <4>2
      <3> QED
        BY <3>1, <3>2
    <2>3. Passed' \subseteq Passed
      BY <2>1
    <2>4. NoEventSkipped'
      BY <2>1, <2>3
    <2>5. Ahead' /\ Submitted' /\ Behind'
      BY <2>1, <2>2
    <2> QED
      BY <2>4, <2>5
  <1>2. CASE process_l1_message
    <2>1. /\ UNCHANGED <<emitted, last_synced, pool, used, lost>>
          /\ pc = "next" /\ cursor \in 1 .. emitted
      BY <1>2 DEF process_l1_message
    <2>2. CASE refused' = refused \cup {cursor} /\ pc' = "next" /\ cursor' = cursor + 1
      BY <1>a, <2>1, <2>2
    <2>3. CASE /\ cursor \in used /\ UNCHANGED refused
               /\ pc' = "next" /\ cursor' = cursor + 1
      BY <1>a, <2>1, <2>3
    <2>4. CASE pc' = "submit" /\ UNCHANGED <<cursor, refused>>
      BY <2>1, <2>4
    <2> QED
      BY <1>2, <2>2, <2>3, <2>4 DEF process_l1_message, Continue
  <1>3. CASE submit_one
    <2>1. /\ UNCHANGED <<emitted, last_synced, used, lost>>
          /\ pc = "submit" /\ cursor \in 1 .. emitted
      BY <1>3 DEF submit_one
    <2>2. CASE pool' = pool \cup {cursor} /\ pc' = "save" /\ UNCHANGED <<cursor, refused>>
      BY <2>1, <2>2
    <2>3. CASE /\ refused' = refused \cup {cursor} /\ pc' = "next" /\ cursor' = cursor + 1
               /\ UNCHANGED pool
      BY <1>a, <2>1, <2>3
    <2> QED
      BY <1>3, <2>2, <2>3 DEF submit_one, Continue
  <1>4. CASE update_last_synced_l1_block_with_event
    <2>1. /\ UNCHANGED <<emitted, pool, used, refused, lost>>
          /\ pc = "save" /\ pc' = "next" /\ cursor' = cursor + 1
          /\ last_synced'.block_number = L1Block[cursor]
          /\ cursor \in 1 .. emitted /\ cursor \in pool \cup used \cup lost
      BY <1>4 DEF update_last_synced_l1_block_with_event, Continue
    <2>2. \A i \in 1 .. Events : L1Block[i] < L1Block[cursor] => i < cursor
      BY <2>1
    <2>3. NoEventSkipped'
      BY <2>1, <2>2
    <2>4. Ahead' /\ Submitted' /\ Behind'
      BY <2>1
    <2> QED
      BY <2>3, <2>4
  <1>5. CASE WorkerEnds
    BY <1>5 DEF WorkerEnds
  <1>6. CASE EventFails
    BY <1>6 DEF EventFails, Continue
  <1>7. CASE Emit
    <2>1. /\ emitted' = emitted + 1 /\ emitted + 1 \in 1 .. Events
          /\ UNCHANGED <<last_synced, pc, cursor, pool, used, refused, lost>>
      BY <1>7 DEF Emit, worker
    <2>2. emitted + 1 \notin Passed'
      BY <2>1
    <2>3. Passed' \subseteq Passed
      BY <2>1, <2>2
    <2> QED
      BY <2>1, <2>3
  <1>8. CASE Chain
    BY <1>8 DEF Chain, consume_l1_message, Drop, worker
  <1>9. CASE Restart
    BY <1>9 DEF Restart
  <1>10. CASE UNCHANGED vars
    BY <1>10 DEF vars
  <1> QED
    BY <1>1, <1>2, <1>3, <1>4, <1>5, <1>6, <1>7, <1>8, <1>9, <1>10 DEF Next, Worker

\* The inductive invariant holds in every state run_worker reaches.
THEOREM Invariance == Spec => []IInv
  <1>1. IInv /\ [Next]_vars => IInv'
    BY TypeStep, SkipStep DEF IInv
  <1> QED
    BY InitIInv, <1>1, PTL DEF Spec

\* No event of the log is skipped, by the stream or by the block saved for the
\* next start, whatever fails in between (process_l1_message).
THEOREM NothingSkipped == Spec => []NoEventSkipped
  <1>1. IInv => NoEventSkipped
    BY DEF IInv
  <1> QED
    BY Invariance, <1>1, PTL

\* The saved block never goes back (update_last_synced_l1_block_with_event).
THEOREM Monotone == Spec => LastSyncedMonotone
  <1>1. IInv /\ [Next]_vars => [last_synced'.block_number >= last_synced.block_number]_vars
    <2> SUFFICES ASSUME IInv, [Next]_vars
                 PROVE  last_synced'.block_number >= last_synced.block_number
      OBVIOUS
    <2>1. CASE update_last_synced_l1_block_with_event
      BY <2>1, EventAssumption
      DEF update_last_synced_l1_block_with_event, IInv, Ahead, Running, TypeOK
    <2>2. CASE UNCHANGED last_synced
      BY <2>2 DEF IInv, TypeOK
    <2> QED
      BY <2>1, <2>2 DEF Next, Worker, run_worker, process_l1_message, submit_one, WorkerEnds,
         EventFails, Emit, Chain, consume_l1_message, Drop, Restart, vars
  <1> QED
    BY Invariance, <1>1, PTL DEF Spec, LastSyncedMonotone
=============================================================================
