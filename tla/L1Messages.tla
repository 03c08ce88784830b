----------------------------- MODULE L1Messages -----------------------------
(***************************************************************************)
(* The L1 messages worker (client/l1-messages): it follows the log of the  *)
(* core contract on Ethereum and submits every message to the pool.  The   *)
(* L1 block of the last submitted message is saved, and the log is read    *)
(* again from that block after a restart.                                  *)
(*                                                                         *)
(* The awaits of the worker let blocks be built in between.  The pool is   *)
(* in memory.  An event stands for its message, whose nonce is unique; the *)
(* storage map L1Messages of the pallet is the set of messages used.       *)
(***************************************************************************)
EXTENDS Naturals

CONSTANTS Events,       \* bound: the number of events in the log
          L1Block,      \* the L1 block of each event
          LogIndex,     \* its index in that block
          Kind,         \* "valid", "unparsable" or "unpayable"
          MaxErrors,    \* bound: failing calls
          MaxRestarts   \* bound: restarts of the node

ASSUME EventAssumption ==
  /\ Events \in Nat
  /\ L1Block \in [1 .. Events -> Nat]
  /\ LogIndex \in [1 .. Events -> Nat]
  /\ Kind \in [1 .. Events -> {"valid", "unparsable", "unpayable"}]
  /\ \A i, j \in 1 .. Events : i <= j => L1Block[i] <= L1Block[j]
ASSUME BoundAssumption == MaxErrors \in Nat /\ MaxRestarts \in Nat

VARIABLES
  emitted,      \* the number of events emitted so far
  last_synced,  \* LAST_SYNCED_L1_EVENT_BLOCK in the database
  pc,           \* where the worker is
  cursor,       \* the next event of its stream
  pool,         \* messages in the transaction pool
  used,         \* messages executed in the best block or before
  refused,      \* history: messages given up after an error, logged or silent
  lost,         \* history: messages that left the pool without effect
  errors, restarts

vars == <<emitted, last_synced, pc, cursor, pool, used, refused, lost, errors, restarts>>

worker == <<pc, cursor>>

Init ==
  /\ emitted = 0
  /\ last_synced = [block_number |-> 0, event_index |-> 0]
  /\ pc = "start" /\ cursor = 1
  /\ pool = {} /\ used = {} /\ refused = {} /\ lost = {}
  /\ errors = 0 /\ restarts = 0

----------------------------------------------------------------------------
(* The worker *)

\* Mutation: the log is read from the block after the last synced one.
from_block_Next(n) ==
  {k \in 1 .. Events + 1 : \A i \in 1 .. Events : i < k <=> L1Block[i] <= n}

\* The first event of the stream: the one before which all blocks are below n.
\* That the provider delivers the old events of the filter is assumed of it.
from_block(n) ==
  {k \in 1 .. Events + 1 : \A i \in 1 .. Events : i < k <=> L1Block[i] < n}

run_worker ==
  /\ pc = "start"
  /\ pc' = "next"
  /\ cursor' \in from_block(last_synced.block_number)
  /\ UNCHANGED <<emitted, last_synced, pool, used, refused, lost, errors, restarts>>

\* The database or the stream cannot be opened: the worker ends, the node does not.
WorkerEnds ==
  /\ pc = "start" /\ errors < MaxErrors
  /\ errors' = errors + 1
  /\ pc' = "ended"
  /\ UNCHANGED <<emitted, last_synced, cursor, pool, used, refused, lost, restarts>>

\* The event is done with; the loop goes on to the next.
Continue == pc' = "next" /\ cursor' = cursor + 1

\* process_l1_message up to the submission.
process_l1_message ==
  /\ pc = "next" /\ cursor <= emitted
  /\ \/ Kind[cursor] = "unparsable" /\ refused' = refused \cup {cursor} /\ Continue
     \/ Kind[cursor] # "unparsable" /\ cursor \in used /\ Continue /\ UNCHANGED refused
     \/ /\ Kind[cursor] # "unparsable" /\ cursor \notin used
        /\ pc' = "submit" /\ UNCHANGED <<cursor, refused>>
  /\ UNCHANGED <<emitted, last_synced, pool, used, lost, errors, restarts>>

\* Mutation: the position is saved, the message never submitted.
submit_one_Dropped ==
  /\ pc = "submit"
  /\ pc' = "save" /\ UNCHANGED <<cursor, pool, refused>>
  /\ UNCHANGED <<emitted, last_synced, used, lost, errors, restarts>>

\* The pool validates against the block whose nonces were read, which need not
\* be the best one any more; it turns a message down that paid no fee.
submit_one ==
  /\ pc = "submit"
  /\ \/ /\ Kind[cursor] = "valid"
        /\ pool' = pool \cup {cursor} /\ pc' = "save" /\ UNCHANGED <<cursor, refused>>
     \/ /\ Kind[cursor] = "unpayable"
        /\ refused' = refused \cup {cursor} /\ Continue /\ UNCHANGED pool
  /\ UNCHANGED <<emitted, last_synced, used, lost, errors, restarts>>

update_last_synced_l1_block_with_event ==
  /\ pc = "save"
  /\ last_synced' = [block_number |-> L1Block[cursor], event_index |-> LogIndex[cursor]]
  /\ Continue
  /\ UNCHANGED <<emitted, pool, used, refused, lost, errors, restarts>>

\* An item of the stream, a call of the runtime, the pool or the database fails:
\* the error is logged or ignored, and the event is not tried again.
EventFails ==
  /\ pc \in {"next", "submit", "save"} /\ cursor <= emitted /\ errors < MaxErrors
  /\ errors' = errors + 1
  /\ refused' = refused \cup {cursor}
  /\ Continue
  /\ UNCHANGED <<emitted, last_synced, pool, used, lost, restarts>>

----------------------------------------------------------------------------
(* Ethereum, the pool and the chain *)

Emit ==
  /\ emitted < Events
  /\ emitted' = emitted + 1
  /\ UNCHANGED <<last_synced, worker, pool, used, refused, lost, errors, restarts>>

\* A block with the message becomes the best one.  consume_l1_message executes a
\* message once.
consume_l1_message(i) ==
  /\ i \in pool /\ i \notin used
  /\ pool' = pool \ {i}
  /\ used' = used \cup {i}
  /\ UNCHANGED <<emitted, last_synced, worker, refused, lost, errors, restarts>>

\* A message leaves the pool without effect: it was executed before, its
\* execution failed, or it was evicted.
Drop(i) ==
  /\ i \in pool
  /\ pool' = pool \ {i}
  /\ lost' = lost \cup ({i} \ used)
  /\ UNCHANGED <<emitted, last_synced, worker, used, refused, errors, restarts>>

Restart ==
  /\ restarts < MaxRestarts
  /\ restarts' = restarts + 1
  /\ pc' = "start" /\ cursor' = 1
  /\ pool' = {} /\ lost' = lost \cup (pool \ used)
  /\ UNCHANGED <<emitted, last_synced, used, refused, errors>>

----------------------------------------------------------------------------
Worker == \/ run_worker \/ process_l1_message \/ submit_one
          \/ update_last_synced_l1_block_with_event

Chain == \E i \in 1 .. Events : consume_l1_message(i) \/ Drop(i)

Next == Worker \/ WorkerEnds \/ EventFails \/ Emit \/ Chain \/ Restart

Spec == Init /\ [][Next]_vars

\* The worker is a task that is never cancelled, and authors empty the pool.
FairSpec == Spec /\ WF_vars(Worker) /\ WF_vars(Chain)

----------------------------------------------------------------------------
(* Properties *)

\* Every variable has its type.
TypeOK ==
  /\ emitted \in 0 .. Events
  /\ last_synced \in [block_number : Nat, event_index : Nat]
  /\ pc \in {"start", "next", "submit", "save", "ended"}
  /\ cursor \in 1 .. Events + 1
  /\ pc \in {"submit", "save"} => cursor <= emitted
  /\ pool \subseteq 1 .. emitted /\ used \subseteq 1 .. emitted
  /\ refused \subseteq 1 .. emitted /\ lost \subseteq 1 .. emitted
  /\ errors \in 0 .. MaxErrors /\ restarts \in 0 .. MaxRestarts

\* The events below the position of the stream, or below the block it starts
\* from after a restart.
Passed ==
  {i \in 1 .. emitted : \/ L1Block[i] < last_synced.block_number
                        \/ pc \in {"next", "submit", "save"} /\ i < cursor}

\* No event is skipped, by the running worker or by one that restarts from the
\* saved block: it is executed, in the pool, given up after an error (run_worker
\* logs those of process_l1_message and ignores those of the stream), or the pool
\* lost it (process_l1_message, last_synced_l1_block_with_event).
NoEventSkipped == Passed \subseteq pool \cup used \cup refused \cup lost

\* The saved block never goes back, although events of one block are read again
\* after a restart (update_last_synced_l1_block_with_event).
LastSyncedMonotone ==
  [][last_synced'.block_number >= last_synced.block_number]_vars

\* A valid message is executed in the end unless it was given up after an error,
\* the pool lost it, or the worker could not start (run_worker).
EventuallyExecuted ==
  \A i \in 1 .. Events :
    (i <= emitted /\ Kind[i] = "valid") ~> (i \in used \cup refused \cup lost \/ pc = "ended")
=============================================================================
