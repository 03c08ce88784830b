-------------------------- MODULE DataAvailability --------------------------
(***************************************************************************)
(* The publication of state diffs: the commitment state diff worker        *)
(* (client/commitment-state-diff), the bounded channel node/src/service.rs *)
(* gives it, the data availability worker (client/data-availability) with  *)
(* one tokio task per block, and the DA column of the database             *)
(* (client/db/src/da_db.rs).                                               *)
(*                                                                         *)
(* The commitment state diff worker is a stream that a task polls until it *)
(* returns Pending; whether somebody holds the waker of the task is part   *)
(* of the state.  A state diff stands for the block it is built from (its  *)
(* content is the subject of module DaEncoding).  Blocks of two forks can  *)
(* have the same Starknet hash, and the database is keyed by that hash.    *)
(***************************************************************************)
EXTENDS Integers, Sequences, SequencesExt, FiniteSets

CONSTANTS Block,         \* Substrate blocks
          Hash,          \* the Starknet hash of each
          Mode,          \* the DaMode of the client
          Layers,        \* the DA layers the node may be configured with
          Capacity,      \* the capacity of the channel (5 in service.rs)
          MaxErrors,     \* bound: calls that fail
          MaxRestarts    \* bound: restarts of the node

ASSUME CapacityAssumption == Capacity \in Nat
ASSUME BoundAssumption == MaxErrors \in Nat /\ MaxRestarts \in Nat
ASSUME ModeAssumption == Mode \subseteq {"Validity", "Volition", "Sovereign"}
ASSUME LayerAssumption == Layers \subseteq {"Ethereum", "Celestia"}

VARIABLES
  mode, layer,           \* the configuration
  notified,              \* blocks storage notifications were sent for
  stream,                \* the notifications the worker has not read
  worker,                \* "runnable", or who holds the worker's waker
  msg,                   \* the field of that name: at most one block
  channel,
  tasks,                 \* where the flow of each block is
  da,                    \* the DA column
  published,             \* what the DA layer has accepted
  skipped,               \* blocks whose state diff could not be built
  errors, restarts

config == <<mode, layer>>
pipeline == <<stream, worker, msg, channel>>
bounds == <<errors, restarts>>
vars == <<config, notified, pipeline, tasks, da, published, skipped, bounds>>

Empty == [kind |-> "none"]
Job == [kind |-> "cairo_job"]
Diff(b) == [kind |-> "state_diff", block |-> b]
Keys == {Hash[b] : b \in Block}

Init ==
  /\ mode \in Mode /\ layer \in Layers
  /\ notified = {} /\ stream = <<>> /\ worker = "runnable" /\ msg = {}
  /\ channel = <<>>
  /\ tasks = [b \in Block |-> "none"]
  /\ da = [h \in Keys |-> Empty]
  /\ published = <<>>
  /\ skipped = {} /\ errors = 0 /\ restarts = 0

----------------------------------------------------------------------------
(* The chain *)

\* The client imports a block and notifies the storage changes of it, whether
\* or not it becomes the best block.
Import(b) ==
  /\ b \notin notified
  /\ notified' = notified \cup {b}
  /\ stream' = Append(stream, b)
  /\ worker' = IF worker = "stream" THEN "runnable" ELSE worker
  /\ UNCHANGED <<config, msg, channel, tasks, da, published, skipped, bounds>>

----------------------------------------------------------------------------
(* CommitmentStateDiffWorker::poll_next *)

\* A channel of the futures crate takes one message more than its buffer from
\* a sender before the sender has to wait.
poll_ready == Len(channel) <= Capacity

\* Mutation: the sender of the full channel keeps no waker.
send_NoWaker(b) ==
  IF poll_ready
  THEN channel' = Append(channel, b) /\ msg' = {} /\ worker' = "runnable"
  ELSE msg' = {b} /\ worker' = "nobody" /\ UNCHANGED channel

\* State 2 of the worker: send the message now or keep it and wait.
send(b) ==
  IF poll_ready
  THEN channel' = Append(channel, b) /\ msg' = {} /\ worker' = "runnable"
  ELSE msg' = {b} /\ worker' = "channel" /\ UNCHANGED channel

poll_next ==
  /\ worker = "runnable"
  /\ \/ /\ msg = {} /\ stream = <<>>
        /\ worker' = "stream"
        /\ UNCHANGED <<stream, msg, channel, skipped, errors>>
     \/ /\ msg = {} /\ stream # <<>>                \* build_commitment_state_diff is Ok
        /\ stream' = Tail(stream) /\ send(Head(stream))
        /\ UNCHANGED <<skipped, errors>>
     \/ /\ msg = {} /\ stream # <<>>                \* build_commitment_state_diff is Err
        /\ errors < MaxErrors /\ errors' = errors + 1
        /\ stream' = Tail(stream)
        /\ skipped' = skipped \cup {Head(stream)}
        /\ worker' = "nobody"
        /\ UNCHANGED <<msg, channel>>
     \/ \E b \in msg : send(b) /\ UNCHANGED <<stream, skipped, errors>>
  /\ UNCHANGED <<config, notified, tasks, da, published, restarts>>

----------------------------------------------------------------------------
(* DataAvailabilityWorker::prove_current_block *)

\* The worker takes a message and spawns the task of its block.
receive ==
  /\ channel # <<>>
  /\ channel' = Tail(channel)
  /\ worker' = IF worker = "channel" THEN "runnable" ELSE worker
  /\ tasks' = [tasks EXCEPT ![Head(channel)] = "prove"]
  /\ UNCHANGED <<config, notified, stream, msg, da, published, skipped, bounds>>

Step(b, from, to) == tasks[b] = from /\ tasks' = [tasks EXCEPT ![b] = to]
Fails == errors < MaxErrors /\ errors' = errors + 1
Local == UNCHANGED <<config, notified, pipeline, skipped, restarts>>

\* submit_pie answers at once; an error of update_cairo_job is only logged.
prove(b) ==
  /\ Step(b, "prove", "store")
  /\ \/ mode # "Validity" /\ UNCHANGED <<da, errors>>
     \/ mode = "Validity" /\ da' = [da EXCEPT ![Hash[b]] = Job] /\ UNCHANGED errors
     \/ mode = "Validity" /\ Fails /\ UNCHANGED da
  /\ UNCHANGED published /\ Local

\* Mutation: the job is written last.
store_state_diff_ThenJob(b) ==
  /\ Step(b, "store", "query")
  /\ da' = [da EXCEPT ![Hash[b]] = IF mode = "Validity" THEN Job ELSE Diff(b)]
  /\ UNCHANGED <<errors, published>> /\ Local

store_state_diff(b) ==
  /\ \/ Step(b, "store", "query") /\ da' = [da EXCEPT ![Hash[b]] = Diff(b)] /\ UNCHANGED errors
     \/ Step(b, "store", "failed") /\ Fails /\ UNCHANGED da
  /\ UNCHANGED published /\ Local

\* Only the Ethereum client asks the DA layer; the answer is not used.
last_published_state(b) ==
  /\ \/ Step(b, "query", IF mode = "Sovereign" THEN "publish" ELSE "done") /\ UNCHANGED errors
     \/ layer = "Ethereum" /\ Step(b, "query", "failed") /\ Fails
  /\ UNCHANGED <<da, published>> /\ Local

\* Mutation: a failed submission is tried again.
publish_Again(b) ==
  /\ \/ Step(b, "publish", "done") /\ published' = Append(published, b) /\ UNCHANGED errors
     \/ Step(b, "publish", "publish") /\ Fails /\ published' \in {published, Append(published, b)}
  /\ UNCHANGED da /\ Local

\* publish_state_diff.  A call that fails may have taken effect (Ethereum: the
\* receipt could not be fetched; Celestia: waiting for the height or fetching
\* the blob failed).  A transaction that Ethereum reverts or drops is not told
\* from one that it executes: the receipt is not looked at.
publish(b) ==
  /\ \/ Step(b, "publish", "done") /\ published' = Append(published, b) /\ UNCHANGED errors
     \/ /\ layer = "Ethereum" /\ Step(b, "publish", "done")
        /\ Fails /\ UNCHANGED published
     \/ Step(b, "publish", "failed") /\ Fails /\ published' \in {published, Append(published, b)}
  /\ UNCHANGED da /\ Local

----------------------------------------------------------------------------
(* The node *)

\* Everything but the database and the DA layer is lost.
Restart ==
  /\ restarts < MaxRestarts
  /\ restarts' = restarts + 1
  /\ stream' = <<>> /\ worker' = "runnable" /\ msg' = {} /\ channel' = <<>>
  /\ tasks' = [b \in Block |-> IF tasks[b] \in {"done", "failed"} THEN tasks[b] ELSE "none"]
  /\ UNCHANGED <<config, notified, da, published, skipped, errors>>

Task(b) ==
  \/ prove(b) \/ store_state_diff(b) \/ last_published_state(b) \/ publish(b)

Next ==
  \/ \E b \in Block : Import(b) \/ Task(b)
  \/ poll_next \/ receive \/ Restart

Spec == Init /\ [][Next]_vars

\* The executor polls a runnable task in the end; the calls of a task return.
FairSpec ==
  Spec /\ WF_vars(poll_next) /\ WF_vars(receive) /\ \A b \in Block : WF_vars(Task(b))

----------------------------------------------------------------------------
(* Properties *)

Steps == {"none", "prove", "store", "query", "publish", "done", "failed"}

TypeOK ==
  /\ mode \in Mode /\ layer \in Layers
  /\ notified \subseteq Block /\ skipped \subseteq Block
  /\ stream \in Seq(Block) /\ channel \in Seq(Block)
  /\ worker \in {"runnable", "stream", "channel", "nobody"}
  /\ msg \subseteq Block
  /\ tasks \in [Block -> Steps]
  /\ da \in [Keys -> {Empty, Job} \cup {Diff(b) : b \in Block}]
  /\ published \in Seq(Block)
  /\ errors \in 0 .. MaxErrors /\ restarts \in 0 .. MaxRestarts

Twin(b) == \E c \in notified \ {b} : Hash[c] = Hash[b]

\* Once the flow of a block has passed its commit, the database has the state
\* diff of this block under its hash and keeps it, also across restarts: the
\* cairo job that prove writes under the same key (da_db.rs:45) comes before
\* it.  Nothing is published (lib.rs:259) that is not stored, so RPC can answer
\* get_state_update for it.  Only a block of a fork with the same hash can
\* replace a diff.
DiffKept ==
  \A b \in notified :
    (tasks[b] \in {"query", "publish", "done"} \/ Contains(published, b)) /\ ~Twin(b)
      => da[Hash[b]] = Diff(b)

\* No state diff is published twice, whatever fails or restarts in between:
\* a flow that failed is not repeated.
PublishedOnce == IsInjective(published)

\* Every block the worker is notified of gets through its flow in the end,
\* although the channel is bounded and calls of other flows fail, unless the
\* node restarts or a state diff cannot be built.
EveryBlockFlows ==
  \A b \in Block :
    b \in notified ~> tasks[b] \in {"done", "failed"} \/ restarts > 0 \/ skipped # {}
=============================================================================
