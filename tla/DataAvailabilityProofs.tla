----------------------- MODULE DataAvailabilityProofs -----------------------
(***************************************************************************)
(* Proofs that what the DA layer holds is in the database and was          *)
(* published once, for every set of blocks and hashes, every capacity of   *)
(* the channel, and every number of failures and restarts.                 *)
(*                                                                         *)
(* None of the properties is inductive: a task must be known to start only *)
(* for a block without one, which takes the whole pipeline into account: a *)
(* block waits in one place only (Pipeline), and never again once it has a *)
(* task (Flows).                                                           *)
(***************************************************************************)
EXTENDS DataAvailability, TLAPS

In(b, s) == \E i \in DOMAIN s : s[i] = b
Waits(b) == In(b, stream) \/ In(b, channel) \/ b \in msg

\* A block waits in one place of the pipeline.
Pipeline ==
  /\ IsInjective(stream) /\ IsInjective(channel)
  /\ \A b, c \in msg : b = c
  /\ \A b \in Block : ~(In(b, stream) /\ In(b, channel))
  /\ \A b \in msg : ~In(b, stream) /\ ~In(b, channel)

\* Blocks wait after their notification and before their task; the DA layer
\* has a block only once its task is over.
Flows ==
  /\ \A b \in Block : Waits(b) => b \in notified /\ tasks[b] = "none"
  /\ \A b \in Block : tasks[b] # "none" => b \in notified
  /\ \A b \in Block : In(b, published) => tasks[b] \in {"done", "failed"}

\* A task that passed its commit, or whose diff was published, left the diff.
Kept ==
  \A b \in Block :
    (tasks[b] \in {"query", "publish", "done"} \/ In(b, published)) /\ ~Twin(b)
      => da[Hash[b]] = Diff(b)

IInv == TypeOK /\ Pipeline /\ Flows /\ IsInjective(published) /\ Kept

----------------------------------------------------------------------------
(* Sequences without repetition *)

LEMMA AppendIn ==
  ASSUME NEW S, NEW s \in Seq(S), NEW b \in S
  PROVE  /\ \A c : In(c, Append(s, b)) <=> (In(c, s) \/ c = b)
         /\ IsInjective(s) /\ ~In(b, s) => IsInjective(Append(s, b))
<1>1. /\ DOMAIN Append(s, b) = DOMAIN s \cup {Len(s) + 1}
      /\ Append(s, b)[Len(s) + 1] = b
      /\ \A i \in DOMAIN s : Append(s, b)[i] = s[i]
  OBVIOUS
<1>2. \A c : In(c, Append(s, b)) <=> (In(c, s) \/ c = b)
  BY <1>1 DEF In
<1>3. IsInjective(s) /\ ~In(b, s) => IsInjective(Append(s, b))
  BY <1>1 DEF In, IsInjective
<1>4. QED  BY <1>2, <1>3

LEMMA TailIn ==
  ASSUME NEW S, NEW s \in Seq(S), s # <<>>
  PROVE  /\ Head(s) \in S /\ In(Head(s), s) /\ Tail(s) \in Seq(S)
         /\ \A c : In(c, Tail(s)) => In(c, s)
         /\ IsInjective(s) => IsInjective(Tail(s)) /\ ~In(Head(s), Tail(s))
<1>1. /\ Len(s) \in Nat /\ Len(s) >= 1 /\ 1 \in DOMAIN s /\ Head(s) = s[1]
      /\ Head(s) \in S /\ Tail(s) \in Seq(S)
  OBVIOUS
<1>2. ASSUME NEW i \in DOMAIN Tail(s)
      PROVE  i + 1 \in DOMAIN s /\ Tail(s)[i] = s[i + 1] /\ i \in Nat /\ i + 1 # 1
  BY <1>1, <1>2
<1>3. In(Head(s), s) /\ \A c : In(c, Tail(s)) => In(c, s)
  BY <1>1, <1>2 DEF In
<1>4. IsInjective(s) => IsInjective(Tail(s)) /\ ~In(Head(s), Tail(s))
  <2> SUFFICES ASSUME IsInjective(s) PROVE IsInjective(Tail(s)) /\ ~In(Head(s), Tail(s))
    OBVIOUS
  <2>1. ~In(Head(s), Tail(s))
    BY <1>1, <1>2 DEF In, IsInjective
  <2>2. ASSUME NEW i \in DOMAIN Tail(s), NEW j \in DOMAIN Tail(s), Tail(s)[i] = Tail(s)[j]
        PROVE  i = j
    <3>1. i + 1 = j + 1 /\ i \in Nat /\ j \in Nat
      BY <1>2, <2>2 DEF IsInjective
    <3>2. QED  BY <3>1
  <2>3. QED  BY <2>1, <2>2 DEF IsInjective
<1>5. QED  BY <1>1, <1>3, <1>4

LEMMA NothingIn == IsInjective(<<>>) /\ \A c : ~In(c, <<>>)
  BY DEF In, IsInjective

----------------------------------------------------------------------------
(* The invariant is inductive *)

LEMMA InitIInv == Init => IInv
<1> SUFFICES ASSUME Init PROVE IInv
  OBVIOUS
<1>1. TypeOK
  BY BoundAssumption DEF Init, TypeOK, Steps, Keys
<1>2. Pipeline /\ Flows /\ IsInjective(published) /\ Kept
  BY NothingIn DEF Init, Pipeline, Flows, Waits, Kept
<1>3. QED  BY <1>1, <1>2 DEF IInv

LEMMA ImportIInv ==
  ASSUME IInv, NEW b \in Block, Import(b)
  PROVE  IInv'
<1> USE DEF IInv
<1>1. TypeOK'
  BY DEF Import, TypeOK, config, bounds
<1>2. /\ \A c : In(c, stream)' <=> (In(c, stream) \/ c = b)
      /\ ~In(b, stream) => IsInjective(stream)'
      /\ \A c : (In(c, channel)' <=> In(c, channel)) /\ (In(c, published)' <=> In(c, published))
  <2>1. stream \in Seq(Block) /\ stream' = Append(stream, b) /\ channel' = channel
          /\ published' = published /\ IsInjective(stream)
    BY DEF Import, TypeOK, Pipeline
  <2>2. /\ \A c : In(c, Append(stream, b)) <=> (In(c, stream) \/ c = b)
        /\ IsInjective(stream) /\ ~In(b, stream) => IsInjective(Append(stream, b))
    BY <2>1, AppendIn
  <2>3. QED  BY <2>1, <2>2 DEF In, IsInjective
<1>3. ~Waits(b)
  BY DEF Flows, Import
<1>4. Pipeline'
  BY <1>2, <1>3 DEF Pipeline, Waits, Import
<1>5. Flows'
  <2>1. tasks' = tasks /\ notified' = notified \cup {b} /\ msg' = msg
    BY DEF Import
  <2>2. tasks[b] = "none"
    BY DEF Flows, Import
  <2>3. QED  BY <1>2, <2>1, <2>2 DEF Flows, Waits
<1>6. IsInjective(published)' /\ Kept'
  BY <1>2 DEF Kept, Twin, Import
<1>7. QED  BY <1>1, <1>4, <1>5, <1>6

\* What a step of the worker or a restart does to the flows: nothing but
\* forgetting the ones that were not over.
LEMMA FlowsKept ==
  ASSUME IInv, TypeOK', notified' = notified, da' = da, published' = published,
         \A b \in Block : tasks'[b] \in {tasks[b], "none"},
         \A b \in Block : tasks[b] \in {"done", "failed"} => tasks'[b] = tasks[b],
         \A b \in Block : Waits(b)' => Waits(b)
  PROVE  Flows' /\ IsInjective(published)' /\ Kept'
<1>1. Flows'
  <2>1. \A b \in Block : Waits(b)' => b \in notified' /\ tasks'[b] = "none"
    BY DEF IInv, Flows
  <2>2. \A b \in Block : tasks'[b] # "none" => b \in notified'
    BY DEF IInv, Flows
  <2>3. \A b \in Block : In(b, published)' => tasks'[b] \in {"done", "failed"}
    BY DEF IInv, Flows, In
  <2>4. QED  BY <2>1, <2>2, <2>3 DEF Flows
<1>2. Kept'
  BY DEF IInv, Kept, Twin, In
<1>3. QED  BY <1>1, <1>2 DEF IInv, IsInjective

\* The worker sends b, which it has taken from where it waited.
LEMMA SendPipeline ==
  ASSUME TypeOK, NEW b \in Block, send(b), stream' \in Seq(Block),
         IsInjective(stream'), IsInjective(channel), ~In(b, stream'), ~In(b, channel),
         \A c \in Block : ~(In(c, stream') /\ In(c, channel))
  PROVE  /\ Pipeline' /\ channel' \in Seq(Block) /\ msg' \subseteq Block
         /\ worker' \in {"runnable", "channel"}
         /\ \A c \in Block : Waits(c)' => c = b \/ In(c, stream') \/ In(c, channel)
<1>1. CASE channel' = Append(channel, b) /\ msg' = {} /\ worker' = "runnable"
  <2>1. channel \in Seq(Block)
    BY DEF TypeOK
  <2>2. /\ \A c : In(c, channel)' <=> (In(c, channel) \/ c = b)
        /\ IsInjective(channel)'
    <3>1. /\ \A c : In(c, Append(channel, b)) <=> (In(c, channel) \/ c = b)
          /\ IsInjective(Append(channel, b))
      BY <2>1, AppendIn
    <3>2. QED  BY <1>1, <3>1 DEF In, IsInjective
  <2>3. \A c : In(c, stream)' <=> In(c, stream')
    BY DEF In
  <2>4. IsInjective(stream)'
    BY DEF IsInjective
  <2>5. QED  BY <1>1, <2>1, <2>2, <2>3, <2>4 DEF Pipeline, Waits
<1>2. CASE msg' = {b} /\ worker' = "channel" /\ channel' = channel
  <2>1. \A c : (In(c, stream)' <=> In(c, stream')) /\ (In(c, channel)' <=> In(c, channel))
    BY <1>2 DEF In
  <2>2. IsInjective(stream)' /\ IsInjective(channel)'
    BY <1>2 DEF IsInjective
  <2>3. QED  BY <1>2, <2>1, <2>2 DEF Pipeline, Waits, TypeOK
<1>3. QED  BY <1>1, <1>2 DEF send

LEMMA PollIInv ==
  ASSUME IInv, poll_next
  PROVE  IInv'
<1> DEFINE Fixed == UNCHANGED <<mode, layer, notified, tasks, da, published, restarts>>
<1>0. Fixed
  BY DEF poll_next, config
<1>1. ASSUME TypeOK', Pipeline', \A b \in Block : Waits(b)' => Waits(b)
      PROVE  IInv'
  <2>1. tasks' = tasks /\ notified' = notified /\ da' = da /\ published' = published
    BY <1>0
  <2>2. Flows' /\ IsInjective(published)' /\ Kept'
    BY <1>1, <2>1, FlowsKept
  <2>3. QED  BY <1>1, <2>2 DEF IInv
<1>2. CASE UNCHANGED <<stream, msg, channel, skipped, errors>> /\ worker' = "stream"
  <2>1. TypeOK'
    BY <1>0, <1>2 DEF IInv, TypeOK
  <2>2. Pipeline' /\ \A b \in Block : Waits(b)' => Waits(b)
    BY <1>2 DEF IInv, Pipeline, Waits, In, IsInjective
  <2>3. QED  BY <1>1, <2>1, <2>2
<1>3. ASSUME stream # <<>>, stream' = Tail(stream)
      PROVE  /\ Head(stream) \in Block /\ Waits(Head(stream))
             /\ stream' \in Seq(Block) /\ IsInjective(stream')
             /\ \A c : In(c, stream') => In(c, stream)
             /\ ~In(Head(stream), stream') /\ ~In(Head(stream), channel)
  <2>1. stream \in Seq(Block) /\ IsInjective(stream)
    BY DEF IInv, TypeOK, Pipeline
  <2>2. /\ Head(stream) \in Block /\ In(Head(stream), stream) /\ Tail(stream) \in Seq(Block)
        /\ \A c : In(c, Tail(stream)) => In(c, stream)
        /\ IsInjective(Tail(stream)) /\ ~In(Head(stream), Tail(stream))
    BY <1>3, <2>1, TailIn
  <2>3. QED  BY <1>3, <2>2 DEF IInv, Pipeline, Waits
<1>4. CASE /\ stream # <<>> /\ stream' = Tail(stream) /\ send(Head(stream))
           /\ UNCHANGED <<skipped, errors>>
  <2>1. IsInjective(channel) /\ \A c \in Block : ~(In(c, stream') /\ In(c, channel))
    BY <1>3, <1>4 DEF IInv, Pipeline
  <2>2. TypeOK
    BY DEF IInv
  <2>3. /\ Pipeline' /\ channel' \in Seq(Block) /\ msg' \subseteq Block
        /\ worker' \in {"runnable", "channel"}
        /\ \A c \in Block : Waits(c)' => c = Head(stream) \/ In(c, stream') \/ In(c, channel)
    BY <1>3, <1>4, <2>1, <2>2, SendPipeline
  <2>4. TypeOK'
    BY <1>0, <1>3, <1>4, <2>2, <2>3 DEF TypeOK
  <2>5. \A c \in Block : Waits(c)' => Waits(c)
    BY <1>3, <1>4, <2>3 DEF Waits
  <2>6. QED  BY <1>1, <2>3, <2>4, <2>5
<1>5. CASE /\ stream # <<>> /\ stream' = Tail(stream)
           /\ errors < MaxErrors /\ errors' = errors + 1
           /\ skipped' = skipped \cup {Head(stream)} /\ worker' = "nobody"
           /\ UNCHANGED <<msg, channel>>
  <2>1. TypeOK'
    BY <1>0, <1>3, <1>5, BoundAssumption DEF IInv, TypeOK
  <2>2. /\ \A c : (In(c, stream)' <=> In(c, stream')) /\ (In(c, channel)' <=> In(c, channel))
        /\ IsInjective(stream)' /\ IsInjective(channel)'
    BY <1>3, <1>5 DEF IInv, Pipeline, In, IsInjective
  <2>3. Pipeline' /\ \A b \in Block : Waits(b)' => Waits(b)
    BY <1>3, <1>5, <2>2 DEF IInv, Pipeline, Waits
  <2>4. QED  BY <1>1, <2>1, <2>3
<1>6. ASSUME NEW b \in msg, send(b), UNCHANGED <<stream, skipped, errors>>
      PROVE  IInv'
  <2>1. b \in Block /\ TypeOK /\ stream' = stream
    BY <1>6 DEF IInv, TypeOK
  <2>2. /\ stream' \in Seq(Block) /\ IsInjective(stream') /\ IsInjective(channel)
        /\ ~In(b, stream') /\ ~In(b, channel)
        /\ \A c \in Block : ~(In(c, stream') /\ In(c, channel))
    BY <1>6, <2>1 DEF IInv, Pipeline, TypeOK
  <2>3. /\ Pipeline' /\ channel' \in Seq(Block) /\ msg' \subseteq Block
        /\ worker' \in {"runnable", "channel"}
        /\ \A c \in Block : Waits(c)' => c = b \/ In(c, stream') \/ In(c, channel)
    BY <1>6, <2>1, <2>2, SendPipeline
  <2>4. TypeOK'
    BY <1>0, <1>6, <2>1, <2>3 DEF TypeOK
  <2>5. \A c \in Block : Waits(c)' => Waits(c)
    BY <1>6, <2>1, <2>3 DEF Waits
  <2>6. QED  BY <1>1, <2>3, <2>4, <2>5
<1>7. QED  BY <1>2, <1>4, <1>5, <1>6 DEF poll_next

LEMMA ReceiveIInv ==
  ASSUME IInv, receive
  PROVE  IInv'
<1> DEFINE b == Head(channel)
<1>1. /\ b \in Block /\ In(b, channel) /\ Tail(channel) \in Seq(Block)
      /\ \A c : In(c, Tail(channel)) => In(c, channel)
      /\ IsInjective(Tail(channel)) /\ ~In(b, Tail(channel))
  <2>1. channel \in Seq(Block) /\ IsInjective(channel) /\ channel # <<>>
    BY DEF IInv, TypeOK, Pipeline, receive
  <2>2. QED  BY <2>1, TailIn
<1>2. /\ channel' = Tail(channel) /\ tasks' = [tasks EXCEPT ![b] = "prove"]
      /\ UNCHANGED <<mode, layer, notified, stream, msg, da, published, skipped, errors, restarts>>
      /\ worker' = IF worker = "channel" THEN "runnable" ELSE worker
  BY DEF receive, config, bounds
<1> HIDE DEF b
<1>3. /\ b \in notified /\ tasks[b] = "none" /\ ~In(b, stream) /\ b \notin msg
      /\ ~In(b, published)
  BY <1>1 DEF IInv, Flows, Waits, Pipeline
<1>4. /\ tasks \in [Block -> Steps] /\ tasks'[b] = "prove"
      /\ \A c \in Block \ {b} : tasks'[c] = tasks[c]
  BY <1>1, <1>2 DEF IInv, TypeOK
<1>5. TypeOK'
  BY <1>1, <1>2 DEF IInv, TypeOK, Steps
<1>6. /\ \A c : (In(c, channel)' <=> In(c, Tail(channel))) /\ (In(c, stream)' <=> In(c, stream))
                  /\ (In(c, published)' <=> In(c, published))
      /\ IsInjective(channel)' /\ IsInjective(stream)' /\ IsInjective(published)'
  BY <1>1, <1>2 DEF IInv, Pipeline, In, IsInjective
<1>7. Pipeline'
  BY <1>1, <1>2, <1>6 DEF IInv, Pipeline
<1>8. Flows'
  BY <1>1, <1>2, <1>3, <1>4, <1>6 DEF IInv, Flows, Waits
<1>9. Kept'
  BY <1>2, <1>3, <1>4, <1>6 DEF IInv, Kept, Twin
<1>10. QED  BY <1>5, <1>6, <1>7, <1>8, <1>9 DEF IInv

\* The flow has passed its commit.
Stored == {"query", "publish", "done"}

\* Every step of a task: it moves the flow of b on, may write the entry of b
\* (prove before the diff, store_state_diff the diff) or publish b and end.
LEMMA TaskStep ==
  ASSUME IInv, NEW b \in Block, Local, TypeOK',
         NEW from \in Steps \ {"none", "done", "failed"}, NEW to \in Steps \ {"none"},
         Step(b, from, to),
         \/ da' = da /\ (to \in Stored => from \in Stored)
         \/ /\ from \notin Stored
            /\ \E v : da' = [da EXCEPT ![Hash[b]] = v] /\ (to \in Stored => v = Diff(b)),
         \/ published' = published
         \/ published' = Append(published, b) /\ from = "publish" /\ to \in {"done", "failed"}
  PROVE  IInv'
<1>1. UNCHANGED <<mode, layer, notified, stream, worker, msg, channel, skipped, restarts>>
  BY DEF Local, config, pipeline
<1>2. /\ tasks \in [Block -> Steps] /\ tasks[b] = from /\ tasks'[b] = to
      /\ \A c \in Block \ {b} : tasks'[c] = tasks[c]
  BY DEF IInv, TypeOK, Step
<1>3. b \in notified /\ ~Waits(b) /\ ~In(b, published)
  BY <1>2 DEF IInv, Flows
<1>4. /\ \A c : (In(c, stream)' <=> In(c, stream)) /\ (In(c, channel)' <=> In(c, channel))
      /\ IsInjective(stream)' /\ IsInjective(channel)'
  BY <1>1 DEF IInv, Pipeline, In, IsInjective
<1>5. Pipeline'
  BY <1>1, <1>4 DEF IInv, Pipeline
<1>6. /\ IsInjective(published)'
      /\ \A c : In(c, published)' => In(c, published) \/ (c = b /\ from = "publish" /\ to \in {"done", "failed"})
  <2>1. CASE published' = published
    BY <2>1 DEF IInv, In, IsInjective
  <2>2. CASE published' = Append(published, b) /\ from = "publish" /\ to \in {"done", "failed"}
    <3>1. published \in Seq(Block) /\ IsInjective(published)
      BY DEF IInv, TypeOK
    <3>2. /\ \A c : In(c, Append(published, b)) <=> (In(c, published) \/ c = b)
          /\ IsInjective(Append(published, b))
      BY <1>3, <3>1, AppendIn
    <3>3. QED  BY <2>2, <3>2 DEF In, IsInjective
  <2>3. QED  BY <2>1, <2>2
<1>7. Flows'
  BY <1>1, <1>2, <1>3, <1>4, <1>6 DEF IInv, Flows, Waits
<1>8. Kept'
  <2> SUFFICES ASSUME NEW c \in Block, tasks'[c] \in Stored \/ In(c, published)', ~Twin(c)'
               PROVE  da'[Hash[c]] = Diff(c)
    BY DEF Kept, Stored
  <2>1. ~Twin(c)
    BY <1>1 DEF Twin
  <2>2. da \in [Keys -> {Empty, Job} \cup {Diff(d) : d \in Block}] /\ Hash[b] \in Keys /\ Hash[c] \in Keys
    BY DEF IInv, TypeOK, Keys
  <2>3. CASE c # b
    <3>1. tasks[c] \in Stored \/ In(c, published)
      BY <1>2, <1>6, <2>3
    <3>2. da[Hash[c]] = Diff(c)
      BY <2>1, <3>1 DEF IInv, Kept, Stored
    <3>3. Hash[c] # Hash[b]
      BY <1>3, <2>1, <2>3 DEF Twin
    <3>4. QED  BY <2>2, <3>2, <3>3
  <2>4. CASE c = b
    <3>1. to \in Stored \/ from = "publish"
      BY <1>2, <1>3, <1>6, <2>4
    <3>2. CASE da' = da /\ (to \in Stored => from \in Stored)
      <4>1. tasks[b] \in Stored
        BY <1>2, <3>1, <3>2 DEF Stored
      <4>2. QED  BY <2>1, <2>4, <3>2, <4>1 DEF IInv, Kept, Stored
    <3>3. CASE /\ from \notin Stored
               /\ \E v : da' = [da EXCEPT ![Hash[b]] = v] /\ (to \in Stored => v = Diff(b))
      BY <2>2, <2>4, <3>1, <3>3 DEF Stored
    <3>4. QED  BY <3>2, <3>3
  <2>5. QED  BY <2>3, <2>4
<1>9. QED  BY <1>5, <1>6, <1>7, <1>8 DEF IInv

LEMMA TaskType ==
  ASSUME IInv, NEW b \in Block, Local, NEW from, NEW to \in Steps, Step(b, from, to),
         errors' = errors \/ Fails,
         \/ da' = da
         \/ \E v \in {Job, Diff(b)} : da' = [da EXCEPT ![Hash[b]] = v],
         published' = published \/ published' = Append(published, b)
  PROVE  TypeOK'
<1>1. UNCHANGED <<mode, layer, notified, stream, worker, msg, channel, skipped, restarts>>
  BY DEF Local, config, pipeline
<1>2. tasks' \in [Block -> Steps]
  BY DEF IInv, TypeOK, Step
<1>3. da' \in [Keys -> {Empty, Job} \cup {Diff(c) : c \in Block}]
  <2>1. Hash[b] \in Keys /\ {Job, Diff(b)} \subseteq {Empty, Job} \cup {Diff(c) : c \in Block}
    BY DEF Keys
  <2>2. da \in [Keys -> {Empty, Job} \cup {Diff(c) : c \in Block}]
    BY DEF IInv, TypeOK
  <2>3. QED  BY <2>1, <2>2
<1>4. published' \in Seq(Block)
  <2>1. published \in Seq(Block)
    BY DEF IInv, TypeOK
  <2>2. QED  BY <2>1
<1>5. errors' \in 0 .. MaxErrors
  <2>1. errors \in 0 .. MaxErrors /\ MaxErrors \in Nat
    BY BoundAssumption DEF IInv, TypeOK
  <2>2. QED  BY <2>1 DEF Fails
<1>6. QED  BY <1>1, <1>2, <1>3, <1>4, <1>5 DEF IInv, TypeOK

LEMMA TaskIInv ==
  ASSUME IInv, NEW b \in Block, Task(b)
  PROVE  IInv'
<1>1. CASE prove(b)
  <2>1. /\ Step(b, "prove", "store") /\ Local /\ published' = published
        /\ da' = da \/ da' = [da EXCEPT ![Hash[b]] = Job]
        /\ errors' = errors \/ Fails
    BY <1>1 DEF prove
  <2>2. TypeOK'
    BY <2>1, TaskType DEF Steps
  <2>3. QED  BY <2>1, <2>2, TaskStep DEF Steps, Stored
<1>2. CASE store_state_diff(b)
  <2>1. Local /\ published' = published /\ (errors' = errors \/ Fails)
    BY <1>2 DEF store_state_diff
  <2>2. CASE Step(b, "store", "query") /\ da' = [da EXCEPT ![Hash[b]] = Diff(b)]
    <3>1. TypeOK'
      BY <2>1, <2>2, TaskType DEF Steps
    <3>2. QED  BY <2>1, <2>2, <3>1, TaskStep DEF Steps, Stored
  <2>3. CASE Step(b, "store", "failed") /\ da' = da
    <3>1. TypeOK'
      BY <2>1, <2>3, TaskType DEF Steps
    <3>2. QED  BY <2>1, <2>3, <3>1, TaskStep DEF Steps, Stored
  <2>4. QED  BY <1>2, <2>2, <2>3 DEF store_state_diff
<1>3. CASE last_published_state(b)
  <2>1. Local /\ published' = published /\ da' = da /\ (errors' = errors \/ Fails)
    BY <1>3 DEF last_published_state
  <2>2. PICK to \in {"publish", "done", "failed"} : Step(b, "query", to)
    BY <1>3 DEF last_published_state
  <2>3. TypeOK'
    BY <2>1, <2>2, TaskType DEF Steps
  <2>4. QED  BY <2>1, <2>2, <2>3, TaskStep DEF Steps, Stored
<1>4. CASE publish(b)
  <2>1. /\ Local /\ da' = da /\ (errors' = errors \/ Fails)
        /\ published' = published \/ published' = Append(published, b)
    BY <1>4 DEF publish
  <2>2. PICK to \in {"done", "failed"} : Step(b, "publish", to)
    BY <1>4 DEF publish
  <2>3. TypeOK'
    BY <2>1, <2>2, TaskType DEF Steps
  <2>4. QED  BY <2>1, <2>2, <2>3, TaskStep DEF Steps, Stored
<1>5. QED  BY <1>1, <1>2, <1>3, <1>4 DEF Task

LEMMA RestartIInv ==
  ASSUME IInv, Restart
  PROVE  IInv'
<1>1. TypeOK'
  BY BoundAssumption DEF IInv, TypeOK, Restart, config, Steps
<1>2. Pipeline' /\ \A b \in Block : ~Waits(b)'
  <2>1. stream' = <<>> /\ channel' = <<>> /\ msg' = {}
    BY DEF Restart
  <2>2. QED  BY <2>1, NothingIn DEF Pipeline, Waits, In, IsInjective
<1>3. Flows' /\ IsInjective(published)' /\ Kept'
  <2>1. /\ notified' = notified /\ da' = da /\ published' = published
        /\ \A b \in Block : tasks'[b] \in {tasks[b], "none"}
        /\ \A b \in Block : tasks[b] \in {"done", "failed"} => tasks'[b] = tasks[b]
    BY DEF Restart
  <2>2. QED  BY <1>1, <1>2, <2>1, FlowsKept
<1>4. QED  BY <1>1, <1>2, <1>3 DEF IInv

LEMMA NextIInv == IInv /\ [Next]_vars => IInv'
<1> SUFFICES ASSUME IInv, [Next]_vars PROVE IInv'
  OBVIOUS
<1>1. CASE Next
  BY <1>1, ImportIInv, TaskIInv, PollIInv, ReceiveIInv, RestartIInv DEF Next
<1>2. CASE UNCHANGED vars
  BY <1>2 DEF vars, config, pipeline, bounds, IInv, TypeOK, Pipeline, Flows, Waits, Kept, Twin,
              In, IsInjective
<1>3. QED  BY <1>1, <1>2

----------------------------------------------------------------------------
(* The theorems *)

\* The inductive invariant holds of every reachable state of the publication of
\* state diffs.
THEOREM InvariantHolds == Spec => []IInv
  BY InitIInv, NextIInv, PTL DEF Spec

\* The state of the pipeline is well formed for every set of blocks, capacity
\* and number of failures: in particular a task is only spawned for a block.
THEOREM TypeCorrect == Spec => []TypeOK
  BY InvariantHolds, PTL DEF IInv

\* A state diff that a flow has committed (store_state_diff) or published
\* (publish_state_diff) is and stays in the database: neither the cairo job of
\* any block, nor another flow, nor a restart replaces it unless a block of a
\* fork with the same hash was imported.
THEOREM CommittedDiffKept == Spec => []DiffKept
<1>1. IInv => DiffKept
  BY DEF IInv, TypeOK, Kept, In, Contains, DiffKept
<1>2. QED  BY InvariantHolds, <1>1, PTL

\* update_state publishes no block twice, whatever fails or restarts: the
\* pipeline hands a block to one task and a task publishes once.
THEOREM PublishedAtMostOnce == Spec => []PublishedOnce
<1>1. IInv => PublishedOnce
  BY DEF IInv, PublishedOnce
<1>2. QED  BY InvariantHolds, <1>1, PTL
=============================================================================
