------------------------- MODULE MappingSyncProofs -------------------------
(***************************************************************************)
(* Proofs about the mapping worker, for every block tree, every schedule   *)
(* of imports and every number of errors, lost commits and restarts.       *)
(*                                                                         *)
(* GapsOnlyBelowLostTips is not inductive: between its two commits the     *)
(* worker relies on next_tips, which is not stored yet.  The strengthening *)
(* says what next_tips owes to the stored tips (Visit) and that every other*)
(* processed block relies on stored data only (Walked).                    *)
(***************************************************************************)
EXTENDS MappingSync, TLAPS, FiniteSetTheorems

\* Between the two commits: the visited block is processed, its parent is about
\* to be stored, and no stored tip is dropped that still has to be visited.
Visit ==
  pc = "tips" =>
    /\ operating \in synced
    /\ operating # Genesis => Parent[operating] \in Elements(next_tips)
    /\ \A x \in Elements(tips) : Skipped(x) \/ x \in Elements(next_tips)

Walked ==
  \A b \in synced \ ({Genesis} \cup lost) :
    \/ pc = "tips" /\ b = operating
    \/ Skipped(Parent[b])
    \/ Parent[b] \in Elements(tips)

IInv == TypeOK /\ Visit /\ Walked

----------------------------------------------------------------------------
(* Sequences of tips *)

LEMMA ElementsAppend ==
  ASSUME NEW S, NEW s \in Seq(S), NEW x \in S
  PROVE  /\ Append(s, x) \in Seq(S)
         /\ Elements(Append(s, x)) = Elements(s) \cup {x}
<1>1. Append(s, x) \in Seq(S)
  OBVIOUS
<1>2. ASSUME NEW y \in Elements(Append(s, x)) PROVE y \in Elements(s) \cup {x}
  BY <1>2 DEF Elements
<1>3. ASSUME NEW y \in Elements(s) \cup {x} PROVE y \in Elements(Append(s, x))
  <2>1. CASE y = x
    <3>1. Len(s) + 1 \in DOMAIN Append(s, x) /\ Append(s, x)[Len(s) + 1] = x
      OBVIOUS
    <3>2. QED  BY <2>1, <3>1 DEF Elements
  <2>2. CASE y \in Elements(s)
    <3>1. PICK i \in DOMAIN s : y = s[i]
      BY <2>2 DEF Elements
    <3>2. i \in DOMAIN Append(s, x) /\ Append(s, x)[i] = s[i]
      OBVIOUS
    <3>3. QED  BY <3>1, <3>2 DEF Elements
  <2>3. QED  BY <1>3, <2>1, <2>2
<1>4. QED  BY <1>1, <1>2, <1>3

LEMMA ElementsPrefix ==
  ASSUME NEW S, NEW s \in Seq(S), NEW k \in DOMAIN s
  PROVE  /\ SubSeq(s, 1, k - 1) \in Seq(S)
         /\ \A i \in DOMAIN s : i < k => s[i] \in Elements(SubSeq(s, 1, k - 1))
<1>1. k \in 1..Len(s) /\ Len(s) \in Nat
  OBVIOUS
<1>2. SubSeq(s, 1, k - 1) \in Seq(S)
  BY <1>1
<1>3. ASSUME NEW i \in DOMAIN s, i < k
      PROVE  s[i] \in Elements(SubSeq(s, 1, k - 1))
  <2>1. i \in DOMAIN SubSeq(s, 1, k - 1) /\ SubSeq(s, 1, k - 1)[i] = s[i]
    BY <1>1, <1>3
  <2>2. QED  BY <2>1 DEF Elements
<1>4. QED  BY <1>2, <1>3

LEMMA LeafOrdersAreTips ==
  ASSUME TypeOK
  PROVE  TipsToVisit \subseteq Seq(Block)
<1>1. IsFiniteSet(Leaves)
  BY BlockAssumption, FS_Subset DEF TypeOK, Leaves
<1>2. Cardinality(Leaves) \in Nat
  BY <1>1, FS_CardinalityType
<1>3. LeafOrders \subseteq Seq(Block)
  <2>1. Leaves \subseteq Block
    BY DEF TypeOK, Leaves
  <2>2. QED  BY <1>2, <2>1 DEF LeafOrders
<1>4. QED  BY <1>3 DEF TipsToVisit, TypeOK

----------------------------------------------------------------------------
(* Type correctness *)

\* The two commits of the mapping database keep its columns well typed.
LEMMA SyncBlockType ==
  ASSUME TypeOK, NEW b \in Block, sync_block(b) \/ write_none(b)
  PROVE  /\ synced' = synced \cup {b}
         /\ synced' \in SUBSET Block
         /\ block_mapping' \in [Hash -> Seq(Block)]
         /\ tx_mapping' \in [Tx -> Block \cup {NoBlock}]
         /\ tx_hashes_cache' \in [Hash -> Seq(Tx) \cup {NoBlock}]
<1>1. CASE write_none(b)
  BY <1>1 DEF TypeOK, write_none
<1>2. ASSUME NEW txs \in Seq(Tx), write_hashes(b, txs)
      PROVE  /\ synced' = synced \cup {b}
             /\ synced' \in SUBSET Block
             /\ block_mapping' \in [Hash -> Seq(Block)]
             /\ tx_mapping' \in [Tx -> Block \cup {NoBlock}]
             /\ tx_hashes_cache' \in [Hash -> Seq(Tx) \cup {NoBlock}]
  <2>1. Append(block_mapping[StarknetHash[b]], b) \in Seq(Block)
    BY BlockAssumption DEF TypeOK
  <2>2. /\ tx_mapping' \in [Tx -> Block \cup {NoBlock}]
        /\ tx_hashes_cache' \in [Hash -> Seq(Tx) \cup {NoBlock}]
    BY <1>2 DEF TypeOK, write_hashes, write_transaction_hashes
  <2>3. QED  BY <1>2, <2>1, <2>2 DEF TypeOK, write_hashes
<1>3. <<>> \in Seq(Tx) /\ TxHashes[b] \in Seq(Tx)
  BY BlockAssumption
<1>4. QED  BY <1>1, <1>2, <1>3 DEF sync_block

\* What a visit stores and intends to store.
LEMMA VisitTipFacts ==
  ASSUME TypeOK, VisitTip
  PROVE  /\ operating' \in Block
         /\ synced' = synced \cup {operating'}
         /\ synced' \in SUBSET Block
         /\ block_mapping' \in [Hash -> Seq(Block)]
         /\ tx_mapping' \in [Tx -> Block \cup {NoBlock}]
         /\ tx_hashes_cache' \in [Hash -> Seq(Tx) \cup {NoBlock}]
         /\ next_tips' \in Seq(Block)
         /\ errors' \in Nat
         /\ misread' \in SUBSET Block
         /\ operating' # Genesis => Parent[operating'] \in Elements(next_tips')
         /\ \A x \in Elements(tips) :
               x \in synced \/ Number[x] < SyncFrom \/ x = operating'
               \/ x \in Elements(next_tips')
<1>1. PICK ts \in TipsToVisit : \E k \in DOMAIN ts :
         /\ \A j \in DOMAIN ts : j > k => Skipped(ts[j])
         /\ \/ sync_block(ts[k]) /\ UNCHANGED <<errors, misread>>
            \/ write_none(ts[k]) /\ errors' = errors + 1
               /\ misread' = misread \cup {ts[k]}
         /\ operating' = ts[k]
         /\ next_tips' = IF ts[k] = Genesis THEN SubSeq(ts, 1, k - 1)
                         ELSE Append(SubSeq(ts, 1, k - 1), Parent[ts[k]])
  BY DEF VisitTip, TipsAfter
<1>2. PICK k \in DOMAIN ts :
         /\ \A j \in DOMAIN ts : j > k => Skipped(ts[j])
         /\ \/ sync_block(ts[k]) /\ UNCHANGED <<errors, misread>>
            \/ write_none(ts[k]) /\ errors' = errors + 1
               /\ misread' = misread \cup {ts[k]}
         /\ operating' = ts[k]
         /\ next_tips' = IF ts[k] = Genesis THEN SubSeq(ts, 1, k - 1)
                         ELSE Append(SubSeq(ts, 1, k - 1), Parent[ts[k]])
  BY <1>1
<1>3. ts \in Seq(Block)
  BY LeafOrdersAreTips
<1>4. ts[k] \in Block
  BY <1>3
<1>5. /\ SubSeq(ts, 1, k - 1) \in Seq(Block)
      /\ \A i \in DOMAIN ts : i < k => ts[i] \in Elements(SubSeq(ts, 1, k - 1))
  BY <1>3, ElementsPrefix
<1>6. ts[k] # Genesis => Parent[ts[k]] \in Block
  BY <1>4, BlockAssumption
<1>7. /\ next_tips' \in Seq(Block)
      /\ Elements(SubSeq(ts, 1, k - 1)) \subseteq Elements(next_tips')
      /\ ts[k] # Genesis => Parent[ts[k]] \in Elements(next_tips')
  <2>1. CASE ts[k] = Genesis
    BY <1>2, <1>5, <2>1
  <2>2. CASE ts[k] # Genesis
    <3> DEFINE rest == SubSeq(ts, 1, k - 1)
               parent == Parent[ts[k]]
    <3>1. next_tips' = Append(rest, parent)
      BY <1>2, <2>2
    <3>2. rest \in Seq(Block) /\ parent \in Block
      BY <1>5, <1>6, <2>2
    <3> HIDE DEF rest, parent
    <3>3. Append(rest, parent) \in Seq(Block) /\ Elements(Append(rest, parent)) = Elements(rest) \cup {parent}
      BY <3>2, ElementsAppend
    <3>4. QED  BY <2>2, <3>1, <3>3 DEF rest, parent
  <2>3. QED  BY <2>1, <2>2
<1>8. /\ synced' = synced \cup {ts[k]}
      /\ synced' \in SUBSET Block
      /\ block_mapping' \in [Hash -> Seq(Block)]
      /\ tx_mapping' \in [Tx -> Block \cup {NoBlock}]
      /\ tx_hashes_cache' \in [Hash -> Seq(Tx) \cup {NoBlock}]
  BY <1>2, <1>4, SyncBlockType
<1>9. errors' \in Nat /\ misread' \in SUBSET Block
  BY <1>2, <1>4 DEF TypeOK
<1>10. ASSUME NEW x \in Elements(tips)
       PROVE  x \in synced \/ Number[x] < SyncFrom \/ x = operating'
              \/ x \in Elements(next_tips')
  <2>1. tips # <<>>
    BY DEF Elements
  <2>2. ts = tips
    BY <2>1 DEF TipsToVisit
  <2>3. PICK i \in DOMAIN ts : x = ts[i]
    BY <2>2 DEF Elements
  <2>4. i < k \/ i = k \/ i > k
    BY <1>3
  <2>5. QED  BY <1>2, <1>5, <1>7, <2>3, <2>4 DEF Skipped
<1>11. QED
  BY <1>2, <1>4, <1>7, <1>8, <1>9, <1>10

\* sync_blocks hands control back to poll_next.
LEMMA ReturnFacts ==
  ASSUME NEW r \in BOOLEAN, Return(r)
  PROVE  /\ pc' = "idle"
         /\ have_next' \in BOOLEAN
         /\ attempts' \in 1..Limit
         /\ operating' = Genesis
         /\ next_tips' = <<>>
<1>1. Limit \in 1..Limit
  BY BoundAssumption
<1>2. QED
  BY <1>1, Zenon DEF Return

\* The variables of the worker and of its databases keep their types.
LEMMA TypeOKStep == TypeOK /\ [Next]_vars => TypeOK'
<1> SUFFICES ASSUME TypeOK, [Next]_vars PROVE TypeOK'
  OBVIOUS
<1> USE BlockAssumption, BoundAssumption
<1>1. ASSUME NEW b \in Block, ImportBlock(b) PROVE TypeOK'
  BY <1>1 DEF TypeOK, ImportBlock, dbVars, faultVars
<1> <<>> \in Seq(Block) /\ Limit \in 1..Limit
  OBVIOUS
<1>2. CASE poll_next
  BY <1>2, Zenon DEF TypeOK, poll_next, Fire, chainVars, dbVars, faultVars
<1>3. CASE DrainTips
  <2>1. tips' = <<>> /\ UNCHANGED <<chainVars, synced, block_mapping, tx_mapping, tx_hashes_cache, notified, inner_delay, faultVars>>
    BY <1>3, Zenon DEF DrainTips, Retry
  <2>2. CASE Return(FALSE)
    BY <2>1, <2>2, ReturnFacts, Zenon DEF TypeOK, chainVars, faultVars
  <2>3. CASE attempts # 1 /\ attempts' = attempts - 1 /\ UNCHANGED <<pc, have_next, operating, next_tips>>
    BY <2>1, <2>3 DEF TypeOK, chainVars, faultVars
  <2>4. QED
    BY <1>3, <2>2, <2>3, Zenon DEF DrainTips, Retry
<1>4. CASE VisitTip
  BY <1>4, VisitTipFacts DEF TypeOK, VisitTip, chainVars
<1>5. CASE write_current_syncing_tips
  BY <1>5, ReturnFacts, Zenon DEF TypeOK, write_current_syncing_tips, chainVars, faultVars
<1>6. CASE MultipleLogs
  BY <1>6, ReturnFacts, Zenon DEF TypeOK, MultipleLogs, chainVars, dbVars, faultVars
<1>7. CASE Elapse
  BY <1>7 DEF TypeOK, Elapse, chainVars, dbVars, faultVars
<1>8. CASE SyncError
  <2>1. errors' \in Nat
    BY <1>8 DEF TypeOK, SyncError
  <2>2. QED
    BY <1>8, <2>1, ReturnFacts, Zenon DEF TypeOK, SyncError, chainVars, dbVars
<1>9. CASE TipsError
  <2>1. lost' \in SUBSET Block
    BY <1>9 DEF TypeOK, TipsError
  <2>2. QED
    BY <1>9, <2>1, ReturnFacts, Zenon DEF TypeOK, TipsError, chainVars, dbVars
<1>10. CASE Restart
  <2>1. lost' \in SUBSET Block /\ restarts' \in Nat
    BY <1>10 DEF TypeOK, Restart
  <2>2. QED
    BY <1>10, <2>1, ReturnFacts, Zenon DEF TypeOK, Restart, chainVars, dbVars
<1>11. CASE UNCHANGED vars
  BY <1>11 DEF TypeOK, vars, chainVars, dbVars, workerVars, faultVars
<1>12. QED
  BY <1>1, <1>2, <1>3, <1>4, <1>5, <1>6, <1>7, <1>8, <1>9, <1>10, <1>11 DEF Next, Worker

LEMMA InitType == Init => TypeOK
<1> SUFFICES ASSUME Init PROVE TypeOK
  OBVIOUS
<1>1. /\ <<>> \in Seq(Block) /\ Limit \in 1..Limit /\ 0 \in Nat
      /\ Genesis \in Block /\ {Genesis} \in SUBSET Block /\ {} \in SUBSET Block
  BY BlockAssumption, BoundAssumption
<1>2. /\ block_mapping \in [Hash -> Seq(Block)] /\ tx_mapping \in [Tx -> Block \cup {NoBlock}]
      /\ tx_hashes_cache \in [Hash -> Seq(Tx) \cup {NoBlock}]
  BY <1>1 DEF Init
<1>3. QED
  BY <1>1, <1>2, Zenon DEF Init, TypeOK

\* Every reachable state of the worker and its databases is well typed.
THEOREM TypeCorrect == Spec => []TypeOK
  BY InitType, TypeOKStep, PTL DEF Spec

----------------------------------------------------------------------------
(* No hole behind the walk *)

\* A step that hands control back to poll_next from anywhere but the second
\* commit, and changes neither the processed blocks nor the stored tips.
LEMMA IdleStep ==
  ASSUME IInv, TypeOK', pc # "tips", pc' # "tips", UNCHANGED <<synced, tips, lost>>
  PROVE  IInv'
  BY DEF IInv, Visit, Walked, Skipped, Elements

LEMMA IInvStep == IInv /\ [Next]_vars => IInv'
<1> SUFFICES ASSUME IInv, [Next]_vars PROVE IInv'
  OBVIOUS
<1> TypeOK /\ TypeOK'
  BY TypeOKStep DEF IInv
<1> USE DEF chainVars, dbVars, faultVars
<1>1. CASE UNCHANGED <<synced, tips, pc, operating, next_tips, lost>>
  BY <1>1 DEF IInv, Visit, Walked, Skipped, Elements
<1>2. ASSUME NEW b \in Block, ImportBlock(b) PROVE IInv'
  BY <1>1, <1>2, Zenon DEF ImportBlock
<1>3. CASE poll_next
  BY <1>3, IdleStep, Zenon DEF poll_next
<1>4. CASE DrainTips
  <2>1. ASSUME NEW x \in Elements(tips) PROVE Skipped(x)
    BY <1>4, <2>1 DEF DrainTips, TipsToVisit, Elements
  <2>2. /\ pc = "sync" /\ tips' = <<>> /\ UNCHANGED <<synced, lost>>
        /\ pc' \in {"idle", "sync"}
    BY <1>4, ReturnFacts, Zenon DEF DrainTips, Retry
  <2>3. Walked'
    BY <2>1, <2>2 DEF IInv, Walked, Skipped
  <2>4. QED  BY <2>2, <2>3 DEF IInv, Visit
<1>5. CASE VisitTip
  <2>1. pc = "sync" /\ pc' = "tips" /\ UNCHANGED <<tips, lost>>
    BY <1>5 DEF VisitTip
  <2>2. Visit'
    BY <1>5, <2>1, VisitTipFacts DEF Visit, Skipped, Elements
  <2>3. Walked'
    BY <1>5, <2>1, VisitTipFacts DEF IInv, Walked, Skipped, Elements
  <2>4. QED  BY <2>2, <2>3 DEF IInv
<1>6. CASE write_current_syncing_tips
  <2>1. pc = "tips" /\ tips' = next_tips /\ pc' = "idle" /\ UNCHANGED <<synced, lost>>
    BY <1>6, ReturnFacts, Zenon DEF write_current_syncing_tips
  <2>2. Elements(tips') = Elements(next_tips)
    BY <2>1 DEF Elements
  <2>3. ASSUME NEW b \in synced \ ({Genesis} \cup lost)
        PROVE  Skipped(Parent[b]) \/ Parent[b] \in Elements(next_tips)
    BY <2>1 DEF IInv, Walked, Visit
  <2>4. Walked'
    BY <2>1, <2>2, <2>3 DEF Walked, Skipped
  <2>5. QED  BY <2>1, <2>4 DEF IInv, Visit
<1>7. CASE MultipleLogs
  BY <1>7, IdleStep, ReturnFacts, Zenon DEF MultipleLogs
<1>8. CASE Elapse
  BY <1>1, <1>8 DEF Elapse
<1>9. CASE SyncError
  BY <1>9, IdleStep, ReturnFacts, Zenon DEF SyncError
<1>10. CASE TipsError
  <2>1. pc' = "idle" /\ lost' = lost \cup {operating} /\ UNCHANGED <<synced, tips>>
    BY <1>10, ReturnFacts, Zenon DEF TipsError
  <2>2. QED  BY <2>1 DEF IInv, Visit, Walked, Skipped, Elements
<1>11. CASE Restart
  <2>1. pc' = "idle" /\ UNCHANGED <<synced, tips>>
        /\ lost' = IF pc = "tips" THEN lost \cup {operating} ELSE lost
    BY <1>11, ReturnFacts, Zenon DEF Restart
  <2>2. QED  BY <2>1 DEF IInv, Visit, Walked, Skipped, Elements
<1>12. CASE UNCHANGED vars
  BY <1>1, <1>12 DEF vars, workerVars
<1>13. QED
  BY <1>2, <1>3, <1>4, <1>5, <1>6, <1>7, <1>8, <1>9, <1>10, <1>11, <1>12 DEF Next, Worker

\* sync_one_block leaves no hole behind it: below every processed block the walk
\* towards genesis has been done or is still recorded, unless the commit of the
\* tips that should have followed the commit of that block was lost.
THEOREM NoGaps == Spec => []GapsOnlyBelowLostTips
<1>1. Init => IInv
  <2>1. Init => Visit /\ Walked
    BY DEF Init, Visit, Walked
  <2>2. QED  BY <2>1, InitType DEF IInv
<1>2. IInv => GapsOnlyBelowLostTips
  BY DEF IInv, Visit, Walked, GapsOnlyBelowLostTips, Covered
<1>3. QED
  BY <1>1, <1>2, IInvStep, PTL DEF Spec
============================================================================
