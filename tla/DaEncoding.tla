----------------------------- MODULE DaEncoding -----------------------------
(***************************************************************************)
(* The state diff of a block, as build_commitment_state_diff               *)
(* (client/commitment-state-diff) collects it from the storage changes of  *)
(* the block, and the words block_data_to_calldata                         *)
(* (client/data-availability/src/utils.rs) makes of it.                    *)
(*                                                                         *)
(* A change is a record with the storage map it belongs to, the contract   *)
(* or class of its key, and its value.  Changes come in the order of their *)
(* storage keys.  An IndexMap is a sequence of such records: it keeps the  *)
(* order of insertion.  A word is a pair of its role and its value; the    *)
(* fields of the DA word have Width bits instead of 64.                    *)
(***************************************************************************)
EXTENDS Integers, Sequences, SequencesExt, FiniteSets

CONSTANT Width

ASSUME WidthAssumption == Width \in Nat \ {0}

NoValue == -1

----------------------------------------------------------------------------
(* build_commitment_state_diff *)

Of(changes, map) == SelectSeq(changes, LAMBDA c : c.map = map)
Owners(changes) == {changes[i].owner : i \in DOMAIN changes}
OwnersInOrder(changes) ==
  FoldLeft(LAMBDA seen, c : IF Contains(seen, c.owner) THEN seen ELSE Append(seen, c.owner),
           <<>>, changes)

\* class_known: contract_class_by_class_hash returned Ok, which it does for an
\* unknown class too (the answer is then None).
build_state_diff(changes, class_known) ==
  LET classes == Of(changes, "ContractClassHashes") IN
  [nonces |-> Of(changes, "Nonces"),
   storage_diffs |-> Of(changes, "StorageView"),
   replaced_classes |-> IF class_known THEN classes ELSE <<>>,
   deployed_contracts |-> IF class_known THEN <<>> ELSE classes,
   declared_classes |-> Of(changes, "CompiledClassHashes"),
   num_addr_accessed |-> Cardinality(Owners(SelectSeq(changes, LAMBDA c :
                            c.map \in {"Nonces", "StorageView", "ContractClassHashes"})))]

----------------------------------------------------------------------------
(* block_data_to_calldata *)

da_word(class_flag, nonce, num_changes) ==
  (IF class_flag THEN 2^(2 * Width) + 1 ELSE 0)
    + (IF nonce # NoValue THEN nonce + 2^Width - 1 ELSE 0) + num_changes

\* IndexMap::get on one of the maps.
ValueOf(map, owner) ==
  IF owner \in Owners(map)
  THEN map[CHOOSE i \in DOMAIN map : map[i].owner = owner].value ELSE NoValue

class_flag_of(diff, owner) ==
  IF owner \in Owners(diff.deployed_contracts) THEN ValueOf(diff.deployed_contracts, owner)
                                               ELSE ValueOf(diff.replaced_classes, owner)

\* What one turn of the first two loops pushes.
Entry(diff, owner, nonce, writes) ==
  LET class == class_flag_of(diff, owner) IN
  <<<<"address", owner>>, <<"da_word", da_word(class # NoValue, nonce, Len(writes))>>>>
    \o (IF class # NoValue THEN <<<<"class", class>>>> ELSE <<>>)
    \o FlattenSeq([i \in DOMAIN writes |-> <<<<"key", writes[i].key>>, <<"value", writes[i].value>>>>])

\* Mutation: nonces.get instead of nonces.remove in the first loop.
RemainingNonces_Kept(diff) == diff.nonces

\* The first loop removes the nonces of the contracts it has written.
RemainingNonces(diff) ==
  SelectSeq(diff.nonces, LAMBDA c : c.owner \notin Owners(diff.storage_diffs))

Concat(entry(_), seq) == FlattenSeq([i \in DOMAIN seq |-> entry(seq[i])])

\* The five words of the header before the number of addresses are roots,
\* hashes and the block number; they do not depend on the diff.
block_data_to_calldata(diff) ==
  <<<<"num_addr_accessed", diff.num_addr_accessed>>>>
    \o Concat(LAMBDA owner : Entry(diff, owner, ValueOf(diff.nonces, owner),
                SelectSeq(diff.storage_diffs, LAMBDA c : c.owner = owner)),
              OwnersInOrder(diff.storage_diffs))
    \o Concat(LAMBDA c : Entry(diff, c.owner, c.value, <<>>), RemainingNonces(diff))
    \o Concat(LAMBDA c : <<<<"address", c.owner>>, <<"da_word", da_word(TRUE, NoValue, 0)>>,
                           <<"class", c.value>>>>, diff.deployed_contracts)
    \o <<<<"num_declared", Len(diff.declared_classes)>>>>
    \o Concat(LAMBDA c : <<<<"class", c.owner>>, <<"compiled", c.value>>>>,
              diff.declared_classes)

----------------------------------------------------------------------------
(* Properties of one block's changes *)

Words(calldata, role) == SelectSeq(calldata, LAMBDA w : w[1] = role)

Addresses(calldata) == [i \in DOMAIN Words(calldata, "address") |->
                         Words(calldata, "address")[i][2]]

\* The num_addr_accessed of the header is the number of address entries that
\* follow, each of a different contract, for a block in which every contract
\* that was given a class also has a storage or a nonce change.  (A contract
\* with a new class and nothing else is counted by build_commitment_state_diff,
\* utils.rs has no loop that writes it.)
CountsAddresses(changes) ==
  LET diff == build_state_diff(changes, TRUE)
      addresses == Addresses(block_data_to_calldata(diff)) IN
  Owners(diff.replaced_classes) \subseteq Owners(diff.nonces) \cup Owners(diff.storage_diffs)
    => IsInjective(addresses) /\ Len(addresses) = diff.num_addr_accessed

\* The words are as drawn above da_word, with the class flag, the new nonce and
\* the number of changes each in a field of its own, for a block in which no
\* contract was given a class and every new nonce is the first one.  (A later
\* nonce is added to 2^64 - 1 and the class flag is 2^128 + 1: they spill into
\* the number of changes.)
WordsAsDrawn(changes) ==
  LET diff == build_state_diff(changes, TRUE)
      calldata == block_data_to_calldata(diff)
      Writes(owner) == Len(SelectSeq(diff.storage_diffs, LAMBDA c : c.owner = owner))
      Nonce(owner) == IF owner \in Owners(diff.nonces) THEN ValueOf(diff.nonces, owner) ELSE 0 IN
  (diff.replaced_classes = <<>> /\ \A i \in DOMAIN diff.nonces : diff.nonces[i].value = 1)
    => \A i \in DOMAIN calldata : calldata[i][1] = "da_word" =>
         LET owner == calldata[i - 1][2]
         IN  calldata[i][2] = Nonce(owner) * 2^Width + Writes(owner)
=============================================================================
