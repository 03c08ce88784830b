---------------------------- MODULE MCEncodings ----------------------------
(***************************************************************************)
(* Small inputs for TLC: two contracts with two storage keys each, one     *)
(* class, three Cairo resources, messages with payloads of up to two felts.*)
(***************************************************************************)
EXTENDS Encodings, TLC

\* In hundredths of a gas, as in VM_RESOURCE_FEE_COSTS.
MCCost == ("n_steps" :> 1) @@ ("range_check" :> 16) @@ ("bitwise" :> 64)

At(map, owner, key, value) ==
  [map |-> map, owner |-> owner, key |-> key, value |-> value, on |-> FALSE]

MCChanges ==
  <<At("Nonces", 1, 0, 1), At("Nonces", 1, 0, 2), At("Nonces", 2, 0, 1), At("Nonces", 2, 0, 3),
    At("StorageView", 1, 1, 7), At("StorageView", 1, 2, 7),
    At("StorageView", 2, 1, 7), At("StorageView", 2, 2, 8),
    At("ContractClassHashes", 1, 0, 9), At("ContractClassHashes", 2, 0, 9),
    At("CompiledClassHashes", 9, 0, 10)>>

MCToL1 == {<<4, 0, <<>>>>, <<4, 3, <<5, 2>>>>}
MCToL2 == {<<3, 4, 0, 1, <<0>>>>, <<3, 4, 1, 1, <<>>>>}
=============================================================================
