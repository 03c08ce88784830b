-------------------------- MODULE ContractClasses --------------------------
(***************************************************************************)
(* The forms of a contract class: the flattened Sierra class and the       *)
(* compressed legacy class of the RPC, the class of starknet_api in the    *)
(* database, the class of the compiler and the one blockifier runs         *)
(* (primitives/transactions, client/rpc-core).                             *)
(*                                                                         *)
(* Entry points are a record of three sequences.  A hash stands for what   *)
(* is hashed.  The field "fault" of a class is the step of the external    *)
(* decoders and compilers that it makes fail, if any.                      *)
(***************************************************************************)
EXTENDS Naturals, Sequences

Types == {"constructor", "external", "l1_handler"}

\* Field elements and hashes of sequences of them: two different things.
Felt(n) == <<"felt", n>>
Hash(seq) == <<"hash", seq>>

\* Entry points with a selector and an offset, which is taken from a field.
EntryPoints(entry_points, field) ==
  [type \in Types |-> [i \in DOMAIN entry_points[type] |->
     [selector |-> entry_points[type][i].selector, offset |-> entry_points[type][i][field]]]]

----------------------------------------------------------------------------
(* Cairo 1 *)

\* starknet_api's class in the database: types without entry points are left out.
flattened_sierra_to_sierra_contract_class(flattened) ==
  [sierra_program |-> flattened.sierra_program,
   entry_point_by_type |-> [type \in {t \in Types : flattened.entry_points_by_type[t] # <<>>} |->
                              flattened.entry_points_by_type[type]],
   abi |-> flattened.abi, fault |-> flattened.fault]

\* The class the compiler is given.
SierraContractClass(program, version, entry_points, fault) ==
  [sierra_program |-> program, contract_class_version |-> version,
   entry_points_by_type |-> entry_points, fault |-> fault]

\* The compiler: it looks at the program and at the entry points, whose function
\* index becomes an offset.
into_casm_contract_class(sierra) ==
  IF sierra.fault = "compile" THEN [ok |-> FALSE]
  ELSE [ok |-> TRUE, fault |-> sierra.fault,
        bytecode |-> sierra.sierra_program,
        entry_points_by_type |-> EntryPoints(sierra.entry_points_by_type, "function_idx")]

entry_points_by_type_to_contract_entry_points(value) ==
  [type \in Types |-> [i \in DOMAIN value[type] |->
     [selector |-> value[type][i].selector, function_idx |-> value[type][i].function_idx]]]

flattened_sierra_to_casm_contract_class(flattened) ==
  into_casm_contract_class(
    SierraContractClass(flattened.sierra_program, flattened.contract_class_version,
                        entry_points_by_type_to_contract_entry_points(
                          flattened.entry_points_by_type), flattened.fault))

\* The same from the class of the database.
sierra_to_casm_contract_class(contract_class) ==
  LET map == contract_class.entry_point_by_type IN
  into_casm_contract_class(
    SierraContractClass(contract_class.sierra_program, "0.1.0",
                        [type \in Types |-> IF type \in DOMAIN map THEN map[type] ELSE <<>>],
                        contract_class.fault))

\* What the hash of a compiled class is taken of: the hints are left out.
casm_contract_class_to_compiled_class(casm) ==
  [bytecode |-> casm.bytecode, entry_points_by_type |-> casm.entry_points_by_type]

get_casm_cotract_class_hash(casm) ==
  Hash(<<"compiled_class", casm_contract_class_to_compiled_class(casm)>>)

\* FlattenedSierraClass::class_hash
SierraClassHash(flattened) == Hash(<<"sierra_class", flattened>>)

ContractClassV1(casm) ==
  [version |-> 1, program |-> casm.bytecode, entry_points_by_type |-> casm.entry_points_by_type]

----------------------------------------------------------------------------
(* Cairo 0 *)

to_raw_legacy_entry_points(entry_points) ==
  EntryPoints(entry_points, "offset")

\* LegacyContractClass::class_hash
LegacyClassHash(contract_class) ==
  Hash(<<"legacy_class", contract_class.program, contract_class.abi,
         to_raw_legacy_entry_points(contract_class.entry_points_by_type)>>)

instantiate_blockifier_contract_class(contract_class) ==
  [version |-> 0, program |-> contract_class.program,
   entry_points_by_type |-> to_raw_legacy_entry_points(contract_class.entry_points_by_type)]

----------------------------------------------------------------------------
\* All three types have an entry in the map of a class of blockifier.
to_legacy_entry_points_by_type(entries) ==
  EntryPoints(entries, "offset")

\* What the RPC returns: a legacy class without its abi, an empty Sierra class.
to_rpc_contract_class(class) ==
  IF class.version = 0
  THEN [kind |-> "legacy", program |-> class.program, abi |-> <<>>,
        entry_points_by_type |-> to_legacy_entry_points_by_type(class.entry_points_by_type)]
  ELSE [kind |-> "sierra", sierra_program |-> <<>>, abi |-> "{}",
        entry_points_by_type |-> [type \in Types |-> <<>>]]
=============================================================================
