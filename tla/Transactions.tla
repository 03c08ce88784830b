---------------------------- MODULE Transactions ----------------------------
(***************************************************************************)
(* Starknet transactions and their conversions (primitives/transactions):  *)
(* from what the RPC is sent to the transaction of an extrinsic, from      *)
(* there to what blockifier executes, to what is hashed, and to what the   *)
(* RPC returns.                                                            *)
(*                                                                         *)
(* A transaction is a record with the fields of its type; Felt(n) and      *)
(* Hash(seq) are field elements, so that equal hashes are hashes of equal  *)
(* sequences.  The outer hasher H and the one of calldata are not told     *)
(* apart.                                                                  *)
(***************************************************************************)
EXTENDS ContractClasses, TLC

CONSTANTS
  U128,        \* u128::MAX
  ChainId

V0 == {"InvokeV0", "DeclareV0", "L1Handler"}
Declare == {"DeclareV0", "DeclareV1", "DeclareV2"}
Invoke == {"InvokeV0", "InvokeV1"}

SIMULATE_TX_VERSION_OFFSET == 100

\* The fields of the structures of the extrinsics.
Fields(type) ==
  LET user == {"max_fee", "signature"} IN
  {"type"} \cup
  CASE type = "InvokeV0" -> user \cup {"contract_address", "entry_point_selector", "calldata"}
    [] type = "InvokeV1" -> user \cup {"nonce", "sender_address", "calldata", "offset_version"}
    [] type = "DeclareV0" -> user \cup {"nonce", "class_hash", "sender_address"}
    [] type = "DeclareV1" -> user \cup {"nonce", "class_hash", "sender_address", "offset_version"}
    [] type = "DeclareV2" -> user \cup {"nonce", "class_hash", "sender_address", "compiled_class_hash",
                                        "offset_version"}
    [] type = "DeployAccount" -> user \cup {"nonce", "contract_address_salt", "constructor_calldata",
                                            "class_hash", "offset_version"}
    [] type = "L1Handler" -> {"nonce", "contract_address", "entry_point_selector", "calldata"}

\* TransactionVersion::version
version(tx) ==
  CASE tx.type \in V0 -> 0
    [] tx.type = "DeclareV2" -> 2
    [] OTHER -> 1

\* The version that is hashed and that contracts see.
OffsetVersion(tx, offset_version) ==
  Felt(version(tx) + IF offset_version THEN SIMULATE_TX_VERSION_OFFSET ELSE 0)

----------------------------------------------------------------------------
(* Hashes *)

calculate_contract_address(tx) ==
  Hash(<<"STARKNET_CONTRACT_ADDRESS", Felt(0), tx.contract_address_salt, tx.class_hash,
         Hash(tx.constructor_calldata)>>)

\* Mutation: the class hash and the calldata are left out.
compute_hash_NoCalldata(tx, offset_version) ==
  Hash(<<tx.type, OffsetVersion(tx, offset_version), ChainId>> \o
       (IF tx.type \in {"InvokeV0", "L1Handler"} THEN <<tx.contract_address>>
        ELSE <<tx.nonce, tx.max_fee>>))

\* Each type, in the order of its elements.  Signatures are never hashed; a nonce
\* of version 0 is not hashed either, but the one of an L1 handler is.
InvokeHash(tx, v) ==
  IF tx.type = "InvokeV0"
  THEN Hash(<<"invoke", v, tx.contract_address, tx.entry_point_selector, Hash(tx.calldata),
              tx.max_fee, ChainId>>)
  ELSE Hash(<<"invoke", v, tx.sender_address, Felt(0), Hash(tx.calldata),
              tx.max_fee, ChainId, tx.nonce>>)

DeclareHash(tx, v) ==
  LET head(calldata) == <<"declare", v, tx.sender_address, Felt(0), Hash(calldata), tx.max_fee, ChainId>> IN
  CASE tx.type = "DeclareV0" -> Hash(head(<<>>) \o <<tx.class_hash>>)
    [] tx.type = "DeclareV1" -> Hash(head(<<tx.class_hash>>) \o <<tx.nonce>>)
    [] tx.type = "DeclareV2" -> Hash(head(<<tx.class_hash>>) \o <<tx.nonce, tx.compiled_class_hash>>)

compute_hash_given_contract_address(tx, contract_address, v) ==
  Hash(<<"deploy_account", v, contract_address, Felt(0),
         Hash(<<tx.class_hash, tx.contract_address_salt>> \o tx.constructor_calldata),
         tx.max_fee, ChainId, tx.nonce>>)

L1HandlerHash(tx, v) ==
  Hash(<<"l1_handler", v, tx.contract_address, tx.entry_point_selector,
         Hash(tx.calldata), ChainId, tx.nonce>>)

compute_hash(tx, offset_version) ==
  LET v == OffsetVersion(tx, offset_version) IN
  CASE tx.type \in Invoke -> InvokeHash(tx, v)
    [] tx.type \in Declare -> DeclareHash(tx, v)
    [] tx.type = "DeployAccount" ->
         compute_hash_given_contract_address(tx, calculate_contract_address(tx), v)
    [] tx.type = "L1Handler" -> L1HandlerHash(tx, v)

----------------------------------------------------------------------------
(* Getters *)

\* Mutation: the class hash is taken for the address of the account.
sender_address_Class(tx) ==
  CASE tx.type = "DeployAccount" -> tx.class_hash
    [] tx.type \in {"InvokeV0", "L1Handler"} -> tx.contract_address
    [] OTHER -> tx.sender_address

sender_address(tx) ==
  CASE tx.type = "DeployAccount" -> calculate_contract_address(tx)
    [] tx.type \in {"InvokeV0", "L1Handler"} -> tx.contract_address
    [] OTHER -> tx.sender_address

\* None, <<>>, for an invoke transaction of version 0.
nonce(tx) == IF tx.type = "InvokeV0" THEN <<>> ELSE <<tx.nonce>>

offset_version(tx) == tx.type \notin V0 /\ tx.offset_version

----------------------------------------------------------------------------
(* What blockifier executes *)

Drop(tx, fields) == [f \in DOMAIN tx \ fields |-> tx[f]]

\* into_executable, with the address of a deployed account and the hash.
into_executable(tx, offset) ==
  [tx |-> Drop(tx, {"offset_version"}),
   contract_address |-> IF tx.type = "DeployAccount" THEN calculate_contract_address(tx) ELSE <<>>,
   tx_hash |-> compute_hash(tx, offset)]

\* A declare transaction minds the version of its class (btx::DeclareTransaction::new).
try_into_executable(tx, class, offset) ==
  IF class.version # (IF tx.type = "DeclareV2" THEN 1 ELSE 0) THEN [error |-> "ContractClassVersionMismatch"]
  ELSE [tx |-> Drop(tx, {"offset_version"}), contract_address |-> <<>>, tx_hash |-> compute_hash(tx, offset)]

\* What an entry point sees of the transaction.
get_account_transaction_context(executable, offset) ==
  LET tx == executable.tx IN
  [transaction_hash |-> executable.tx_hash,
   version |-> OffsetVersion(tx, offset),
   max_fee |-> IF tx.type = "L1Handler" THEN Felt(0) ELSE tx.max_fee,
   signature |-> IF tx.type = "L1Handler" THEN <<>> ELSE tx.signature,
   nonce |-> IF tx.type = "InvokeV0" THEN Felt(0) ELSE tx.nonce,
   sender_address |-> IF tx.type = "DeployAccount" THEN executable.contract_address
                      ELSE IF tx.type \in {"InvokeV0", "L1Handler"} THEN tx.contract_address
                      ELSE tx.sender_address]

----------------------------------------------------------------------------
(* From and to the types of the RPC *)

Error(e) == [error |-> e]

\* The fields of a broadcasted transaction that stay as they are; the query flag
\* becomes the flag of the version.
Kept(type, b) ==
  [f \in (DOMAIN b \ {"type", "contract_class", "is_query"}) \cup {"type", "offset_version"} |->
     CASE f = "type" -> type
       [] f = "offset_version" -> b.is_query
       [] OTHER -> b[f]]

\* The checks of a conversion, in order: the error of the first that fails.
FirstError(checks, ok) ==
  LET failing == {i \in DOMAIN checks : checks[i][1]} IN
  IF failing = {} THEN ok
  ELSE Error(checks[CHOOSE i \in failing : \A j \in failing : i <= j][2])

\* try_from a BroadcastedDeclareTransaction
try_from_declare_v1(b) ==
  LET c == b.contract_class IN
  FirstError(<< <<c.fault = "gzip", "ProgramDecompressionFailed">>,
                <<c.fault = "json", "ProgramDeserializationFailed">>,
                <<c.fault = "hash", "ClassHashComputationFailed">>,
                <<b.max_fee[2] > U128, "MaxFeeTooBig">>,
                <<c.fault = "program", "ProgramDeserializationFailed">> >>,
             [tx |-> Kept("DeclareV1", b) @@ [class_hash |-> LegacyClassHash(c)],
              class |-> instantiate_blockifier_contract_class(c)])

\* Mutation: the compiled class hash is not compared.
try_from_declare_v2_Unchecked(b) ==
  LET casm == flattened_sierra_to_casm_contract_class(b.contract_class) IN
  FirstError(<< <<b.max_fee[2] > U128, "MaxFeeTooBig">>,
                <<~casm.ok, "SierraCompilationFailed">> >>,
             [tx |-> Kept("DeclareV2", b) @@ [class_hash |-> SierraClassHash(b.contract_class)],
              class |-> IF casm.ok THEN ContractClassV1(casm) ELSE <<>>])

try_from_declare_v2(b) ==
  LET casm == flattened_sierra_to_casm_contract_class(b.contract_class) IN
  FirstError(<< <<b.max_fee[2] > U128, "MaxFeeTooBig">>,
                <<~casm.ok, "SierraCompilationFailed">>,
                <<casm.ok /\ get_casm_cotract_class_hash(casm) # b.compiled_class_hash,
                  "InvalidCompiledClassHash">>,
                <<casm.ok /\ casm.fault = "convert", "CasmContractClassConversionFailed">> >>,
             [tx |-> Kept("DeclareV2", b) @@ [class_hash |-> SierraClassHash(b.contract_class)],
              class |-> IF casm.ok THEN ContractClassV1(casm) ELSE <<>>])

\* try_from a BroadcastedInvokeTransaction or a BroadcastedDeployAccountTransaction
try_from_invoke(b) ==
  IF b.max_fee[2] > U128 THEN Error("MaxFeeTooBig")
  ELSE [tx |-> Kept("InvokeV1", b), class |-> <<>>]

try_from_deploy_account(b) ==
  IF b.max_fee[2] > U128 THEN Error("MaxFeeTooBig")
  ELSE [tx |-> Kept("DeployAccount", b), class |-> <<>>]

try_from(b) ==
  CASE b.type = "DeclareV1" -> try_from_declare_v1(b)
    [] b.type = "DeclareV2" -> try_from_declare_v2(b)
    [] b.type = "InvokeV1" -> try_from_invoke(b)
    [] b.type = "DeployAccount" -> try_from_deploy_account(b)

\* From a message: its sender comes first in the calldata and it has no nonce.
from_msg_from_l1(msg) ==
  [type |-> "L1Handler", contract_address |-> msg.to_address, nonce |-> Felt(0),
   entry_point_selector |-> msg.entry_point_selector, calldata |-> <<msg.from_address>> \o msg.payload]

\* The nonce of a declare transaction of version 0 is left out.
to_starknet_core_tx(tx, transaction_hash) ==
  [fields |-> Drop(tx, {"offset_version"} \cup (IF tx.type = "DeclareV0" THEN {"nonce"} ELSE {})),
   transaction_hash |-> transaction_hash]
=============================================================================
