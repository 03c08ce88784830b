-------------------------- MODULE TransactionForms --------------------------
(***************************************************************************)
(* The way of a transaction through the node, and the form it has in each  *)
(* place: what a client signs and sends, the extrinsic of the pool, what   *)
(* the pallet executes and stores, what the RPC returns for its hash, and  *)
(* what is traced and estimated (client/rpc, pallets/starknet,             *)
(* primitives/transactions, runtime).                                      *)
(*                                                                         *)
(* The blocks of the chain are one sequence.  Fees are left out; an        *)
(* account accepts a signature of the hash it is given and no other.       *)
(***************************************************************************)
EXTENDS Transactions, FiniteSets

CONSTANTS
  Broadcasts,       \* what clients send to the RPC
  Extrinsics,       \* what is submitted to the pool without the RPC: version 0, L1
  Accounts,         \* the accounts of the genesis
  AccountClass,     \* their class, declared at genesis
  MaxTransactions   \* bound on the transactions that enter the pool

VARIABLES
  pool,               \* extrinsics: [tx, class, fee]
  transactions,       \* the transactions of the blocks, in order, with their hash
  nonces,             \* Nonces, where not 0
  class_hashes,       \* ContractClassHashes
  contract_classes,   \* ContractClasses
  sierra_classes,     \* the database of the RPC
  l1_messages,        \* L1Messages
  sent,               \* the broadcasts the RPC has accepted, with its answer
  answer              \* the last answer of the RPC

pallet == <<transactions, nonces, class_hashes, contract_classes, l1_messages>>
vars == <<pool, pallet, sierra_classes, sent, answer>>

Nothing == <<>>
Fail(e) == answer' = Error(e)
Put(f, k, v) == (k :> v) @@ f
Nonce(a) == IF a \in DOMAIN nonces THEN nonces[a] ELSE 0

----------------------------------------------------------------------------
(* Validation and execution *)

\* The __validate__ entry points: nothing is called for version 0.
Validated(executable, offset) ==
  LET context == get_account_transaction_context(executable, offset) IN
  \/ context.version = Felt(0)
  \/ context.signature = <<context.transaction_hash>>

\* An account that is not deployed yet is not asked, for its nonce 1 only.
validate_unsigned_tx(e) ==
  CASE e.tx.type = "L1Handler" -> e.fee > 0
    [] e.tx.type = "DeployAccount" -> TRUE
    [] OTHER ->
         /\ e.tx.type \in Declare => "error" \notin DOMAIN try_into_executable(e.tx, e.class, FALSE)
         /\ IF version(e.tx) # 0 /\ sender_address(e.tx) \notin DOMAIN class_hashes
            THEN nonce(e.tx) = <<Felt(1)>>
            ELSE Validated(into_executable(e.tx, FALSE), FALSE)

\* Not an old nonce, not an executed message.
validate_unsigned_tx_nonce(e) ==
  CASE e.tx.type = "L1Handler" -> e.tx.nonce \notin l1_messages
    [] e.tx.type = "InvokeV0" -> TRUE
    [] OTHER -> Nonce(sender_address(e.tx)) <= nonce(e.tx)[1][2]

\* The tags validate_unsigned gives: one transaction per account and nonce.
provides(e) ==
  CASE e.tx.type = "L1Handler" -> {<<Felt(0), e.tx.nonce>>}
    [] e.tx.type = "InvokeV0" -> {}
    [] OTHER -> {<<sender_address(e.tx), nonce(e.tx)[1]>>}

\* validate_unsigned, and the pool: it holds one transaction for each tag.
Accepted(e) ==
  /\ validate_unsigned_tx_nonce(e) /\ validate_unsigned_tx(e)
  /\ e \notin pool /\ \A f \in pool : provides(e) \cap provides(f) = {}

\* Execute::execute on the state of the pallet: whether it is Ok.
Executes(e, offset) ==
  LET executable == into_executable(e.tx, offset)
      context == get_account_transaction_context(executable, offset)
  IN /\ context.version # Felt(0) => context.nonce = Felt(Nonce(context.sender_address))
     /\ IF e.tx.type = "DeployAccount"
        THEN /\ e.tx.class_hash \in DOMAIN contract_classes
             /\ context.sender_address \notin DOMAIN class_hashes
        ELSE context.sender_address \in DOMAIN class_hashes
     /\ e.tx.type # "L1Handler" => Validated(executable, offset)
     /\ e.tx.type \in Declare => e.tx.class_hash \notin DOMAIN contract_classes

\* What it writes.
Effects(e) ==
  LET context == get_account_transaction_context(into_executable(e.tx, FALSE), FALSE)
      a == context.sender_address
  IN /\ nonces' = IF context.version = Felt(0) THEN nonces ELSE Put(nonces, a, Nonce(a) + 1)
     /\ class_hashes' = IF e.tx.type = "DeployAccount" THEN Put(class_hashes, a, e.tx.class_hash)
                        ELSE class_hashes
     /\ contract_classes' = IF e.tx.type \in Declare THEN Put(contract_classes, e.tx.class_hash, e.class)
                            ELSE contract_classes
     /\ l1_messages' = IF e.tx.type = "L1Handler" THEN l1_messages \cup {e.tx.nonce} ELSE l1_messages

\* The checks of invoke, declare, deploy_account and consume_l1_message.
Dispatchable(e) ==
  CASE e.tx.type \in Declare -> /\ "error" \notin DOMAIN try_into_executable(e.tx, e.class, FALSE)
                                /\ e.tx.class_hash \notin DOMAIN contract_classes
                                /\ sender_address(e.tx) \in DOMAIN class_hashes
    [] e.tx.type \in Invoke -> sender_address(e.tx) \in DOMAIN class_hashes
    [] e.tx.type = "DeployAccount" -> calculate_contract_address(e.tx) \notin DOMAIN class_hashes
    [] e.tx.type = "L1Handler" -> e.tx.nonce \notin l1_messages /\ e.fee > 0

\* Mutation: the flag of the transaction decides what is executed.
dispatch_Query(e) ==
  /\ e \in pool
  /\ pool' = pool \ {e}
  /\ IF Dispatchable(e) /\ Executes(e, offset_version(e.tx))
     THEN /\ transactions' = Append(transactions, [tx |-> e.tx, tx_hash |-> compute_hash(e.tx, offset_version(e.tx))])
          /\ Effects(e)
     ELSE UNCHANGED pallet
  /\ UNCHANGED <<sierra_classes, sent, answer>>

\* An extrinsic of the pool in a block, in any order.  A failed one leaves nothing
\* behind.
dispatch(e) ==
  /\ e \in pool
  /\ pool' = pool \ {e}
  /\ IF Dispatchable(e) /\ Executes(e, FALSE)
     THEN /\ transactions' = Append(transactions, [tx |-> e.tx, tx_hash |-> into_executable(e.tx, FALSE).tx_hash])
          /\ Effects(e)
     ELSE UNCHANGED pallet
  /\ UNCHANGED <<sierra_classes, sent, answer>>

----------------------------------------------------------------------------
(* Submission *)

\* Bound: MaxTransactions through the RPC, and one more.
MoreTransactions == Len(transactions) + Cardinality(pool) <= MaxTransactions

\* The calls convert_transaction makes of a user transaction.
convert_transaction(user_tx) == [tx |-> user_tx.tx, class |-> user_tx.class, fee |-> 0]

\* What the three calls of the RPC return.
Result(tx) ==
  [transaction_hash |-> compute_hash(tx, FALSE),
   class_hash |-> IF tx.type \in Declare THEN tx.class_hash ELSE Nothing,
   contract_address |-> IF tx.type = "DeployAccount" THEN sender_address(tx) ELSE Nothing]

StoreSierra(b, tx) == Put(sierra_classes, tx.class_hash,
                          flattened_sierra_to_sierra_contract_class(b.contract_class))

\* add_declare_transaction, add_invoke_transaction, add_deploy_account_transaction
add_transaction(b) ==
  /\ answer = Nothing /\ MoreTransactions /\ Cardinality(sent) < MaxTransactions
  /\ LET user_tx == try_from(b)  e == convert_transaction(user_tx) IN
     IF "error" \in DOMAIN user_tx THEN Fail(user_tx.error) /\ UNCHANGED <<pool, sierra_classes, sent>>
     ELSE IF user_tx.tx.type \in Declare /\ user_tx.tx.class_hash \in DOMAIN contract_classes
     THEN Fail("ClassAlreadyDeclared") /\ UNCHANGED <<pool, sierra_classes, sent>>
     ELSE IF ~Accepted(e) THEN /\ Fail(IF validate_unsigned_tx_nonce(e) /\ ~validate_unsigned_tx(e)
                                       THEN "ValidationFailure" ELSE "InternalServerError")
                               /\ UNCHANGED <<pool, sierra_classes, sent>>
     ELSE /\ pool' = pool \cup {e}
          /\ answer' = Result(user_tx.tx)
          /\ sent' = sent \cup {[broadcast |-> b, result |-> Result(user_tx.tx)]}
          /\ sierra_classes' = IF b.type = "DeclareV2" THEN StoreSierra(b, user_tx.tx) ELSE sierra_classes
  /\ UNCHANGED pallet

\* An extrinsic of version 0, or one of the L1 worker (convert_l1_transaction).
submit_one(e) ==
  /\ MoreTransactions /\ Accepted(e)
  /\ pool' = pool \cup {e}
  /\ UNCHANGED <<pallet, sierra_classes, sent, answer>>

----------------------------------------------------------------------------
(* Queries *)

Answers(op, argument, result) ==
  /\ answer' = [op |-> op, argument |-> argument, result |-> result]
  /\ UNCHANGED <<pool, pallet, sierra_classes, sent>>

\* The estimation of one transaction, or its simulation with validation: the
\* hash and the version are the ones the flag of the transaction says.
estimate_fee(b) ==
  LET user_tx == try_from(b) IN
  /\ answer = Nothing
  /\ Answers("estimate_fee", b,
             /\ "error" \notin DOMAIN user_tx
             /\ Executes(convert_transaction(user_tx), offset_version(user_tx.tx)))

\* The first transaction with the hash.
get_transaction_by_hash(h) ==
  /\ answer = Nothing
  /\ LET found == {i \in DOMAIN transactions : compute_hash(transactions[i].tx, FALSE) = h} IN
     /\ found # {}
     /\ LET i == CHOOSE j \in found : \A k \in found : j <= k IN
        Answers("get_transaction_by_hash", h, to_starknet_core_tx(transactions[i].tx, h))

get_class(h) ==
  /\ answer = Nothing
  /\ Answers("get_class", h, to_rpc_contract_class(contract_classes[h]))

\* The class with which the trace of a block executes a declare transaction.
trace_class(tx) ==
  /\ answer = Nothing
  /\ IF tx.type # "DeclareV2" THEN Answers("trace", tx, contract_classes[tx.class_hash])
     ELSE IF tx.class_hash \notin DOMAIN sierra_classes THEN Answers("trace", tx, Error("InternalServerError"))
     ELSE LET casm == sierra_to_casm_contract_class(sierra_classes[tx.class_hash]) IN
          Answers("trace", tx, IF casm.ok THEN ContractClassV1(casm) ELSE Error("InternalServerError"))

\* The client has read the answer.
Read == answer # Nothing /\ answer' = Nothing /\ UNCHANGED <<pool, pallet, sierra_classes, sent>>

----------------------------------------------------------------------------
Init ==
  /\ pool = {} /\ transactions = <<>>
  /\ nonces = Nothing /\ class_hashes = [a \in Accounts |-> AccountClass[1]]
  /\ contract_classes = (AccountClass[1] :> AccountClass[2])
  /\ sierra_classes = Nothing /\ l1_messages = {}
  /\ sent = {} /\ answer = Nothing

Next ==
  \/ \E b \in Broadcasts : add_transaction(b) \/ estimate_fee(b)
  \/ \E e \in Extrinsics : submit_one(e)
  \/ \E e \in pool : dispatch(e)
  \/ \E i \in DOMAIN transactions :
       \/ get_transaction_by_hash(transactions[i].tx_hash)
       \/ transactions[i].tx.type \in Declare /\ trace_class(transactions[i].tx)
  \/ \E h \in DOMAIN contract_classes : get_class(h)
  \/ Read

Spec == Init /\ [][Next]_vars

----------------------------------------------------------------------------
(* Properties *)

Answered(op) == "op" \in DOMAIN answer /\ answer.op = op

\* The fields of a broadcast that the client has given and the signature covers.
Content(b) == [f \in DOMAIN b \ {"type", "contract_class", "is_query"} |-> b[f]]

\* A transaction the RPC returns for a hash it has answered to a client is the
\* one that client has sent, with each of its fields (add_*_transaction,
\* try_from, compute_hash, get_transaction_by_hash, to_starknet_core_tx): the
\* hashes of different transactions, of any type and version, differ.
ServedAsSent ==
  Answered("get_transaction_by_hash") =>
    \A s \in sent : s.result.transaction_hash = answer.argument =>
      LET served == answer.result.fields  b == s.broadcast IN
      /\ served.type = b.type
      /\ \A f \in DOMAIN Content(b) \ {"signature"} : f \in DOMAIN served /\ served[f] = b[f]
      /\ b.type \in Declare => served.class_hash = s.result.class_hash

\* A signature serves for what it was made.  What an account has signed as a query
\* is not executed: the pool and the dispatchables use the hash without the offset
\* whatever the flag of the transaction says (validate_unsigned_tx, invoke, declare,
\* deploy_account).  An estimation succeeds exactly for what was signed for it: with
\* the flag, a query hash, without it, the hash to be executed
\* (execute_user_transaction and set_offset_version agree).
SignatureBound ==
  /\ \A i \in DOMAIN transactions :
       LET tx == transactions[i].tx IN
       version(tx) # 0 => tx.signature = <<compute_hash(tx, FALSE)>>
  /\ Answered("estimate_fee") /\ answer.result =>
       LET b == answer.argument IN b.signature = <<compute_hash(try_from(b).tx, b.is_query)>>

\* The class that is declared is the one the client has sent and signed: its
\* compiled class hash is the one of the transaction; and tracing the block
\* executes that very class, compiled again from the database (try_from,
\* store_sierra_class, sierra_to_casm_contract_class).  A legacy class the RPC
\* returns has the program and all the entry points with which it was declared
\* (get_class, to_rpc_contract_class).
ClassAsDeclared ==
  /\ \A s \in sent :
       LET tx == try_from(s.broadcast).tx IN
       tx.type = "DeclareV2" /\ tx.class_hash \in DOMAIN contract_classes =>
         LET class == contract_classes[tx.class_hash] IN
         Hash(<<"compiled_class", [bytecode |-> class.program,
                                   entry_points_by_type |-> class.entry_points_by_type]>>) =
           s.broadcast.compiled_class_hash
  /\ Answered("trace") => answer.result = contract_classes[answer.argument.class_hash]
  /\ Answered("get_class") /\ answer.result.kind = "legacy" =>
       \A s \in sent : s.broadcast.type = "DeclareV1" /\ s.result.class_hash = answer.argument =>
         /\ answer.result.program = s.broadcast.contract_class.program
         /\ answer.result.entry_points_by_type = s.broadcast.contract_class.entry_points_by_type

\* The address the RPC has answered for a deployment is the one at which the
\* account is found, and whose nonce the deployment has used
\* (add_deploy_account_transaction, sender_address, execute).
DeployedWhereAnswered ==
  \A s \in sent :
    s.broadcast.type = "DeployAccount" /\
    (\E i \in DOMAIN transactions : transactions[i].tx_hash = s.result.transaction_hash) =>
      /\ s.result.contract_address \in DOMAIN class_hashes
      /\ class_hashes[s.result.contract_address] = s.broadcast.class_hash
      /\ Nonce(s.result.contract_address) > 0
=============================================================================
