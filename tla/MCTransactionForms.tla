------------------------- MODULE MCTransactionForms -------------------------
EXTENDS TransactionForms

MCChainId == <<"felt", 7>>
MCAccounts == {<<"felt", 1>>, <<"felt", 2>>}
MCAccountClass ==
  << <<"felt", 9>>, [version |-> 0, program |-> <<"felt", 9>>,
                     entry_points_by_type |-> [type \in Types |-> <<>>]] >>

Entry(selector, idx) == [selector |-> Felt(selector), function_idx |-> idx]
Sierra(program, external, handler, fault) ==
  [sierra_program |-> Felt(program), contract_class_version |-> "0.1.0", abi |-> "[]", fault |-> fault,
   entry_points_by_type |-> [constructor |-> <<>>, external |-> external, l1_handler |-> handler]]
Legacy(program, handler, fault) ==
  [program |-> Felt(program), abi |-> <<"abi">>, fault |-> fault,
   entry_points_by_type |->
     [constructor |-> <<>>, external |-> <<[selector |-> Felt(1), offset |-> 3]>>, l1_handler |-> handler]]

\* The signature of a query, or of what is to be executed; and one of something else.
Sign(b, signs) ==
  LET user_tx == try_from(b) IN
  [b EXCEPT !.signature =
     IF "error" \in DOMAIN user_tx \/ signs = "none" THEN <<>>
     ELSE <<compute_hash(user_tx.tx, signs = "query")>>]
Signed(b) ==
  {Sign([b EXCEPT !.is_query = q], s) : q \in BOOLEAN, s \in {"query", "execution"}}

InvokeTx(n, data, fee) ==
  [type |-> "InvokeV1", max_fee |-> Felt(fee), signature |-> <<>>, nonce |-> Felt(n),
   sender_address |-> Felt(1), calldata |-> <<data>>, is_query |-> FALSE]
DeclareTx1(n, class, fee) ==
  [type |-> "DeclareV1", max_fee |-> Felt(fee), signature |-> <<>>, nonce |-> Felt(n),
   sender_address |-> Felt(1), contract_class |-> class, is_query |-> FALSE]
DeclareTx2(n, class, hash, fee) ==
  [type |-> "DeclareV2", max_fee |-> Felt(fee), signature |-> <<>>, nonce |-> Felt(n),
   sender_address |-> Felt(1), contract_class |-> class, compiled_class_hash |-> hash, is_query |-> FALSE]
DeployTx(n, class, data) ==
  [type |-> "DeployAccount", max_fee |-> Felt(0), signature |-> <<>>, nonce |-> Felt(n),
   contract_address_salt |-> Felt(5), constructor_calldata |-> data, class_hash |-> class, is_query |-> FALSE]

CasmHash(class) == get_casm_cotract_class_hash(flattened_sierra_to_casm_contract_class(class))
ClassA == Sierra(3, <<Entry(1, 0)>>, <<Entry(2, 1)>>, "none")
ClassB == Sierra(3, <<Entry(2, 1)>>, <<>>, "none")
LegacyA == Legacy(4, <<[selector |-> Felt(2), offset |-> 5]>>, "none")
LegacyB == Legacy(4, <<>>, "none")
Deployed == DeployTx(0, MCAccountClass[1], <<Felt(6)>>)

MCBroadcasts ==
  UNION {Signed(b) : b \in {InvokeTx(0, Felt(9), 0), InvokeTx(1, Felt(9), 0),
                            DeclareTx1(0, LegacyA, 0), DeclareTx1(0, LegacyB, 0),
                            DeclareTx2(0, ClassA, CasmHash(ClassA), 0), DeclareTx2(1, ClassB, CasmHash(ClassB), 0),
                            Deployed}}
  \cup {Sign(b, "execution") :
          b \in {InvokeTx(0, Felt(9), 3), DeclareTx1(0, LegacyA, 3), DeclareTx2(1, ClassA, CasmHash(ClassB), 0),
                 DeclareTx2(0, Sierra(3, <<>>, <<>>, "compile"), Felt(0), 0),
                 DeployTx(0, Felt(8), <<>>),
                 [InvokeTx(1, Felt(9), 0) EXCEPT !.sender_address = calculate_contract_address(Deployed)]}
               \cup {DeclareTx1(0, Legacy(4, <<>>, f), 0) : f \in {"gzip", "json", "hash", "program"}}}

MCExtrinsics ==
  {[tx |-> [type |-> "InvokeV0", max_fee |-> Felt(0), signature |-> <<>>, contract_address |-> Felt(1),
            entry_point_selector |-> Felt(0), calldata |-> <<Felt(9)>>], class |-> <<>>, fee |-> 0],
   [tx |-> [type |-> "DeclareV0", max_fee |-> Felt(0), signature |-> <<>>, nonce |-> Felt(0),
            class_hash |-> LegacyClassHash(LegacyA), sender_address |-> Felt(1)],
    class |-> instantiate_blockifier_contract_class(LegacyA), fee |-> 0],
   [tx |-> from_msg_from_l1([to_address |-> Felt(1), from_address |-> Felt(9), payload |-> <<>>,
                             entry_point_selector |-> Felt(0)]), class |-> <<>>, fee |-> 1]}
=============================================================================
