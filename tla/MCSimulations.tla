--------------------------- MODULE MCSimulations ---------------------------
(***************************************************************************)
(* Two forks of at most two blocks over one genesis.  Account a can pay    *)
(* for two transactions, q is a sequencer that also sends, d is deployed   *)
(* by a transaction whose constructor asks for the block number.           *)
(***************************************************************************)
EXTENDS Simulations

Base == [kind |-> "invoke", version |-> 1, sender |-> "a", nonce |-> 0, max_fee |-> 3, fee |-> 2,
         class |-> "none", valid |-> TRUE, runs |-> "always", pays |-> 0, to |-> "q", paid_fee |-> 0]

pay    == [Base EXCEPT !.pays = 2]
pay2   == [Base EXCEPT !.nonce = 1, !.pays = 2]
fails  == [Base EXCEPT !.runs = "never", !.pays = 1]
asks   == [Base EXCEPT !.runs = "even"]
dear   == [Base EXCEPT !.max_fee = 5, !.fee = 5]
spend  == [Base EXCEPT !.sender = "q", !.max_fee = 2, !.fee = 1, !.pays = 1, !.to = "a"]
class2 == [Base EXCEPT !.kind = "declare", !.version = 2, !.class = "c2"]
class1 == [Base EXCEPT !.kind = "declare", !.class = "c0", !.nonce = 1]
deploy == [Base EXCEPT !.kind = "deploy_account", !.sender = "d", !.class = "c0", !.fee = 1,
                       !.max_fee = 1, !.runs = "even"]
wrong  == [Base EXCEPT !.valid = FALSE]
msg    == [Base EXCEPT !.kind = "l1_handler", !.version = 0, !.nonce = 7, !.fee = 0,
                       !.max_fee = 0, !.paid_fee = 1]

MCBatches ==
  [f \in Fork |->
     IF f = 1
     THEN {<<>>, <<pay>>, <<pay, pay2>>, <<pay, spend>>, <<fails>>, <<asks>>, <<dear>>, <<class2>>,
           <<class2, class1>>, <<deploy>>, <<msg>>, <<fails, pay2>>, <<wrong, deploy>>}
     ELSE {<<>>, <<pay>>, <<class2>>}]
MCRequests ==
  {<<pay>>, <<pay, pay2>>, <<pay, spend>>, <<fails>>, <<asks>>, <<dear>>, <<class2>>, <<deploy>>, <<wrong>>,
   <<fails, pay2>>, <<[pay EXCEPT !.max_fee = 0]>>, <<[dear EXCEPT !.max_fee = 9]>>}
MCFlagLists ==
  {<<>>, <<"SkipFeeCharge">>, <<"SkipFeeCharge", "SkipValidate">>}
MCMessages == {[msg EXCEPT !.paid_fee = 0]}
MCGenesisState ==
  [nonces |-> [x \in {"a", "q", "d"} |-> 0],
   balance |-> [x \in {"a", "q", "d"} |-> CASE x = "a" -> 7 [] x = "q" -> 1 [] x = "d" -> 1],
   deployed |-> {"a", "q"}, classes |-> {"c0"}, l1_messages |-> {}]
MCSequencers == <<[n \in 0..MaxBlocks |-> "q"], [n \in 0..MaxBlocks |-> IF n = 1 THEN "a" ELSE "q"]>>

\* All calls but a trace are of the best block, so that every block on top of the
\* one they are served on is built after them.
AtTip ==
  (call' # call /\ call'.op \notin {"trace", "trace_resolved"}) =>
    call'.number + 1 = Len(chains[best])

\* Blocks are built after a call only on top of the block it was served on.
Relevant ==
  (call.op # "none" /\ call.op # "trace_resolved") =>
    \A f \in Fork : chains'[f] # chains[f] => Len(chains[f]) = call.number + 1
=============================================================================
