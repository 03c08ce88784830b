---------------------------- MODULE SettledChain ----------------------------
(***************************************************************************)
(* What settlement promises: the contract on Ethereum holds the outputs of *)
(* finalised Starknet blocks, one block after the other, each once, each   *)
(* with the messages of that block.                                        *)
(***************************************************************************)
EXTENDS Integers, Sequences

CONSTANTS MaxHeight,   \* the highest block of the chain
          Height0,     \* the block the contract is initialised with
          Messages     \* the messages of each block

VARIABLES finalized,   \* the height of the last finalised block
          settled,     \* the height of the last settled block
          log          \* what was settled, in order

settledVars == <<finalized, settled, log>>

Init == finalized = 0 /\ settled = Height0 /\ log = <<>>

Finalize == \E h \in finalized + 1 .. MaxHeight :
              finalized' = h /\ UNCHANGED <<settled, log>>

Settle == /\ settled < finalized
          /\ settled' = settled + 1
          /\ log' = Append(log, [block |-> settled', messages |-> Messages[settled']])
          /\ UNCHANGED finalized

Next == Finalize \/ Settle

Spec == Init /\ [][Next]_settledVars
=============================================================================
