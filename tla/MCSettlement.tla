---------------------------- MODULE MCSettlement ----------------------------
(***************************************************************************)
(* Chains of a few blocks for TLC, with different messages in each.        *)
(***************************************************************************)
EXTENDS Settlement

MCMessages == [h \in 0 .. MaxHeight |-> <<"messages of", h>>]
AllSpecs == {"match", "ProgramHashMismatch", "ConfigHashMismatch"}
=============================================================================
