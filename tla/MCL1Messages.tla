---------------------------- MODULE MCL1Messages ----------------------------
(***************************************************************************)
(* Five events for TLC: two in the first L1 block, two in the second, one  *)
(* in the third; one cannot be parsed, one paid no fee.                    *)
(***************************************************************************)
EXTENDS L1Messages, Sequences

MCL1Block == <<1, 1, 2, 2, 3>>
MCLogIndex == <<0, 1, 0, 1, 0>>
MCKind == <<"valid", "valid", "unparsable", "valid", "unpayable">>
=============================================================================
