------------------------- MODULE MCDataAvailability -------------------------
(***************************************************************************)
(* Two blocks of one chain and a third on a fork for TLC.                  *)
(***************************************************************************)
EXTENDS DataAvailability, TLC

CONSTANTS b1, b2, c2, h1, h2

\* The two forks have the same Starknet hash.
MCHash == b1 :> h1 @@ b2 :> h2 @@ c2 :> h2
AllModes == {"Validity", "Volition", "Sovereign"}
AllLayers == {"Ethereum", "Celestia"}
=============================================================================
