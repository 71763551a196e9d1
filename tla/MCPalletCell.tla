---------------------------- MODULE MCPalletCell ----------------------------
(* PalletCell on small pallets, for TLC.                                   *)
EXTENDS PalletCell

MCBoxes == 1..NumBoxes
=============================================================================
