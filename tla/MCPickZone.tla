------------------------------ MODULE MCPickZone ------------------------------
(* PickZone with a few boxes, for TLC.                                     *)
EXTENDS PickZone
=============================================================================
