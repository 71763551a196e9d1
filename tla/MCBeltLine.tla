----------------------------- MODULE MCBeltLine -----------------------------
(* BeltLine on a short belt, for TLC.                                      *)
EXTENDS BeltLine

\* Two belt speeds and a published value the advancer must reject.
MCFactors == {0, 2, 4}
=============================================================================
