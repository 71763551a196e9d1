------------------------------ MODULE PickPoint ------------------------------
(***************************************************************************)
(* What happens at the end of the conveyor, as every program may rely on   *)
(* it: boxes come to the pick point one at a time, the arm takes the box   *)
(* that lies there, and only then is it cleared and the next one comes.    *)
(* BeltLine (manager and advancer) and PickZone (manager and sensor)       *)
(* implement it, each with environment actions in place of the other       *)
(* programs, so the sides fit together; the environment of PalletCell is   *)
(* its Arrive and Clear.                                                   *)
(***************************************************************************)
EXTENDS Naturals

CONSTANT MaxBoxes

VARIABLES
  cleared,  \* boxes that came, were taken and made room
  at,       \* a box is at the pick point
  taken     \* the arm has it, which not everybody knows yet

Init ==
  /\ cleared = 0
  /\ ~at
  /\ ~taken

Arrive ==
  /\ ~at
  /\ cleared < MaxBoxes
  /\ at'
  /\ UNCHANGED <<cleared, taken>>

Take ==
  /\ at
  /\ ~taken
  /\ taken'
  /\ UNCHANGED <<cleared, at>>

Clear ==
  /\ taken
  /\ cleared' = cleared + 1
  /\ ~at'
  /\ ~taken'

Next == Arrive \/ Take \/ Clear

Spec == Init /\ [][Next]_<<cleared, at, taken>>
=============================================================================
