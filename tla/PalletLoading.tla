---------------------------- MODULE PalletLoading ----------------------------
(***************************************************************************)
(* What the palletizing cell promises, without nodes, topics or callbacks: *)
(* boxes are taken one at a time, in the order in which the belt brought   *)
(* them, none twice, and each one taken goes onto the next free place of   *)
(* the pattern.  pallet_planner.cpp:11-13 and palletizer_node.cpp:7-9 say  *)
(* as much in prose.                                                       *)
(***************************************************************************)
EXTENDS Naturals, Sequences, FiniteSets

CONSTANTS NumBoxes, Capacity, Nothing

VARIABLES
  stack,    \* the boxes on the pallet, in the order of their places
  gripper   \* the box the arm carries, or Nothing

loadingVars == <<stack, gripper>>

Init == stack = <<>> /\ gripper = Nothing

Take(b) ==
  /\ gripper = Nothing
  /\ Len(stack) < Capacity
  /\ \A i \in 1..Len(stack) : stack[i] < b
  /\ gripper' = b
  /\ UNCHANGED stack

Put ==
  /\ gripper # Nothing
  /\ stack' = Append(stack, gripper)
  /\ gripper' = Nothing

Next == Put \/ \E b \in 1..NumBoxes : Take(b)

\* Once a box is taken it is put down, and the loading goes on while there is
\* a box to take and a place for it.
Spec == Init /\ [][Next]_loadingVars
FairSpec == Spec /\ WF_loadingVars(Put) /\ WF_loadingVars(Next)
=============================================================================
