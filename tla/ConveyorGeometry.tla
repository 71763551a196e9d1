-------------------------- MODULE ConveyorGeometry --------------------------
(***************************************************************************)
(* The geometry all conveyor nodes share (conveyor_common.hpp).  Positions *)
(* are measured from start_x in units small enough to make every length,   *)
(* the tolerance kEps of the comparisons included, a whole number.         *)
(***************************************************************************)
EXTENDS Integers

CONSTANTS
  Pitch,   \* box_size[0] + gap
  PickX,   \* pick_x - start_x, positive (declareConveyorParams throws otherwise)
  Eps      \* kEps

ASSUME GeometryAssumption ==
  /\ Pitch \in Nat \ {0}
  /\ PickX \in Nat \ {0}
  /\ Eps \in Nat \ {0}

StartX == 0
Positions == StartX..PickX

\* Where the box in queue position k (counted from 0) shall stop.
SlotX(k) == PickX - k * Pitch

\* How many boxes fit between start_x and pick_x.  The kEps that the code adds
\* to the quotient only absorbs its rounding error; the quotient is exact here.
NumSlots == (PickX - StartX) \div Pitch + 1
=============================================================================
