----------------------------- MODULE BoxAdvancer -----------------------------
(***************************************************************************)
(* box_advancer (src/src/conveyor_sim/src/box_advancer.cpp): moves every   *)
(* box towards its target, never closer than one pitch to the box ahead.   *)
(* Single-threaded; every callback is one atomic step.                     *)
(*                                                                         *)
(* boxes_ is kept as the sequence `boxes' of id and target and the         *)
(* function `x' from ids to positions; x is StartX for absent ids.         *)
(***************************************************************************)
EXTENDS ConveyorGeometry, Sequences

CONSTANTS
  Ids,          \* box ids
  NormalSpeed,  \* speed / rate: how far a tick moves a box at sim_speed 1
  Factors       \* what may be published on sim_speed, in the same unit

VARIABLES
  boxes,   \* ids and targets of boxes_, lead box first
  x,       \* positions of boxes_
  held,    \* hold_
  speed    \* beltSpeed_ * simSpeed_ * solverStep_

IdsIn(msg) == {msg[k].id : k \in 1..Len(msg)}

AdvancerInit ==
  /\ boxes = <<>>
  /\ x = [b \in Ids |-> StartX]
  /\ held = FALSE
  /\ speed = NormalSpeed

-----------------------------------------------------------------------------
\* Mutation of OnTargets: known boxes start over.
OnTargetsAfresh(msg) ==
  /\ boxes' = msg
  /\ x' = [b \in Ids |-> StartX]
  /\ UNCHANGED <<held, speed>>

\* conveyor/box_targets: a known box keeps its position, a new one appears at
\* the start, one that is no longer listed is gone.
OnTargets(msg) ==
  /\ boxes' = msg
  /\ x' = [b \in Ids |-> IF b \in IdsIn(msg) \cap IdsIn(boxes) THEN x[b] ELSE StartX]
  /\ UNCHANGED <<held, speed>>

\* Mutation of OnHold: a hold is never taken back.
OnHoldForGood(on) ==
  /\ held' = (held \/ on)
  /\ UNCHANGED <<boxes, x, speed>>

\* conveyor/hold
OnHold(on) ==
  /\ held' = on
  /\ UNCHANGED <<boxes, x, speed>>

\* sim_speed; zero and negative factors are ignored.
OnSimSpeed(factor) ==
  /\ speed' = IF factor > 0 THEN factor ELSE speed
  /\ UNCHANGED <<boxes, x, held>>

Least(a, b) == IF a < b THEN a ELSE b

\* How far the i-th box may go when the box ahead has already gone to ahead[i-1].
Allowed(i, ahead) ==
  IF i = 1 THEN boxes[1].x ELSE Least(boxes[i].x, ahead[i - 1] - Pitch)

Advanced(i, ahead) ==
  LET old == x[boxes[i].id]
      new == Least(old + speed, Allowed(i, ahead))
  IN IF new > old + Eps THEN new ELSE old

\* The loop over boxes_ of one tick, lead box first: `after' is where the
\* boxes are when it ends.
StepOf(after) == \A i \in 1..Len(boxes) : after[i] = Advanced(i, after)

\* The timer.  Returns with the states to publish.
Step ==
  /\ IF held THEN UNCHANGED x
     ELSE \E after \in [1..Len(boxes) -> Positions] :
            /\ StepOf(after)
            /\ x' = [b \in Ids |->
                       IF b \in IdsIn(boxes)
                       THEN after[CHOOSE i \in 1..Len(boxes) : boxes[i].id = b]
                       ELSE x[b]]
  /\ UNCHANGED <<boxes, held, speed>>

States == [b \in IdsIn(boxes) |-> x[b]]
=============================================================================
