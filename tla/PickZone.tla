------------------------------- MODULE PickZone -------------------------------
(***************************************************************************)
(* The pick point: proximity_sensor between conveyor_manager, which names  *)
(* the lead box and drops it when its removal is reported, move_group,     *)
(* which answers from a planning scene that lags behind the belt, and the  *)
(* arm.  The manager is reduced to its lead box (ConveyorManager has the   *)
(* rest); boxes are numbered in belt order.                                *)
(*                                                                         *)
(* MaxRestarts bounds the restarts of the sensor, MaxMisses the answers in *)
(* a row that miss a box which is there (what debounce_cycles is for).     *)
(***************************************************************************)
EXTENDS Naturals, FiniteSets, Topics

CONSTANTS
  NumBoxes, NoBox, NoRequest, Debounce, Depth, MaxRestarts, MaxMisses

ASSUME ZoneAssumption ==
  /\ NumBoxes \in Nat
  /\ NoBox \notin 1..NumBoxes
  /\ NoRequest \notin [id : 1..NumBoxes, answer : {"none", "near", "away"}]
  /\ Debounce \in Nat \ {0}
  /\ Depth \in Nat \ {0}
  /\ MaxRestarts \in Nat
  /\ MaxMisses \in Nat

Boxes == 1..NumBoxes

VARIABLES
  watched, lastRemoved, seen, clearCount, request, removedQ,
  lead,      \* the box conveyor_manager has in front, at the pick point, or NoBox
  place,     \* where every box is: "belt", "pick" or "taken"
  scene,     \* what the planning scene shows near the pick point
  pickQ,     \* conveyor/box_at_pick, as queued at the sensor
  restarts,  \* restarts so far
  misses,    \* answers in a row that missed the watched box
  removals,  \* history: how often the removal of each box was published
  shown      \* history: boxes the sensor was shown at the pick point since it started

Sensor == INSTANCE ProximitySensor

sensorVars == <<watched, lastRemoved, seen, clearCount, request, removedQ>>
zoneVars == <<lead, place, scene, pickQ, restarts, misses, removals, shown>>
vars == <<sensorVars, zoneVars>>

Init ==
  /\ Sensor!SensorInit
  /\ lead = NoBox
  /\ place = [b \in Boxes |-> "belt"]
  /\ scene = {}
  /\ pickQ = <<>>
  /\ restarts = 0
  /\ misses = 0
  /\ removals = [b \in Boxes |-> 0]
  /\ shown = {}

-----------------------------------------------------------------------------
(* Belt, planning scene and arm.                                           *)

\* The next box stops at the pick point; the scene does not show it there yet.
BoxArrives ==
  /\ lead = NoBox
  /\ \E b \in Boxes :
       /\ place[b] = "belt"
       /\ \A a \in Boxes : place[a] = "belt" => b <= a
       /\ lead' = b
       /\ place' = [place EXCEPT ![b] = "pick"]
  /\ UNCHANGED <<sensorVars, scene, pickQ, restarts, misses, removals, shown>>

ReportLead ==
  /\ pickQ' = Publish(pickQ, lead, Depth)
  /\ UNCHANGED <<sensorVars, lead, place, scene, restarts, misses, removals, shown>>

SceneCatchesUp ==
  /\ \E b \in Boxes \ scene : /\ place[b] = "pick"
                              /\ scene' = scene \cup {b}
  /\ UNCHANGED <<sensorVars, lead, place, pickQ, restarts, misses, removals, shown>>

\* Attached to the gripper, a box is no object of the world any more.
ArmTakes ==
  /\ \E b \in Boxes : /\ place[b] = "pick"
                      /\ place' = [place EXCEPT ![b] = "taken"]
                      /\ scene' = scene \ {b}
  /\ UNCHANGED <<sensorVars, lead, pickQ, restarts, misses, removals, shown>>

\* conveyor_manager's onRemoved: only the lead box is dropped.
ManagerReceivesRemoved ==
  /\ removedQ # <<>>
  /\ lead' = IF Head(removedQ) = lead THEN NoBox ELSE lead
  /\ removedQ' = Tail(removedQ)
  /\ UNCHANGED <<watched, lastRemoved, seen, clearCount, request,
                 place, scene, pickQ, restarts, misses, removals, shown>>

-----------------------------------------------------------------------------
(* The sensor.                                                             *)

ReceiveAtPick ==
  /\ pickQ # <<>>
  /\ Sensor!OnAtPick(Head(pickQ))
  /\ pickQ' = Tail(pickQ)
  /\ UNCHANGED <<lead, place, scene, restarts, misses, removals, shown>>

CheckScene == Sensor!CheckScene /\ UNCHANGED zoneVars

\* move_group looks at the scene now; the answer arrives later.
SceneIsRead ==
  /\ request # NoRequest
  /\ request.answer = "none"
  /\ \/ /\ request' = [request EXCEPT !.answer = IF request.id \in scene THEN "near" ELSE "away"]
        /\ misses' = 0
     \/ /\ request.id \in scene
        /\ misses < MaxMisses
        /\ request' = [request EXCEPT !.answer = "away"]
        /\ misses' = misses + 1
  /\ UNCHANGED <<watched, lastRemoved, seen, clearCount, removedQ,
                 lead, place, scene, pickQ, restarts, removals, shown>>

ReceiveScene ==
  /\ Sensor!ReceiveScene
  /\ removals' = IF watched' = watched THEN removals
                 ELSE [removals EXCEPT ![watched] = @ + 1]
  /\ shown' = IF request.answer = "near" THEN shown \cup {request.id} ELSE shown
  /\ UNCHANGED <<lead, place, scene, pickQ, restarts, misses>>

\* The sensor is restarted: queued samples and the pending answer are lost.
SensorRestarts ==
  /\ restarts < MaxRestarts
  /\ restarts' = restarts + 1
  /\ Sensor!Restart
  /\ pickQ' = <<>>
  /\ shown' = {}
  /\ UNCHANGED <<lead, place, scene, misses, removals>>

-----------------------------------------------------------------------------
Next ==
  \/ BoxArrives \/ ReportLead \/ SceneCatchesUp \/ ArmTakes \/ ManagerReceivesRemoved
  \/ ReceiveAtPick \/ CheckScene \/ SceneIsRead \/ ReceiveScene \/ SensorRestarts

Spec == Init /\ [][Next]_vars

\* Timers fire, callbacks run, move_group answers and applies the diffs it
\* got, the arm picks what lies at the pick point.
Fairness ==
  /\ WF_vars(BoxArrives) /\ WF_vars(ReportLead) /\ WF_vars(SceneCatchesUp)
  /\ WF_vars(ArmTakes) /\ WF_vars(ManagerReceivesRemoved)
  /\ WF_vars(ReceiveAtPick) /\ WF_vars(CheckScene) /\ WF_vars(SceneIsRead)
  /\ WF_vars(ReceiveScene)

FairSpec == Spec /\ Fairness

-----------------------------------------------------------------------------
(* Properties.                                                             *)

TypeOK ==
  /\ {watched, lastRemoved, lead} \subseteq Boxes \cup {NoBox}
  /\ seen \in BOOLEAN
  /\ clearCount \in 0..Debounce - 1
  /\ request \in [id : Boxes, answer : {"none", "near", "away"}] \cup {NoRequest}
  /\ removedQ \in Seq(Boxes)
  /\ place \in [Boxes -> {"belt", "pick", "taken"}]
  /\ scene \subseteq Boxes
  /\ pickQ \in Seq(Boxes \cup {NoBox})
  /\ restarts \in 0..MaxRestarts
  /\ misses \in 0..MaxMisses
  /\ removals \in [Boxes -> Nat]
  /\ shown \subseteq Boxes

\* Only a box that the arm took is reported as removed: not one the scene has
\* not caught up with, not one a reading missed, and not the next box because
\* of an answer about the previous one (proximity_sensor.cpp:109-112, 131-136).
NoFalseRemoval == \A b \in Boxes : removals[b] > 0 => place[b] = "taken"

\* A removal is published once, although conveyor_manager names the box until
\* it has received the removal, and although the sensor may restart meanwhile.
RemovedOnce == \A b \in Boxes : removals[b] <= 1

\* What the sensor keeps and publishes is sound at every moment.
SoundSensor == TypeOK /\ NoFalseRemoval /\ RemovedOnce

\* The sensor and the manager deliver what PickPoint promises: a box that waits
\* for the arm stays the lead box, whatever the scene shows and whenever the
\* sensor restarts, so no box is driven into it; only a taken one is cleared.
Pick == INSTANCE PickPoint WITH
  MaxBoxes <- NumBoxes,
  cleared  <- Cardinality({b \in Boxes : place[b] # "belt" /\ b # lead}),
  at       <- lead # NoBox,
  taken    <- lead # NoBox /\ place[lead] = "taken"
PickSpec == Pick!Spec

\* The arm has a box before the sensor was shown it at the pick point, or the
\* sensor restarted in between: it will never see the box leave.
Blind == \E b \in Boxes : place[b] = "taken" /\ removals[b] = 0 /\ b \notin shown

\* Every box that comes is taken, reported and makes room for the next one,
\* unless the sensor was never shown a box that is gone.
ZoneClears == []~Blind => <>[](lead = NoBox /\ \A b \in Boxes : removals[b] = 1)
=============================================================================
