------------------------------ MODULE SceneSync ------------------------------
(***************************************************************************)
(* How boxes get into MoveIt's planning scene and stay in step with the    *)
(* belt: box_spawner and scene_gateway, with move_group (external) serving *)
(* two separate inputs, the /apply_planning_scene service and the          *)
(* /planning_scene topic.  The manager, the advancer, the sensor and the   *)
(* arm are environment: a spawned box travels the belt, is taken at the    *)
(* pick point, is reported as removed and is put on the pallet.            *)
(*                                                                         *)
(* MaxBoxes bounds the boxes, MaxRefusals how often move_group refuses a   *)
(* request, MaxColors how often conveyor/box_color is published, MaxAdds   *)
(* how many add_object requests may queue up at the gateway, MaxApplies    *)
(* how many requests may queue up at move_group.                           *)
(***************************************************************************)
EXTENDS Integers, FiniteSets, Topics

CONSTANTS
  MaxBoxes, PickX, Eps, Belt, NoColor, Colors, Depth, SceneDepth,
  GatewayTimeout, SpawnerTimeout, MaxRefusals, MaxColors, MaxAdds, MaxApplies,
  SensorKeepsUp  \* a taken box is reported, and its last diff applied, before
                 \* the arm puts it down (milliseconds against seconds)

ASSUME SceneAssumption ==
  /\ MaxBoxes \in Nat
  /\ PickX \in Nat \ {0}
  /\ Eps \in Nat
  /\ NoColor \notin Colors
  /\ Belt \notin 1..MaxBoxes
  /\ {Depth, SceneDepth} \subseteq Nat \ {0}
  /\ {GatewayTimeout, SpawnerTimeout, MaxRefusals, MaxColors, MaxAdds, MaxApplies} \subseteq Nat
  /\ SensorKeepsUp \in BOOLEAN

Ids == 1..MaxBoxes
StartX == 0

VARIABLES
  beltSpawned, svc, waited, adding, colorAtAdd, inScene, boxColor, colorPending,
  applyQ, reply, sceneQ,
  count, spawnPc, spawnWait, addQ,
  world,      \* move_group: x of every box, or Absent, InGripper, OnPallet
  painted,    \* move_group: color of every box
  refusals, colorsSent,
  x,          \* the advancer: position of every spawned box
  statesQ,    \* conveyor/box_states, as queued at the gateway
  removed,    \* boxes whose removal the sensor published
  removedQ    \* conveyor/box_removed, as queued at the gateway

Gateway == INSTANCE SceneGateway
Spawner == INSTANCE BoxSpawner

gatewayVars == <<beltSpawned, svc, waited, adding, colorAtAdd, inScene, boxColor,
                 colorPending, applyQ, reply, sceneQ>>
spawnerVars == <<count, spawnPc, spawnWait, addQ>>
sceneVars == <<world, painted, refusals>>
beltVars == <<colorsSent, x, statesQ, removed, removedQ>>
vars == <<gatewayVars, spawnerVars, sceneVars, beltVars>>

Absent    == -3
InGripper == -2
OnPallet  == -1

Init ==
  /\ Gateway!GatewayInit
  /\ Spawner!SpawnerInit
  /\ world = [b \in Ids |-> Absent]
  /\ painted = [b \in Ids |-> NoColor]
  /\ refusals = 0
  /\ colorsSent = 0
  /\ x = [b \in Ids |-> StartX]
  /\ statesQ = <<>>
  /\ removed = {}
  /\ removedQ = <<>>

OnBelt == {b \in 1..count : b \notin removed}

-----------------------------------------------------------------------------
(* conveyor/spawn_box and scene_gateway/add_object.                        *)

RequestBox ==
  /\ count < MaxBoxes
  /\ Len(addQ) < MaxAdds
  /\ Spawner!OnSpawn
  /\ UNCHANGED <<gatewayVars, sceneVars, beltVars>>

SpawnerGivesUp ==
  /\ Spawner!SpawnerTimesOut
  /\ UNCHANGED <<gatewayVars, sceneVars, beltVars>>

AddBelt ==
  /\ Len(applyQ) < MaxApplies
  /\ Gateway!AddBelt
  /\ UNCHANGED <<spawnerVars, sceneVars, beltVars>>

\* onAddObject() refuses at once.
RefuseAdd ==
  /\ addQ # <<>>
  /\ svc = "idle"
  /\ \E sceneReady \in BOOLEAN : ~Gateway!Accepts(sceneReady)
  /\ Spawner!OnGatewayAnswer(FALSE)
  /\ UNCHANGED <<gatewayVars, sceneVars, beltVars>>

BeginAdd ==
  /\ addQ # <<>>
  /\ Len(applyQ) < MaxApplies
  /\ \E sceneReady \in BOOLEAN : Gateway!Accepts(sceneReady)
  /\ Gateway!BeginAdd(Head(addQ).id)
  /\ UNCHANGED <<spawnerVars, sceneVars, beltVars>>

\* The wait for move_group is over; an add_object request is answered.
FinishAsk ==
  /\ Gateway!ReplyArrives \/ Gateway!GatewayTimesOut
  /\ IF svc = "add" THEN Spawner!OnGatewayAnswer(Gateway!Confirmed) ELSE UNCHANGED spawnerVars
  /\ UNCHANGED <<sceneVars, beltVars>>

\* A second passes for those who wait; nobody waits past its timeout.
Second ==
  /\ svc # "idle" /\ reply = "none" => waited < GatewayTimeout
  /\ spawnPc = "waiting" => spawnWait < SpawnerTimeout
  /\ (svc # "idle" /\ reply = "none") \/ spawnPc = "waiting"
  /\ waited' = IF svc # "idle" /\ waited < GatewayTimeout THEN waited + 1 ELSE waited
  /\ spawnWait' = IF spawnPc = "waiting" THEN spawnWait + 1 ELSE spawnWait
  /\ UNCHANGED <<beltSpawned, svc, adding, colorAtAdd, inScene, boxColor, colorPending,
                 applyQ, reply, sceneQ, count, spawnPc, addQ, sceneVars, beltVars>>

-----------------------------------------------------------------------------
(* move_group.                                                             *)

\* The service applies its requests in order, also those nobody awaits any
\* more; an ADD of a box that is there already puts it back to the start.
ApplyAdd ==
  /\ applyQ # <<>>
  /\ LET r == Head(applyQ)
     IN /\ \/ /\ world' = IF r.id = Belt THEN world ELSE [world EXCEPT ![r.id] = StartX]
              /\ painted' = IF r.id = Belt THEN painted ELSE [painted EXCEPT ![r.id] = r.color]
              /\ reply' = IF r.awaited THEN "success" ELSE reply
              /\ UNCHANGED refusals
           \/ /\ refusals < MaxRefusals
              /\ refusals' = refusals + 1
              /\ reply' = IF r.awaited THEN "failure" ELSE reply
              /\ UNCHANGED <<world, painted>>
  /\ applyQ' = Tail(applyQ)
  /\ UNCHANGED <<beltSpawned, svc, waited, adding, colorAtAdd, inScene, boxColor,
                 colorPending, sceneQ, spawnerVars, beltVars>>

\* A diff moves and paints the boxes that are objects of the world; a MOVE of
\* anything else is an error move_group only logs.
ApplyDiff ==
  /\ sceneQ # <<>>
  /\ LET d == Head(sceneQ)
         there == {b \in DOMAIN d.move : world[b] \notin {Absent, InGripper}}
     IN /\ world' = [b \in Ids |-> IF b \in there THEN d.move[b] ELSE world[b]]
        /\ painted' = [b \in Ids |-> IF b \in DOMAIN d.paint THEN d.paint[b] ELSE painted[b]]
  /\ sceneQ' = Tail(sceneQ)
  /\ UNCHANGED <<beltSpawned, svc, waited, adding, colorAtAdd, inScene, boxColor,
                 colorPending, applyQ, reply, spawnerVars, refusals, beltVars>>

-----------------------------------------------------------------------------
(* The belt and its users.                                                 *)

\* A tick of the advancer: the lead box, or the one behind it, may get on, and
\* the states of all boxes on the belt are published.
AdvancerTick ==
  /\ OnBelt # {}
  /\ \/ UNCHANGED x
     \/ \E b \in OnBelt :
          /\ x[b] < PickX
          /\ \A a \in OnBelt : a < b => x[b] + 1 < x[a]
          /\ x' = [x EXCEPT ![b] = @ + 1]
  /\ statesQ' = Publish(statesQ, [b \in OnBelt |-> x'[b]], Depth)
  /\ UNCHANGED <<gatewayVars, spawnerVars, sceneVars, colorsSent, removed, removedQ>>

DeliverStates ==
  /\ statesQ # <<>>
  /\ Gateway!OnBoxStates(Head(statesQ))
  /\ statesQ' = Tail(statesQ)
  /\ UNCHANGED <<spawnerVars, sceneVars, colorsSent, x, removed, removedQ>>

SetColor ==
  /\ colorsSent < MaxColors
  /\ colorsSent' = colorsSent + 1
  /\ \E c \in Colors : Gateway!OnBoxColor(c)
  /\ UNCHANGED <<spawnerVars, sceneVars, x, statesQ, removed, removedQ>>

\* attachObject(): the box leaves the world once the scene has it at the pick point.
ArmTakes ==
  /\ \E b \in OnBelt : /\ world[b] = PickX
                       /\ world' = [world EXCEPT ![b] = InGripper]
  /\ UNCHANGED <<gatewayVars, spawnerVars, painted, refusals, beltVars>>

\* The gateway still sends, or move_group has still to apply, diffs of box b.
StillMoved(b) ==
  b \in DOMAIN inScene \/ \E i \in 1..Len(sceneQ) : b \in DOMAIN sceneQ[i].move

\* detachObject()
ArmPuts ==
  /\ \E b \in Ids : /\ world[b] = InGripper
                    /\ SensorKeepsUp => ~StillMoved(b)
                    /\ world' = [world EXCEPT ![b] = OnPallet]
  /\ UNCHANGED <<gatewayVars, spawnerVars, painted, refusals, beltVars>>

SensorReports ==
  /\ \E b \in OnBelt : /\ world[b] \in {InGripper, OnPallet}
                       /\ removed' = removed \cup {b}
                       /\ removedQ' = Publish(removedQ, b, Depth)
  /\ UNCHANGED <<gatewayVars, spawnerVars, sceneVars, colorsSent, x, statesQ>>

DeliverRemoved ==
  /\ removedQ # <<>>
  /\ Gateway!OnBoxRemoved(Head(removedQ))
  /\ removedQ' = Tail(removedQ)
  /\ UNCHANGED <<spawnerVars, sceneVars, colorsSent, x, statesQ, removed>>

-----------------------------------------------------------------------------
Next ==
  \/ RequestBox \/ SpawnerGivesUp \/ AddBelt \/ RefuseAdd \/ BeginAdd \/ FinishAsk \/ Second
  \/ ApplyAdd \/ ApplyDiff
  \/ AdvancerTick \/ DeliverStates \/ SetColor
  \/ ArmTakes \/ ArmPuts \/ SensorReports \/ DeliverRemoved

Spec == Init /\ [][Next]_vars

-----------------------------------------------------------------------------
(* Properties.                                                             *)

TypeOK ==
  /\ beltSpawned \in BOOLEAN
  /\ svc \in {"idle", "belt", "add"}
  /\ waited \in 0..GatewayTimeout
  /\ adding \in Ids \cup {Belt}
  /\ colorAtAdd \in Colors \cup {NoColor}
  /\ DOMAIN inScene \subseteq Ids
  /\ boxColor \in Colors \cup {NoColor}
  /\ colorPending \subseteq Ids
  /\ reply \in {"none", "success", "failure"}
  /\ count \in 0..MaxBoxes
  /\ spawnPc \in {"idle", "waiting"}
  /\ spawnWait \in 0..SpawnerTimeout
  /\ world \in [Ids -> {Absent, InGripper, OnPallet} \cup StartX..PickX]
  /\ painted \in [Ids -> Colors \cup {NoColor}]
  /\ x \in [Ids -> StartX..PickX]
  /\ removed \subseteq Ids

\* A MOVE never reaches the scene before the object exists (scene_gateway.cpp:8-10),
\* although MOVEs and ADDs travel on different channels, ADDs time out and are
\* retried with the same id.
MoveAfterAdd ==
  \A i \in 1..Len(sceneQ) : \A b \in DOMAIN sceneQ[i].move : world[b] # Absent

\* A step that moves no box of the scene backwards, and takes none from the arm
\* or the pallet.
NoStepBack ==
  \A b \in Ids :
    /\ world[b] >= StartX => world'[b] >= world[b] \/ world'[b] = InGripper
    /\ world[b] = InGripper => world'[b] \in {InGripper, OnPallet}
    /\ world[b] = OnPallet => world'[b] = OnPallet

\* A box that is on its way is not put back to the belt start by the late
\* execution of an ADD that was given up and repeated, nor by an old MOVE.
NoJumpBack == [][NoStepBack]_vars

\* Numbers are used once: a box that the spawner has handed out was confirmed
\* by the scene, and the ADD requests still under way are for the next number.
SpawnedIsConfirmed ==
  /\ \A b \in 1..count : world[b] # Absent
  /\ \A i \in 1..Len(addQ) : addQ[i].awaited => addQ[i].id = count + 1

\* No color change is lost (scene_gateway.cpp:12-15): a box the gateway knows
\* has the current color, or will get it from a queued diff or from the next
\* states, also when the color changed while its ADD was waiting.
LastPaint(b) ==
  LET is == {i \in 1..Len(sceneQ) : b \in DOMAIN sceneQ[i].paint}
  IN IF is = {} THEN painted[b]
     ELSE sceneQ[CHOOSE i \in is : \A j \in is : j <= i].paint[b]

ColorNotLost ==
  \A b \in DOMAIN inScene : boxColor # LastPaint(b) => b \in colorPending
=============================================================================
