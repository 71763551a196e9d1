--------------------------- MODULE ConveyorManager ---------------------------
(***************************************************************************)
(* conveyor_manager (src/src/conveyor_sim/src/conveyor_manager.cpp): owns  *)
(* the queue of boxes on the belt.  The node is spun by a single-threaded  *)
(* executor: every callback is one atomic step.  Box ids are numbers in    *)
(* the order of spawning ("box_1", "box_2", ...).                          *)
(*                                                                         *)
(* Abstracted: pose and frame of the pick pose, box_present (it is TRUE    *)
(* exactly when the reported id is not empty), log output.                 *)
(***************************************************************************)
EXTENDS ConveyorGeometry, Sequences

CONSTANTS
  NumBoxes,   \* num_boxes: boxes kept on the belt
  MaxBoxes,   \* max_boxes: boxes spawned in total
  NoBox       \* the empty id

\* validateNumberOfBoxes() throws otherwise.
ASSUME ManagerAssumption ==
  /\ NumBoxes \in 1..NumSlots
  /\ MaxBoxes \in Nat
  /\ NoBox \notin Int

Ids == 1..MaxBoxes

VARIABLES
  queue,       \* queue_, lead box first
  positions,   \* positions_: latest x the advancer reported, by id
  spawned,     \* spawned_
  spawning,    \* isPreviousSpawnInProcess_
  targetsMsg,  \* last sample of the latched topic conveyor/box_targets
  reported     \* last id published on conveyor/box_at_pick

managerVars == <<queue, positions, spawned, spawning, targetsMsg, reported>>

TargetMsg == [id : Ids, x : Int]

\* publishTargets(): every box with the x of its queue slot
TargetsOf(boxes) == [k \in 1..Len(boxes) |-> [id |-> boxes[k], x |-> SlotX(k - 1)]]

\* The constructor publishes the targets of the empty belt.
ManagerInit ==
  /\ queue = <<>>
  /\ positions = [b \in {} |-> StartX]
  /\ spawned = 0
  /\ spawning = FALSE
  /\ targetsMsg = TargetsOf(<<>>)
  /\ reported = NoBox

-----------------------------------------------------------------------------
Last(s) == s[Len(s)]

\* Mutation of SpawnAreaClear: any known position will do.
SpawnAreaClearOnceMoved == queue = <<>> \/ Last(queue) \in DOMAIN positions

\* The belt start is clear once the last box is one pitch away from it.
SpawnAreaClear ==
  \/ queue = <<>>
  \/ /\ Last(queue) \in DOMAIN positions
     /\ positions[Last(queue)] - StartX >= Pitch - Eps

\* Mutation of MaySpawn: wherever the last box may be.
MaySpawnBlindly(serviceReady) ==
  /\ ~spawning
  /\ Len(queue) < NumBoxes
  /\ spawned < MaxBoxes
  /\ serviceReady

MaySpawn(serviceReady) ==
  /\ ~spawning
  /\ Len(queue) < NumBoxes
  /\ spawned < MaxBoxes
  /\ IF queue = <<>> THEN TRUE ELSE SpawnAreaClear
  /\ serviceReady

Distance(a, b) == IF a < b THEN b - a ELSE a - b

\* Mutation of LeadAtPick: a box that is nearly there is reported.
LeadNearPick ==
  IF queue = <<>> THEN FALSE
  ELSE IF Head(queue) \in DOMAIN positions THEN Distance(positions[Head(queue)], PickX) <= Pitch ELSE FALSE

LeadAtPick ==
  IF queue = <<>> THEN FALSE
  ELSE IF Head(queue) \in DOMAIN positions THEN Distance(positions[Head(queue)], PickX) < Eps ELSE FALSE

\* The timer: trySpawnNextBox(), then publishStatus().
Tick(serviceReady) ==
  /\ spawning' = (spawning \/ MaySpawn(serviceReady))
  /\ reported' = IF LeadAtPick THEN Head(queue) ELSE NoBox
  /\ UNCHANGED <<queue, positions, spawned, targetsMsg>>

\* The response of conveyor/spawn_box: a new id, or NoBox when it failed.
OnSpawned(id) ==
  /\ spawning' = FALSE
  /\ IF id = NoBox
     THEN UNCHANGED <<queue, spawned, targetsMsg>>
     ELSE /\ spawned' = spawned + 1
          /\ queue' = Append(queue, id)
          /\ targetsMsg' = TargetsOf(queue')
  /\ UNCHANGED <<positions, reported>>

\* Mutation of OnRemoved: any removal drops the lead box.
OnRemovedAnyway(id) ==
  /\ IF queue # <<>>
     THEN /\ queue' = Tail(queue)
          /\ positions' = [b \in DOMAIN positions \ {id} |-> positions[b]]
          /\ targetsMsg' = TargetsOf(queue')
     ELSE UNCHANGED <<queue, positions, targetsMsg>>
  /\ UNCHANGED <<spawned, spawning, reported>>

\* conveyor/box_removed: anything but the lead box is ignored.
OnRemoved(id) ==
  /\ IF queue # <<>> /\ Head(queue) = id
     THEN /\ queue' = Tail(queue)
          /\ positions' = [b \in DOMAIN positions \ {id} |-> positions[b]]
          /\ targetsMsg' = TargetsOf(queue')
     ELSE UNCHANGED <<queue, positions, targetsMsg>>
  /\ UNCHANGED <<spawned, spawning, reported>>

\* conveyor/box_states replaces everything known about positions.
OnStates(states) ==
  /\ positions' = states
  /\ UNCHANGED <<queue, spawned, spawning, targetsMsg, reported>>
=============================================================================
