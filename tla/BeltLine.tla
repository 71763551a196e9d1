------------------------------ MODULE BeltLine ------------------------------
(***************************************************************************)
(* conveyor_manager and box_advancer at work: the manager spawns boxes and *)
(* hands out slots, the advancer moves the boxes and reports where they    *)
(* are, and the two only know of each other what the latched targets and   *)
(* the queued states tell them.  The rest is environment: conveyor/        *)
(* spawn_box answers with the next id or fails (box_spawner.cpp counts up  *)
(* only on success), the sensor reports the removal of a box it saw at the *)
(* pick point, an operator publishes conveyor/hold and sim_speed.          *)
(*                                                                         *)
(* MaxSpawnFailures and MaxHolds bound how often a spawn fails and how     *)
(* often the belt is held; Depth is the history depth of the topics.       *)
(***************************************************************************)
EXTENDS ConveyorManager, Topics, FiniteSets

CONSTANTS Depth, NormalSpeed, Factors, MaxSpawnFailures, MaxHolds

ASSUME BeltAssumption ==
  /\ Depth \in Nat \ {0}
  /\ NormalSpeed \in Nat \ {0}
  /\ Factors \subseteq Int
  /\ MaxSpawnFailures \in Nat
  /\ MaxHolds \in Nat

VARIABLES
  boxes, x, held, speed,
  targetsNew,  \* the advancer has not received targetsMsg yet
  statesQ,     \* conveyor/box_states, as queued at the manager
  removedQ,    \* conveyor/box_removed, as queued at the manager
  sensed,      \* last box the sensor reported as removed
  failures,    \* failed spawns so far
  holds        \* how often the belt was held so far

Advancer == INSTANCE BoxAdvancer

advancerOnly == <<boxes, x, held, speed>>
linkVars == <<targetsNew, statesQ, removedQ, sensed, failures, holds>>
vars == <<managerVars, advancerOnly, linkVars>>

Init ==
  /\ ManagerInit
  /\ Advancer!AdvancerInit
  /\ targetsNew = TRUE
  /\ statesQ = <<>>
  /\ removedQ = <<>>
  /\ sensed = 0
  /\ failures = 0
  /\ holds = 0

-----------------------------------------------------------------------------
(* conveyor_manager.  Every publication of targets is new to the advancer. *)

ManagerTick ==
  /\ \E serviceReady \in BOOLEAN : Tick(serviceReady)
  /\ UNCHANGED <<advancerOnly, linkVars>>

SpawnSucceeds ==
  /\ spawning
  /\ OnSpawned(spawned + 1)
  /\ targetsNew' = TRUE
  /\ UNCHANGED <<advancerOnly, statesQ, removedQ, sensed, failures, holds>>

SpawnFails ==
  /\ spawning
  /\ failures < MaxSpawnFailures
  /\ failures' = failures + 1
  /\ OnSpawned(NoBox)
  /\ UNCHANGED <<advancerOnly, targetsNew, statesQ, removedQ, sensed, holds>>

ReceiveRemoved ==
  /\ removedQ # <<>>
  /\ OnRemoved(Head(removedQ))
  /\ removedQ' = Tail(removedQ)
  /\ targetsNew' = (targetsNew \/ queue' # queue)
  /\ UNCHANGED <<advancerOnly, statesQ, sensed, failures, holds>>

ReceiveStates ==
  /\ statesQ # <<>>
  /\ OnStates(Head(statesQ))
  /\ statesQ' = Tail(statesQ)
  /\ UNCHANGED <<advancerOnly, targetsNew, removedQ, sensed, failures, holds>>

-----------------------------------------------------------------------------
(* box_advancer.                                                           *)

ReceiveTargets ==
  /\ targetsNew
  /\ Advancer!OnTargets(targetsMsg)
  /\ targetsNew' = FALSE
  /\ UNCHANGED <<managerVars, statesQ, removedQ, sensed, failures, holds>>

AdvancerStep ==
  /\ Advancer!Step
  /\ statesQ' = Publish(statesQ, Advancer!States', Depth)
  /\ UNCHANGED <<managerVars, targetsNew, removedQ, sensed, failures, holds>>

-----------------------------------------------------------------------------
(* Environment.                                                            *)

\* The sensor saw the reported box leave; it never reports a box twice in a row.
SensorReportsRemoval ==
  /\ reported \notin {NoBox, sensed}
  /\ sensed' = reported
  /\ removedQ' = Publish(removedQ, reported, Depth)
  /\ UNCHANGED <<managerVars, advancerOnly, targetsNew, statesQ, failures, holds>>

\* Somebody publishes the removal of a box that left the queue before.
SpuriousRemoval ==
  /\ removedQ = <<>>
  /\ \E b \in 1..sensed : /\ \A i \in 1..Len(queue) : queue[i] # b
                          /\ removedQ' = <<b>>
  /\ UNCHANGED <<managerVars, advancerOnly, targetsNew, statesQ, sensed, failures, holds>>

HoldBelt ==
  /\ ~held
  /\ holds < MaxHolds
  /\ holds' = holds + 1
  /\ Advancer!OnHold(TRUE)
  /\ UNCHANGED <<managerVars, targetsNew, statesQ, removedQ, sensed, failures>>

ReleaseBelt ==
  /\ held
  /\ Advancer!OnHold(FALSE)
  /\ UNCHANGED <<managerVars, linkVars>>

ChangeSpeed ==
  /\ \E f \in Factors : Advancer!OnSimSpeed(f)
  /\ UNCHANGED <<managerVars, linkVars>>

-----------------------------------------------------------------------------
Next ==
  \/ ManagerTick \/ SpawnSucceeds \/ SpawnFails \/ ReceiveRemoved \/ ReceiveStates
  \/ ReceiveTargets \/ AdvancerStep
  \/ SensorReportsRemoval \/ SpuriousRemoval \/ HoldBelt \/ ReleaseBelt \/ ChangeSpeed

Spec == Init /\ [][Next]_vars

\* Timers fire, queued callbacks run, the spawn service is up again and again
\* and answers, the arm takes what is reported at the pick point, and a held
\* belt is released.
Fairness ==
  /\ WF_vars(Tick(TRUE) /\ UNCHANGED <<advancerOnly, linkVars>>)
  /\ WF_vars(SpawnSucceeds) /\ WF_vars(ReceiveRemoved) /\ WF_vars(ReceiveStates)
  /\ WF_vars(ReceiveTargets) /\ WF_vars(AdvancerStep)
  /\ WF_vars(SensorReportsRemoval) /\ WF_vars(ReleaseBelt)

FairSpec == Spec /\ Fairness

-----------------------------------------------------------------------------
(* Properties.                                                             *)

StateMsg == UNION {[S -> Positions] : S \in SUBSET Ids}

TypeOK ==
  /\ queue \in Seq(Ids)
  /\ positions \in StateMsg
  /\ spawned \in 0..MaxBoxes
  /\ spawning \in BOOLEAN
  /\ targetsMsg \in Seq(TargetMsg)
  /\ reported \in Ids \cup {NoBox}
  /\ boxes \in Seq(TargetMsg)
  /\ x \in [Ids -> Positions]
  /\ held \in BOOLEAN
  /\ speed \in Int
  /\ targetsNew \in BOOLEAN
  /\ statesQ \in Seq(StateMsg)
  /\ removedQ \in Seq(Ids)
  /\ sensed \in 0..MaxBoxes
  /\ failures \in 0..MaxSpawnFailures
  /\ holds \in 0..MaxHolds

\* How many boxes have left the queue; those still on it are Cleared+1..spawned.
Cleared == spawned - Len(queue)

\* A box keeps its place in the line: the advancer's boxes are in spawning
\* order without gaps, and so is the manager's queue.
InOrder ==
  /\ \A i \in 1..Len(queue) : queue[i] = Cleared + i
  /\ \A i \in 2..Len(boxes) : boxes[i].id = boxes[i - 1].id + 1

\* The belt never carries more than num_boxes boxes.
WithinCapacity == Len(queue) <= NumBoxes /\ Len(boxes) <= NumBoxes

\* The advancer's line is the manager's queue but for what it has not been
\* told: boxes already removed in front (at most a prefix of its line, never a
\* gap) and the newest box behind.  Every other queued box it has, each box
\* with the target its place had, and once told it has exactly the queue.
OneLine ==
  /\ targetsMsg = TargetsOf(queue)
  /\ ~targetsNew => boxes = targetsMsg
  /\ \A i \in 1..Len(queue) : queue[i] = spawned \/ queue[i] \in Advancer!IdsIn(boxes)
  /\ \A i \in 1..Len(boxes) : boxes[i].id <= spawned /\ boxes[i].x = SlotX(i - 1)
  /\ boxes # <<>> => boxes[1].id <= Cleared + 1

\* The two programs keep one line of boxes, in order and within the capacity of
\* the belt, although spawn responses, removals and targets cross each other:
\* the manager never runs more than one box ahead of the advancer, since it
\* spawns only on states that show the box before (conveyor_manager.cpp:118,
\* 143-160, 169-214).
SameLine == TypeOK /\ InOrder /\ WithinCapacity /\ OneLine

\* Neighbouring boxes on the belt are at least a pitch apart, up to the
\* tolerance, and no box runs past its slot, the lead box not past the pick
\* point: the manager spawns only on a clear belt start although it knows the
\* positions only from queued messages, and the advancer never drives a box
\* into the one ahead (box_advancer.cpp:141-146).
Spacing ==
  /\ \A i \in 2..Len(boxes) : x[boxes[i - 1].id] - x[boxes[i].id] >= Pitch - Eps
  /\ \A i \in 1..Len(boxes) : x[boxes[i].id] <= boxes[i].x

\* What the manager reports at the pick point is there, however old the
\* states it was told are.
ReportedIsAtPick ==
  reported # NoBox =>
    \/ reported \notin Advancer!IdsIn(boxes)
    \/ x[reported] > PickX - Eps

\* A box that stays on the belt never moves back when the list of boxes is
\* replaced, and on a held belt (conveyor/hold) boxes may appear, but none moves.
OnlyForward ==
  [][\A b \in Advancer!IdsIn(boxes) \cap Advancer!IdsIn(boxes') :
       IF held THEN x'[b] = x[b] ELSE x'[b] >= x[b]]_vars

\* The manager and the advancer together deliver what PickPoint promises: the
\* box that reaches the pick point stays the lead until the arm has taken it,
\* and the next one comes only when it is cleared, although a removal arrives
\* late, twice or for a box that is not in front (conveyor_manager.cpp:206).
Pick == INSTANCE PickPoint WITH
  cleared <- Cleared,
  at      <- queue # <<>> /\ x[Cleared + 1] > PickX - Eps,
  taken   <- queue # <<>> /\ sensed = Cleared + 1
PickSpec == Pick!Spec

\* Every box of the simulation is spawned, travels the belt and is reported
\* at the pick point.
EveryBoxArrives == <>(reported = MaxBoxes)
=============================================================================
