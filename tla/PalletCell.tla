----------------------------- MODULE PalletCell -----------------------------
(***************************************************************************)
(* The palletizing cell: pallet_planner and palletizer_node connected by   *)
(* their topics, and the end of the conveyor as they see it.  The conveyor *)
(* is reduced to what conveyor_manager reports at the pick point: the lead *)
(* box arrives when the belt may move, is reported until the proximity     *)
(* sensor and the manager have noticed that the arm took it, and only then *)
(* the next one arrives.                                                   *)
(*                                                                         *)
(* Box ids are numbers in belt order (box_1, box_2, ...).  MaxRestarts,    *)
(* MaxCrashes, MaxFailures and MaxResets bound how often the operator      *)
(* restarts a stopped executor, the executor is killed, a motion fails and *)
(* ~/reset is called.                                                      *)
(***************************************************************************)
EXTENDS PalletPlanner

CONSTANTS
  NumBoxes, MaxRestarts, MaxCrashes, MaxFailures, MaxResets,
  ResetsWhenAsked  \* the operator waits for the "Pallet full" warning and the arm

ASSUME CellAssumption ==
  /\ NumBoxes \in Nat
  /\ Boxes = 1..NumBoxes
  /\ \A n \in {MaxRestarts, MaxCrashes, MaxFailures, MaxResets} : n \in Nat
  /\ ResetsWhenAsked \in BOOLEAN

VARIABLES
  pc, next, busyId, doneId, current, ok, hold, resultQ, where,
  head,      \* the lead box conveyor_manager reports, or NoBox
  arrived,   \* how many boxes have reached the pick point so far
  beltHeld,  \* box_advancer's hold_
  idQ,       \* conveyor/box_at_pick, as queued at the planner
  posesOut,  \* samples of conveyor/box_pick_pose queued at the planner
  budget,    \* how many restarts, crashes, motion failures and resets are left
  grasps     \* history: how often each box was attached

Executor == INSTANCE PalletExecutor

executorOnly == <<pc, next, busyId, doneId, current, ok, hold, resultQ, where>>
beltVars == <<head, arrived, beltHeld, idQ, posesOut>>
auxVars == <<budget, grasps>>
vars == <<plannerVars, executorOnly, beltVars, auxVars>>

Slots == 0..Capacity - 1
AtPick == Executor!AtPick

Init ==
  /\ PlannerInit
  /\ Executor!ExecutorInit
  /\ head = NoBox
  /\ arrived = 0
  /\ beltHeld = FALSE
  /\ idQ = <<>>
  /\ posesOut = 0
  /\ budget = [restart |-> MaxRestarts, crash |-> MaxCrashes,
               failure |-> MaxFailures, reset |-> MaxResets]
  /\ grasps = [b \in Boxes |-> 0]

Spend(what) ==
  /\ budget[what] > 0
  /\ budget' = [budget EXCEPT ![what] = @ - 1]

-----------------------------------------------------------------------------
(* The belt.                                                               *)

\* The next box stops at the pick point and the manager reports it as lead.
BoxArrives ==
  /\ head = NoBox
  /\ ~beltHeld
  /\ arrived < NumBoxes
  /\ arrived' = arrived + 1
  /\ head' = arrived + 1
  /\ where' = [where EXCEPT ![arrived + 1] = AtPick]
  /\ UNCHANGED <<plannerVars, pc, next, busyId, doneId, current, ok, hold, resultQ,
                 beltHeld, idQ, posesOut, auxVars>>

\* The sensor found the lead box gone from the pick point, the manager dropped it.
BoxCleared ==
  /\ head # NoBox
  /\ where[head] # AtPick
  /\ head' = NoBox
  /\ UNCHANGED <<plannerVars, executorOnly, arrived, beltHeld, idQ, posesOut, auxVars>>

\* conveyor_manager's publishStatus: the id always, the pose only with a box.
ReportLead ==
  /\ idQ' = Publish(idQ, head, Depth)
  /\ posesOut' = IF head # NoBox /\ posesOut < Depth THEN posesOut + 1 ELSE posesOut
  /\ UNCHANGED <<plannerVars, executorOnly, head, arrived, beltHeld, auxVars>>

\* box_advancer receives the latched hold.
HoldReachesBelt ==
  /\ beltHeld # hold
  /\ beltHeld' = hold
  /\ UNCHANGED <<plannerVars, executorOnly, head, arrived, idQ, posesOut, auxVars>>

-----------------------------------------------------------------------------
(* The planner's callbacks.                                                *)

DeliverAtPick ==
  /\ idQ # <<>>
  /\ OnAtPick(Head(idQ))
  /\ idQ' = Tail(idQ)
  /\ UNCHANGED <<executorOnly, head, arrived, beltHeld, posesOut, auxVars>>

DeliverPickPose ==
  /\ posesOut > 0
  /\ OnPickPose
  /\ posesOut' = posesOut - 1
  /\ UNCHANGED <<executorOnly, head, arrived, beltHeld, idQ, auxVars>>

PickPoseExpires ==
  /\ PoseExpires
  /\ UNCHANGED <<executorOnly, beltVars, auxVars>>

DeliverResult ==
  /\ resultQ # <<>>
  /\ OnResult(Head(resultQ))
  /\ resultQ' = Tail(resultQ)
  /\ UNCHANGED <<pc, next, busyId, doneId, current, ok, hold, where, beltVars, auxVars>>

PlannerTick ==
  /\ \E sceneUp \in BOOLEAN : Tick(sceneUp)
  /\ UNCHANGED <<executorOnly, beltVars, auxVars>>

\* "Pallet full, <box> waiting. Call ~/reset after unloading."
FullWarning ==
  /\ pending = NoTarget
  /\ atPickId \notin {NoBox, lastPlacedId} \cup failedIds
  /\ nextSlot >= Capacity

\* Nobody unloads under a moving arm.
ArmRests == pc = "waiting" /\ next = NoTarget /\ targetQ = <<>>

\* The operator unloads the pallet and calls ~/reset.
UnloadAndReset ==
  /\ ResetsWhenAsked => FullWarning /\ ArmRests
  /\ Spend("reset")
  /\ Reset
  /\ where' = [b \in Boxes |-> IF where[b] \in Slots THEN Executor!Unloaded ELSE where[b]]
  /\ UNCHANGED <<pc, next, busyId, doneId, current, ok, hold, resultQ, beltVars, grasps>>

-----------------------------------------------------------------------------
(* The executor.                                                           *)

DeliverTarget ==
  /\ targetQ # <<>>
  /\ Executor!OnTarget(Head(targetQ))
  /\ targetQ' = Tail(targetQ)
  /\ UNCHANGED <<nextSlot, pending, atPickId, lastPlacedId, failedIds, poseFresh,
                 palletSends, status, beltVars, auxVars>>

\* Targets published while no executor ran are lost: the topic is volatile.
StartExecutor ==
  /\ Executor!Start
  /\ targetQ' = <<>>
  /\ UNCHANGED <<nextSlot, pending, atPickId, lastPlacedId, failedIds, poseFresh,
                 palletSends, status, beltVars, auxVars>>

RunStep ==
  /\ Executor!RunStep
  /\ grasps' = IF pc = "held" THEN [grasps EXCEPT ![current.box] = @ + 1] ELSE grasps
  /\ UNCHANGED <<plannerVars, beltVars, budget>>

MotionFails ==
  /\ Spend("failure")
  /\ Executor!MotionFails
  /\ UNCHANGED <<plannerVars, beltVars, grasps>>

\* The stopped process lingers 500 ms so that its result goes out, exits, and
\* is started again by the operator.
RestartAfterFailure ==
  /\ Spend("restart")
  /\ resultQ = <<>>
  /\ Executor!Exit
  /\ UNCHANGED <<plannerVars, beltVars, grasps>>

\* A result that is still on its way may die with its publisher.
ExecutorCrashes ==
  /\ Spend("crash")
  /\ Executor!Crash
  /\ \E n \in 0..Len(resultQ) : resultQ' = SubSeq(resultQ, 1, n)
  /\ UNCHANGED <<plannerVars, beltVars, grasps>>

-----------------------------------------------------------------------------
Next ==
  \/ BoxArrives \/ BoxCleared \/ ReportLead \/ HoldReachesBelt
  \/ DeliverAtPick \/ DeliverPickPose \/ PickPoseExpires \/ DeliverResult
  \/ PlannerTick \/ UnloadAndReset
  \/ DeliverTarget \/ StartExecutor \/ RunStep
  \/ MotionFails \/ RestartAfterFailure \/ ExecutorCrashes

Spec == Init /\ [][Next]_vars

\* Timers fire, queued callbacks run, the run() thread is scheduled, and the
\* belt moves when it may.
Fairness ==
  /\ WF_vars(BoxArrives) /\ WF_vars(BoxCleared)
  /\ WF_vars(ReportLead) /\ WF_vars(HoldReachesBelt)
  /\ WF_vars(DeliverAtPick) /\ WF_vars(DeliverPickPose) /\ WF_vars(DeliverResult)
  /\ WF_vars(PlannerTick)
  /\ WF_vars(DeliverTarget) /\ WF_vars(StartExecutor) /\ WF_vars(RunStep)

FairSpec == Spec /\ Fairness

-----------------------------------------------------------------------------
(* Properties.                                                             *)

TypeOK ==
  /\ PlannerTypeOK
  /\ Executor!ExecutorTypeOK(Target, Slots)
  /\ head \in Boxes \cup {NoBox}
  /\ arrived \in 0..NumBoxes
  /\ beltHeld \in BOOLEAN
  /\ idQ \in Seq(Boxes \cup {NoBox})
  /\ Len(idQ) <= Depth
  /\ posesOut \in 0..Depth
  /\ budget \in [{"restart", "crash", "failure", "reset"} -> Nat]
  /\ grasps \in [Boxes -> Nat]

OnPallet == {b \in Boxes : where[b] \in Slots}
FilledSlots == {where[b] : b \in OnPallet}

\* No two boxes are ever put into the same cell of the pallet: the planner
\* hands out slots one by one (pallet_planner.cpp tryAssign, onResult), the
\* executor places at most one box per target.
OneBoxPerCell ==
  \A a, b \in OnPallet : CellOf(where[a]) = CellOf(where[b]) => a = b

\* The pattern grows without holes (pallet_planner.cpp:12-13): the filled
\* slots are a prefix of the pattern, and the planner's count is behind by at
\* most the box whose result it has not seen.
NoHole ==
  \E n \in {nextSlot, nextSlot + 1} : FilledSlots = 0..n - 1

\* Every box above the first layer stands on a box of the layer below, in
\* the same row and column: the order of the slots builds the stack upwards.
Supported ==
  \A b \in OnPallet : CellOf(where[b]).layer > 0 =>
    \E a \in OnPallet :
      CellOf(where[a]) = [CellOf(where[b]) EXCEPT !.layer = @ - 1]

\* No box is grabbed twice (palletizer_node.cpp:8-9), although the planner
\* re-sends its target every second and the executor remembers only the box
\* it is busy with and the last one it finished.
GraspedOnce == \A b \in Boxes : grasps[b] <= 1

\* Whatever the executor works on is still the planner's pending target: the
\* two agree through all re-sends, and the result will be credited to the
\* slot that was filled.
AgreeOnTarget ==
  pc \in {"taken", "publish"} \cup Executor!InCycle => pending = current

\* The arm is only near the pick point while the belt was told to stop, and
\* a failed cycle leaves it told so (palletizer_node.cpp:92-97).
HeldWhileArmWorks ==
  pc \in {"held", "carry", "retreat"} \/ (pc \in {"publish", "settle", "halted"} /\ ~ok)
    => hold

\* The gripper holds at most one box.
GripperHoldsOne ==
  \A a, b \in Boxes :
    where[a] = Executor!InGripper /\ where[b] = Executor!InGripper => a = b

\* The four of them at every moment of the loading, also after the failed cycle
\* that stops it.
SoundLoading == OneBoxPerCell /\ NoHole /\ Supported /\ GripperHoldsOne

\* After a failed cycle the slot of its target is free for the next box, as
\* the planner reports ("Slot %u stays free", pallet_planner.cpp:292): no box
\* is in the slot the planner would assign next once a failure is recorded.
FailedSlotStaysFree ==
  failedIds # {} /\ pending = NoTarget => nextSlot \notin FilledSlots

\* A slot is consumed only when the executor reports success for it
\* (pallet_planner.cpp:12), and the slots are consumed one by one.
ConsumedByItsResult ==
  [][nextSlot' > nextSlot =>
       /\ nextSlot' = nextSlot + 1
       /\ resultQ # <<>>
       /\ Head(resultQ).success
       /\ Head(resultQ).slot = nextSlot]_vars

\* Boxes end up on the pallet in belt order: the refinement of PalletLoading.
Stack == [i \in 1..Cardinality(FilledSlots) |->
            CHOOSE b \in OnPallet : where[b] = i - 1]
Gripper == IF \E b \in Boxes : where[b] = Executor!InGripper
           THEN CHOOSE b \in Boxes : where[b] = Executor!InGripper
           ELSE NoBox

Loading == INSTANCE PalletLoading WITH stack <- Stack, gripper <- Gripper, Nothing <- NoBox
LoadingSpec == Loading!Spec

\* Every box the belt has and some pallet has room for is placed and counted,
\* also on the pallets that follow a ~/reset the planner asked for, and also
\* when the executor is killed and started again.
PalletFills ==
  <>[]LET left == NumBoxes - Capacity * (MaxResets - budget.reset)
          n == IF left < Capacity THEN left ELSE Capacity
      IN nextSlot = n /\ FilledSlots = 0..n - 1
=============================================================================
