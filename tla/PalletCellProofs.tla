--------------------------- MODULE PalletCellProofs ---------------------------
(***************************************************************************)
(* Proofs about PalletCell, for every pallet size, number of boxes, queue  *)
(* depth and number of failures, restarts, crashes and resets.             *)
(***************************************************************************)
EXTENDS PalletCell, TopicTheorems

-----------------------------------------------------------------------------
(* The grid.                                                               *)

LEMMA GridType == PerLayer \in Nat \ {0} /\ Capacity \in Nat \ {0}
<1>1. \A m, n \in Nat \ {0} : m * n \in Nat \ {0}
  OBVIOUS
<1>2. PerLayer \in Nat \ {0}
  BY <1>1, GridAssumption DEF PerLayer
<1> QED BY <1>1, <1>2, GridAssumption DEF Capacity

\* Different slots are different cells.
LEMMA CellsDiffer ==
  ASSUME NEW s \in Slots, NEW t \in Slots, CellOf(s) = CellOf(t)
  PROVE  s = t
<1>1. s \in Nat /\ t \in Nat /\ PerLayer \in Nat \ {0} /\ Cols \in Nat \ {0}
  BY GridType, GridAssumption DEF Slots
<1>2. /\ s \div PerLayer = t \div PerLayer
      /\ (s % PerLayer) \div Cols = (t % PerLayer) \div Cols
      /\ (s % PerLayer) % Cols = (t % PerLayer) % Cols
  BY DEF CellOf
<1> DEFINE x == s % PerLayer
           y == t % PerLayer
<1>3. x \in Nat /\ y \in Nat
  BY <1>1, DivMod
<1>4. x = Cols * (x \div Cols) + (x % Cols) /\ y = Cols * (y \div Cols) + (y % Cols)
  BY <1>1, <1>3, DivMod
<1>5. x = y
  BY <1>2, <1>4
<1>6. s = PerLayer * (s \div PerLayer) + x /\ t = PerLayer * (t \div PerLayer) + y
  BY <1>1, DivMod
<1> QED BY <1>2, <1>5, <1>6

\* The slot below: same row, same column, one layer down.
LEMMA CellBelow ==
  ASSUME NEW s \in Slots, CellOf(s).layer > 0
  PROVE  /\ s - PerLayer \in Slots
         /\ CellOf(s - PerLayer) = [CellOf(s) EXCEPT !.layer = @ - 1]
<1>1. s \in Nat /\ PerLayer \in Nat \ {0} /\ Capacity \in Nat
  BY GridType DEF Slots
<1> DEFINE q == s \div PerLayer
           r == s % PerLayer
<1>2. q \in Nat /\ r \in 0..PerLayer - 1 /\ s = PerLayer * q + r
  BY <1>1, DivMod
<1>3. q > 0
  BY DEF CellOf
<1> HIDE DEF q, r
<1>4. PICK p \in Nat : q = p + 1
  <2>1. q - 1 \in Nat /\ q = (q - 1) + 1
    BY <1>2, <1>3
  <2> QED BY <2>1
<1>5. PerLayer * q = PerLayer * p + PerLayer /\ PerLayer * p \in Nat
  BY <1>1, <1>4
<1> DEFINE t == s - PerLayer
<1>6. t = PerLayer * p + r /\ t \in Nat /\ t < s
  BY <1>1, <1>2, <1>5
<1> HIDE DEF t
<1>7. t \div PerLayer \in Nat /\ t % PerLayer \in 0..PerLayer - 1
      /\ t = PerLayer * (t \div PerLayer) + (t % PerLayer)
  BY <1>1, <1>6, DivMod
<1>8. t \div PerLayer = p /\ t % PerLayer = r
  BY <1>1, <1>2, <1>6, <1>7, DivModUnique
<1>9. CellOf(t) = [CellOf(s) EXCEPT !.layer = @ - 1]
  <2>1. q - 1 = p
    BY <1>4
  <2> QED BY <1>8, <2>1 DEF CellOf, q, r
<1>10. t \in Slots
  BY <1>1, <1>6 DEF Slots
<1> QED BY <1>9, <1>10 DEF t

LEMMA NoTargetIsNone == NoTarget \notin Target
<1>1. Target \subseteq [box : Boxes, slot : Nat]
  BY GridType DEF Target
<1> QED BY <1>1, PlannerAssumption

\* The status never shows a layer the pallet does not have.
LEMMA StatusType ==
  ASSUME NEW slot \in 0..Capacity, NEW target \in Target \cup {NoTarget}
  PROVE  StatusOf(slot, target) \in PalletStatus
<1> DEFINE l == slot \div PerLayer
<1>1. l \in Nat
  BY GridType
<1>2. (IF l < Layers - 1 THEN l ELSE Layers - 1) \in 0..Layers - 1
  BY <1>1, GridAssumption
<1>3. (IF target = NoTarget THEN NoBox ELSE target.box) \in Boxes \cup {NoBox}
  BY DEF Target
<1>4. (slot >= Capacity) \in BOOLEAN
  OBVIOUS
<1> QED BY <1>2, <1>3, <1>4 DEF StatusOf, PalletStatus

-----------------------------------------------------------------------------
(* Types.  TypeOK is not inductive by itself: a result may only advance    *)
(* next_slot_ because a pending target is always for the next slot, and    *)
(* run() may only use its local t where waitForTarget() has filled it.     *)

Working == {"taken", "publish", "settle"} \cup Executor!InCycle

PlannerInv ==
  /\ PlannerTypeOK
  /\ pending # NoTarget => pending.slot = nextSlot

ExecutorInv ==
  /\ Executor!ExecutorTypeOK(Target, Slots)
  /\ pc \in Working => current \in Target

BeltInv ==
  /\ head \in Boxes \cup {NoBox}
  /\ arrived \in 0..NumBoxes
  /\ beltHeld \in BOOLEAN
  /\ idQ \in Seq(Boxes \cup {NoBox})
  /\ Len(idQ) <= Depth
  /\ posesOut \in 0..Depth

AuxInv ==
  /\ budget \in [{"restart", "crash", "failure", "reset"} -> Nat]
  /\ grasps \in [Boxes -> Nat]

TypeInv == PlannerInv /\ ExecutorInv /\ BeltInv /\ AuxInv

LEMMA TypeInvImplies == TypeInv => TypeOK
  BY DEF TypeInv, PlannerInv, ExecutorInv, BeltInv, AuxInv, TypeOK

LEMMA TypeInvInit == Init => TypeInv
<1> SUFFICES ASSUME Init PROVE TypeInv
  OBVIOUS
<1> USE DEF Init, PlannerInit, Executor!ExecutorInit
<1>1. PlannerInv
  <2>1. StatusOf(0, NoTarget) \in PalletStatus
    BY StatusType, GridType
  <2>2. targetQ \in Seq(Target) /\ Len(targetQ) <= Depth
    BY EmptySeq, PlannerAssumption
  <2>3. nextSlot \in 0..Capacity /\ palletSends \in 0..MaxPalletSends
    BY GridType, PlannerAssumption
  <2>4. pending = NoTarget /\ poseFresh \in BOOLEAN /\ failedIds \subseteq Boxes
    OBVIOUS
  <2>5. atPickId \in Boxes \cup {NoBox} /\ lastPlacedId \in Boxes \cup {NoBox}
    OBVIOUS
  <2>6. status \in PalletStatus
    BY <2>1
  <2> HIDE DEF Init, PlannerInit
  <2> QED BY <2>2, <2>3, <2>4, <2>5, <2>6 DEF PlannerInv, PlannerTypeOK
<1>2. ExecutorInv
  <2>1. resultQ \in Seq([box : Boxes, slot : Slots, success : BOOLEAN]) /\ Len(resultQ) <= Depth
    BY EmptySeq, PlannerAssumption
  <2> QED BY <2>1 DEF ExecutorInv, Executor!ExecutorTypeOK, Working, Executor!InCycle, Executor!Carrying
<1>3. BeltInv
  <2>1. idQ \in Seq(Boxes \cup {NoBox}) /\ Len(idQ) <= Depth
    BY EmptySeq, PlannerAssumption
  <2>2. arrived \in 0..NumBoxes /\ posesOut \in 0..Depth
    BY CellAssumption, PlannerAssumption
  <2>3. head \in Boxes \cup {NoBox} /\ beltHeld \in BOOLEAN
    OBVIOUS
  <2> HIDE DEF Init
  <2> QED BY <2>1, <2>2, <2>3 DEF BeltInv
<1>4. AuxInv
  BY CellAssumption DEF AuxInv
<1> QED BY <1>1, <1>2, <1>3, <1>4 DEF TypeInv

\* tryAssign() keeps the planner's types, given that its caller left the
\* variables it reads well typed and the slot free.
LEMMA TryAssignType ==
  ASSUME PlannerInv,
         nextSlot' \in 0..Capacity,
         atPickId' \in Boxes \cup {NoBox},
         NEW target \in Target \cup {NoTarget},
         target # NoTarget => target.slot = nextSlot',
         NEW shown \in PalletStatus,
         TryAssign(target, shown)
  PROVE  /\ pending' \in Target \cup {NoTarget}
         /\ pending' # NoTarget => pending'.slot = nextSlot'
         /\ status' \in PalletStatus
         /\ targetQ' \in Seq(Target)
         /\ Len(targetQ') <= Depth
<1>0. targetQ \in Seq(Target) /\ Len(targetQ) <= Depth
  BY DEF PlannerInv, PlannerTypeOK
<1>1. CASE Assignable(target)
  <2>1. pending' = [box |-> atPickId', slot |-> nextSlot']
    BY <1>1 DEF TryAssign
  <2>2. atPickId' \in Boxes /\ nextSlot' \in 0..Capacity - 1
    BY <1>1, GridType DEF Assignable
  <2>3. pending' \in Target /\ pending'.slot = nextSlot'
    BY <2>1, <2>2 DEF Target
  <2>4. targetQ' = Publish(targetQ, pending', Depth) /\ status' = StatusOf(nextSlot', pending')
    BY <1>1 DEF TryAssign
  <2>5. targetQ' \in Seq(Target) /\ Len(targetQ') <= Depth
    BY <1>0, <2>3, <2>4, PublishType, PlannerAssumption
  <2> QED BY <2>3, <2>4, <2>5, StatusType
<1>2. CASE ~Assignable(target)
  <2>1. pending' = target /\ status' = shown /\ targetQ' = targetQ
    BY <1>2 DEF TryAssign
  <2> QED BY <1>0, <2>1
<1> QED BY <1>1, <1>2

LEMMA OnAtPickType ==
  ASSUME PlannerInv, NEW id \in Boxes \cup {NoBox}, OnAtPick(id)
  PROVE  PlannerInv'
<1>1. TryAssign(pending, status) /\ atPickId' = id
  BY DEF OnAtPick
<1>2. UNCHANGED <<nextSlot, lastPlacedId, failedIds, poseFresh, palletSends>>
  BY DEF OnAtPick
<1>3. /\ pending' \in Target \cup {NoTarget}
      /\ pending' # NoTarget => pending'.slot = nextSlot'
      /\ status' \in PalletStatus
      /\ targetQ' \in Seq(Target)
      /\ Len(targetQ') <= Depth
  BY <1>1, <1>2, TryAssignType DEF PlannerInv, PlannerTypeOK
<1> QED BY <1>1, <1>2, <1>3 DEF PlannerInv, PlannerTypeOK

LEMMA OnPickPoseType ==
  ASSUME PlannerInv, OnPickPose
  PROVE  PlannerInv'
<1>1. TryAssign(pending, status) /\ poseFresh' = TRUE
  BY DEF OnPickPose
<1>2. UNCHANGED <<nextSlot, atPickId, lastPlacedId, failedIds, palletSends>>
  BY DEF OnPickPose
<1>3. /\ pending' \in Target \cup {NoTarget}
      /\ pending' # NoTarget => pending'.slot = nextSlot'
      /\ status' \in PalletStatus
      /\ targetQ' \in Seq(Target)
      /\ Len(targetQ') <= Depth
  BY <1>1, <1>2, TryAssignType DEF PlannerInv, PlannerTypeOK
<1> QED BY <1>1, <1>2, <1>3 DEF PlannerInv, PlannerTypeOK

LEMMA OnResultType ==
  ASSUME PlannerInv,
         NEW r \in [box : Boxes, slot : Slots, success : BOOLEAN],
         OnResult(r)
  PROVE  PlannerInv'
<1>1. UNCHANGED <<atPickId, poseFresh, palletSends>>
  BY DEF OnResult
<1>2. CASE IsPending(r)
  <2>1. pending \in Target /\ pending.slot = nextSlot
    BY <1>2 DEF IsPending, PlannerInv, PlannerTypeOK
  <2>2. nextSlot \in 0..Capacity - 1
    BY <2>1 DEF Target
  <2>3. nextSlot' \in 0..Capacity
    BY <1>2, <2>2, GridType DEF OnResult, Credit
  <2>4. failedIds' \subseteq Boxes /\ lastPlacedId' \in Boxes \cup {NoBox}
    BY <1>2 DEF OnResult, Credit, PlannerInv, PlannerTypeOK
  <2>5. TryAssign(NoTarget, StatusOf(nextSlot', NoTarget))
    BY <1>2 DEF OnResult
  <2>6. /\ pending' \in Target \cup {NoTarget}
        /\ pending' # NoTarget => pending'.slot = nextSlot'
        /\ status' \in PalletStatus
        /\ targetQ' \in Seq(Target)
        /\ Len(targetQ') <= Depth
    <3>1. StatusOf(nextSlot', NoTarget) \in PalletStatus
      BY <2>3, StatusType
    <3>2. atPickId' \in Boxes \cup {NoBox}
      BY <1>1 DEF PlannerInv, PlannerTypeOK
    <3> QED BY <2>3, <2>5, <3>1, <3>2, TryAssignType
  <2> QED BY <1>1, <2>3, <2>4, <2>6 DEF PlannerInv, PlannerTypeOK
<1>3. CASE ~IsPending(r)
  BY <1>1, <1>3 DEF OnResult, PlannerInv, PlannerTypeOK
<1> QED BY <1>2, <1>3

LEMMA ResetType ==
  ASSUME PlannerInv, Reset
  PROVE  PlannerInv'
<1>1. status' \in PalletStatus
  BY StatusType, GridType DEF Reset
<1>2. nextSlot' \in 0..Capacity
  BY GridType DEF Reset
<1>3. /\ pending' = NoTarget /\ failedIds' = {} /\ lastPlacedId' = NoBox
      /\ UNCHANGED <<atPickId, poseFresh, palletSends, targetQ>>
  BY DEF Reset
<1> QED BY <1>1, <1>2, <1>3 DEF PlannerInv, PlannerTypeOK

LEMMA TickType ==
  ASSUME PlannerInv, NEW sceneUp \in BOOLEAN, Tick(sceneUp)
  PROVE  PlannerInv'
<1>1. UNCHANGED <<nextSlot, pending, atPickId, lastPlacedId, failedIds, poseFresh, status>>
  BY DEF Tick
<1>2. targetQ' \in Seq(Target) /\ Len(targetQ') <= Depth
  <2>1. targetQ \in Seq(Target) /\ Len(targetQ) <= Depth /\ pending \in Target \cup {NoTarget}
    BY DEF PlannerInv, PlannerTypeOK
  <2>2. targetQ' = IF pending # NoTarget THEN Publish(targetQ, pending, Depth) ELSE targetQ
    BY DEF Tick
  <2> QED BY <2>1, <2>2, PublishType, PlannerAssumption
<1>3. palletSends' \in 0..MaxPalletSends
  BY PlannerAssumption DEF Tick, PlannerInv, PlannerTypeOK
<1> QED BY <1>1, <1>2, <1>3 DEF PlannerInv, PlannerTypeOK

LEMMA PlannerFrame ==
  ASSUME PlannerInv, UNCHANGED plannerVars
  PROVE  PlannerInv'
  BY DEF PlannerInv, PlannerTypeOK, plannerVars

\* The executor's steps, one by one.
LEMMA ExecutorFrame ==
  ASSUME ExecutorInv, UNCHANGED executorOnly
  PROVE  ExecutorInv'
  BY DEF ExecutorInv, Executor!ExecutorTypeOK, executorOnly

LEMMA OnTargetType ==
  ASSUME ExecutorInv, NEW t \in Target, Executor!OnTarget(t)
  PROVE  ExecutorInv'
  BY DEF ExecutorInv, Executor!ExecutorTypeOK, Executor!OnTarget

LEMMA StartType ==
  ASSUME ExecutorInv, Executor!Start
  PROVE  ExecutorInv'
  BY DEF ExecutorInv, Executor!ExecutorTypeOK, Executor!Start, Working,
         Executor!InCycle, Executor!Carrying

LEMMA RunStepType ==
  ASSUME ExecutorInv, Executor!RunStep
  PROVE  ExecutorInv'
<1> USE DEF ExecutorInv, Executor!ExecutorTypeOK, Working, Executor!InCycle, Executor!Carrying
<1>1. CASE Executor!ReleaseAtStart
  BY <1>1 DEF Executor!ReleaseAtStart
<1>2. CASE Executor!TakeTarget
  <2>1. next \in Target
    BY <1>2 DEF Executor!TakeTarget
  <2> QED BY <1>2, <2>1 DEF Executor!TakeTarget, Target
<1>3. CASE Executor!HoldBelt
  BY <1>3 DEF Executor!HoldBelt
<1>4. CASE Executor!Grasp
  BY <1>4 DEF Executor!Grasp
<1>5. CASE Executor!PutDown
  <2>1. current.slot \in Slots
    BY <1>5 DEF Executor!PutDown, Target, Slots
  <2> QED BY <1>5, <2>1 DEF Executor!PutDown
<1>6. CASE Executor!Retreat
  BY <1>6 DEF Executor!Retreat
<1>7. CASE Executor!ReleaseBelt
  BY <1>7 DEF Executor!ReleaseBelt
<1>8. CASE Executor!PublishResult
  <2> DEFINE r == [box |-> current.box, slot |-> current.slot, success |-> ok]
             R == [box : Boxes, slot : Slots, success : BOOLEAN]
  <2>1. current \in Target /\ ok \in BOOLEAN
    BY <1>8 DEF Executor!PublishResult
  <2>2. r \in R
    BY <2>1 DEF Target, Slots
  <2>3. resultQ \in Seq(R) /\ Len(resultQ) <= Depth
    OBVIOUS
  <2>4. resultQ' = Publish(resultQ, r, Depth)
    BY <1>8 DEF Executor!PublishResult, Executor!Publish, Publish
  <2> HIDE DEF r, R
  <2>5. resultQ' \in Seq(R) /\ Len(resultQ') <= Depth
    BY <2>2, <2>3, <2>4, PublishType, PlannerAssumption
  <2> USE DEF R
  <2> QED BY <1>8, <2>5 DEF Executor!PublishResult
<1>9. CASE Executor!Settle
  BY <1>9 DEF Executor!Settle, Target
<1> QED BY <1>1, <1>2, <1>3, <1>4, <1>5, <1>6, <1>7, <1>8, <1>9 DEF Executor!RunStep

LEMMA MotionFailsType ==
  ASSUME ExecutorInv, Executor!MotionFails
  PROVE  ExecutorInv'
  BY DEF ExecutorInv, Executor!ExecutorTypeOK, Executor!MotionFails, Working,
         Executor!InCycle, Executor!Carrying

LEMMA TypeInvNext == TypeInv /\ [Next]_vars => TypeInv'
<1> SUFFICES ASSUME TypeInv, [Next]_vars
             PROVE  TypeInv'
  OBVIOUS
<1>0. PlannerInv /\ ExecutorInv /\ BeltInv /\ AuxInv
  BY DEF TypeInv
<1>1. CASE BoxArrives
  <2>1. UNCHANGED plannerVars /\ UNCHANGED auxVars
    BY <1>1 DEF BoxArrives, plannerVars, auxVars
  <2>2. arrived + 1 \in Boxes /\ arrived + 1 \in 0..NumBoxes
    BY <1>0, <1>1, CellAssumption DEF BoxArrives, BeltInv
  <2>3. ExecutorInv'
    BY <1>0, <1>1, <2>2 DEF BoxArrives, ExecutorInv, Executor!ExecutorTypeOK, AtPick
  <2>4. BeltInv'
    BY <1>0, <1>1, <2>2 DEF BoxArrives, BeltInv
  <2> QED BY <1>0, <2>1, <2>3, <2>4, PlannerFrame DEF TypeInv, AuxInv, auxVars
<1>2. CASE BoxCleared
  BY <1>0, <1>2, PlannerFrame, ExecutorFrame DEF BoxCleared, TypeInv, BeltInv, AuxInv, auxVars
<1>3. CASE ReportLead
  <2>1. idQ' \in Seq(Boxes \cup {NoBox}) /\ Len(idQ') <= Depth
    BY <1>0, <1>3, PublishType, PlannerAssumption DEF ReportLead, BeltInv
  <2>2. posesOut' \in 0..Depth
    BY <1>0, <1>3, PlannerAssumption DEF ReportLead, BeltInv
  <2> QED BY <1>0, <1>3, <2>1, <2>2, PlannerFrame, ExecutorFrame
          DEF ReportLead, TypeInv, BeltInv, AuxInv, auxVars
<1>4. CASE HoldReachesBelt
  BY <1>0, <1>4, PlannerFrame, ExecutorFrame
  DEF HoldReachesBelt, TypeInv, BeltInv, AuxInv, auxVars, ExecutorInv, Executor!ExecutorTypeOK
<1>5. CASE DeliverAtPick
  <2>1. Head(idQ) \in Boxes \cup {NoBox} /\ Tail(idQ) \in Seq(Boxes \cup {NoBox})
        /\ Len(Tail(idQ)) <= Depth
    BY <1>0, <1>5, DeliverType, PlannerAssumption DEF DeliverAtPick, BeltInv
  <2>2. PlannerInv'
    BY <1>0, <1>5, <2>1, OnAtPickType DEF DeliverAtPick
  <2> QED BY <1>0, <1>5, <2>1, <2>2, ExecutorFrame DEF DeliverAtPick, TypeInv, BeltInv, AuxInv, auxVars
<1>6. CASE DeliverPickPose
  <2>1. PlannerInv'
    BY <1>0, <1>6, OnPickPoseType DEF DeliverPickPose
  <2>2. posesOut' \in 0..Depth
    BY <1>0, <1>6, PlannerAssumption DEF DeliverPickPose, BeltInv
  <2> QED BY <1>0, <1>6, <2>1, <2>2, ExecutorFrame DEF DeliverPickPose, TypeInv, BeltInv, AuxInv, auxVars
<1>7. CASE PickPoseExpires
  <2>1. PlannerInv'
    BY <1>0, <1>7 DEF PickPoseExpires, PoseExpires, PlannerInv, PlannerTypeOK
  <2> QED BY <1>0, <1>7, <2>1, ExecutorFrame DEF PickPoseExpires, TypeInv, BeltInv, AuxInv, auxVars, beltVars
<1>8. CASE DeliverResult
  <2> DEFINE R == [box : Boxes, slot : Slots, success : BOOLEAN]
  <2>1. resultQ \in Seq(R) /\ Len(resultQ) <= Depth /\ resultQ # <<>>
    BY <1>0, <1>8 DEF DeliverResult, ExecutorInv, Executor!ExecutorTypeOK
  <2> HIDE DEF R
  <2>2. Head(resultQ) \in R /\ Tail(resultQ) \in Seq(R) /\ Len(Tail(resultQ)) <= Depth
    BY <2>1, DeliverType, PlannerAssumption
  <2> USE DEF R
  <2>3. PlannerInv'
    BY <1>0, <1>8, <2>2, OnResultType DEF DeliverResult
  <2>4. ExecutorInv'
    BY <1>0, <1>8, <2>2 DEF DeliverResult, ExecutorInv, Executor!ExecutorTypeOK
  <2> QED BY <1>0, <1>8, <2>3, <2>4 DEF DeliverResult, TypeInv, BeltInv, AuxInv, auxVars, beltVars
<1>9. CASE PlannerTick
  BY <1>0, <1>9, TickType, ExecutorFrame DEF PlannerTick, TypeInv, BeltInv, AuxInv, auxVars, beltVars
<1>10. CASE UnloadAndReset
  <2>1. PlannerInv'
    BY <1>0, <1>10, ResetType DEF UnloadAndReset
  <2>2. ExecutorInv'
    BY <1>0, <1>10 DEF UnloadAndReset, ExecutorInv, Executor!ExecutorTypeOK
  <2>3. AuxInv'
    BY <1>0, <1>10 DEF UnloadAndReset, Spend, AuxInv
  <2> QED BY <1>0, <1>10, <2>1, <2>2, <2>3 DEF UnloadAndReset, TypeInv, BeltInv, beltVars
<1>11. CASE DeliverTarget
  <2>1. targetQ \in Seq(Target) /\ Len(targetQ) <= Depth /\ targetQ # <<>>
    BY <1>0, <1>11 DEF DeliverTarget, PlannerInv, PlannerTypeOK
  <2>2. Head(targetQ) \in Target /\ Tail(targetQ) \in Seq(Target) /\ Len(Tail(targetQ)) <= Depth
    BY <2>1, DeliverType, PlannerAssumption
  <2>3. PlannerInv'
    BY <1>0, <1>11, <2>2 DEF DeliverTarget, PlannerInv, PlannerTypeOK
  <2>4. ExecutorInv'
    BY <1>0, <1>11, <2>2, OnTargetType DEF DeliverTarget
  <2> QED BY <1>0, <1>11, <2>3, <2>4 DEF DeliverTarget, TypeInv, BeltInv, AuxInv, auxVars, beltVars
<1>12. CASE StartExecutor
  <2>1. targetQ' \in Seq(Target) /\ Len(targetQ') <= Depth
    BY <1>12, EmptySeq, PlannerAssumption DEF StartExecutor
  <2>2. PlannerInv'
    BY <1>0, <1>12, <2>1 DEF StartExecutor, PlannerInv, PlannerTypeOK
  <2> QED BY <1>0, <1>12, <2>2, StartType DEF StartExecutor, TypeInv, BeltInv, AuxInv, auxVars, beltVars
<1>13. CASE RunStep
  <2>1. grasps' \in [Boxes -> Nat]
    <3>1. CASE pc = "held"
      <4>1. grasps' = [grasps EXCEPT ![current.box] = @ + 1]
        BY <1>13, <3>1 DEF RunStep
      <4>2. current.box \in Boxes /\ grasps[current.box] \in Nat
        BY <1>0, <3>1 DEF ExecutorInv, AuxInv, Working, Executor!InCycle, Target
      <4>3. grasps[current.box] + 1 \in Nat
        BY <4>2
      <4> QED BY <1>0, <4>1, <4>2, <4>3 DEF AuxInv
    <3>2. CASE pc # "held"
      BY <1>0, <1>13, <3>2 DEF RunStep, AuxInv
    <3> QED BY <3>1, <3>2
  <2>2. grasps' \in [Boxes -> Nat] /\ budget' = budget
    BY <2>1, <1>13 DEF RunStep
  <2>3. AuxInv'
    BY <1>0, <2>2 DEF AuxInv
  <2> QED BY <1>0, <1>13, <2>3, RunStepType, PlannerFrame DEF RunStep, TypeInv, BeltInv, beltVars
<1>14. CASE MotionFails
  <2>1. AuxInv'
    BY <1>0, <1>14 DEF MotionFails, Spend, AuxInv
  <2> QED BY <1>0, <1>14, <2>1, MotionFailsType, PlannerFrame DEF MotionFails, TypeInv, BeltInv, beltVars
<1>15. CASE RestartAfterFailure
  <2>1. AuxInv'
    BY <1>0, <1>15 DEF RestartAfterFailure, Spend, AuxInv
  <2>2. ExecutorInv'
    BY <1>0, <1>15 DEF RestartAfterFailure, Executor!Exit, ExecutorInv, Executor!ExecutorTypeOK,
       Working, Executor!InCycle, Executor!Carrying
  <2> QED BY <1>0, <1>15, <2>1, <2>2, PlannerFrame DEF RestartAfterFailure, TypeInv, BeltInv, beltVars
<1>16. CASE ExecutorCrashes
  <2> DEFINE R == [box : Boxes, slot : Slots, success : BOOLEAN]
  <2>1. AuxInv'
    BY <1>0, <1>16 DEF ExecutorCrashes, Spend, AuxInv
  <2>2. resultQ' \in Seq(R) /\ Len(resultQ') <= Depth
    <3>1. resultQ \in Seq(R) /\ Len(resultQ) <= Depth
      BY <1>0 DEF ExecutorInv, Executor!ExecutorTypeOK
    <3>2. PICK n \in 0..Len(resultQ) : resultQ' = SubSeq(resultQ, 1, n)
      BY <1>16 DEF ExecutorCrashes
    <3> HIDE DEF R
    <3>3. SubSeq(resultQ, 1, n) \in Seq(R) /\ Len(SubSeq(resultQ, 1, n)) = n
      BY <3>1, SubSeqProperties, LenProperties
    <3> QED BY <3>1, <3>2, <3>3, PlannerAssumption, LenProperties
  <2>3. ExecutorInv'
    BY <1>0, <1>16, <2>2 DEF ExecutorCrashes, Executor!Crash, ExecutorInv, Executor!ExecutorTypeOK,
       Working, Executor!InCycle, Executor!Carrying
  <2> QED BY <1>0, <1>16, <2>1, <2>3, PlannerFrame DEF ExecutorCrashes, TypeInv, BeltInv, beltVars
<1>17. CASE UNCHANGED vars
  BY <1>0, <1>17, PlannerFrame, ExecutorFrame DEF vars, TypeInv, BeltInv, AuxInv, beltVars, auxVars
<1> QED BY <1>1, <1>2, <1>3, <1>4, <1>5, <1>6, <1>7, <1>8, <1>9, <1>10, <1>11, <1>12,
           <1>13, <1>14, <1>15, <1>16, <1>17 DEF Next

\* Every variable of the cell keeps its type, whatever fails, restarts, crashes
\* or is reset: the planner's slot stays on the pallet, the topics keep within
\* their depth, and run() never uses a target it has not got.
THEOREM TypeCorrect == Spec => []TypeOK
<1>1. Init => TypeInv
  BY TypeInvInit
<1>2. TypeInv /\ [Next]_vars => TypeInv'
  BY TypeInvNext
<1>3. TypeInv => TypeOK
  BY TypeInvImplies
<1> QED BY <1>1, <1>2, <1>3, PTL DEF Spec

-----------------------------------------------------------------------------
(* The belt is held while the arm works.  setHold(false) after a cycle is  *)
(* only reached with ok set, which is what makes the property inductive.   *)

HeldInv == HeldWhileArmWorks /\ (pc = "release" => ok)

LEMMA HeldFrame ==
  ASSUME HeldInv, UNCHANGED <<pc, ok, hold>>
  PROVE  HeldInv'
  BY DEF HeldInv, HeldWhileArmWorks

LEMMA HeldNext == HeldInv /\ [Next]_vars => HeldInv'
<1> SUFFICES ASSUME HeldInv, [Next]_vars PROVE HeldInv'
  OBVIOUS
<1> USE DEF HeldInv, HeldWhileArmWorks
<1>1. CASE RunStep
  <2>1. CASE Executor!ReleaseAtStart \/ Executor!TakeTarget \/ Executor!HoldBelt
    BY <2>1 DEF Executor!ReleaseAtStart, Executor!TakeTarget, Executor!HoldBelt
  <2>2. CASE Executor!Grasp \/ Executor!PutDown \/ Executor!Retreat
    BY <2>2 DEF Executor!Grasp, Executor!PutDown, Executor!Retreat
  <2>3. CASE Executor!ReleaseBelt \/ Executor!PublishResult \/ Executor!Settle
    BY <2>3 DEF Executor!ReleaseBelt, Executor!PublishResult, Executor!Settle
  <2> QED BY <1>1, <2>1, <2>2, <2>3 DEF RunStep, Executor!RunStep
<1>2. CASE StartExecutor \/ MotionFails \/ RestartAfterFailure \/ ExecutorCrashes
  BY <1>2 DEF StartExecutor, Executor!Start, MotionFails, Executor!MotionFails,
     RestartAfterFailure, Executor!Exit, ExecutorCrashes, Executor!Crash
<1>3. CASE DeliverTarget \/ DeliverResult \/ BoxArrives \/ UnloadAndReset
  BY <1>3, HeldFrame DEF DeliverTarget, Executor!OnTarget, DeliverResult, BoxArrives, UnloadAndReset
<1>4. CASE \/ BoxCleared \/ ReportLead \/ HoldReachesBelt \/ DeliverAtPick \/ DeliverPickPose
           \/ PickPoseExpires \/ PlannerTick \/ UNCHANGED vars
  BY <1>4, HeldFrame DEF BoxCleared, ReportLead, HoldReachesBelt, DeliverAtPick, DeliverPickPose,
     PickPoseExpires, PlannerTick, vars, executorOnly
<1> QED BY <1>1, <1>2, <1>3, <1>4 DEF Next

\* The belt was told to stop whenever the arm is near the pick point, and
\* stays told so after a failed cycle, through any number of kills and
\* restarts: a new process releases the belt only before it takes a target.
THEOREM BeltHeld == Spec => []HeldWhileArmWorks
<1>1. Init => HeldInv
  BY DEF Init, Executor!ExecutorInit, HeldInv, HeldWhileArmWorks
<1>2. HeldInv /\ [Next]_vars => HeldInv'
  BY HeldNext
<1>3. HeldInv => HeldWhileArmWorks
  BY DEF HeldInv
<1> QED BY <1>1, <1>2, <1>3, PTL DEF Spec

-----------------------------------------------------------------------------
(* The handover of targets from planner to executor and of results back,   *)
(* for a cell whose executor is not killed and whose pallet is not reset:  *)
(* planner and executor agree on the target that is worked on.             *)

\* Neither ~/reset nor kill -9; a failed cycle and its restart are allowed.
Undisturbed == MaxCrashes = 0 /\ MaxResets = 0

BudgetInv == budget.crash = 0 /\ budget.reset = 0

Busy    == {"taken", "held", "carry", "retreat", "release", "publish"}
Between == {"start", "waiting", "settle", "halted"}

\* The box whose cycle ended last, as far as this process remembers.
LastBox == IF pc = "settle" THEN current.box ELSE doneId

\* The planner will not assign box b (again).
Dealt(b) == b = lastPlacedId \/ b \in failedIds

\* During a cycle nothing but re-sent copies of its target is under way.
BusyInv ==
  pc \in Busy =>
    /\ next = NoTarget
    /\ resultQ = <<>>
    /\ pending = current
    /\ busyId = current.box
    /\ \A i \in 1..Len(targetQ) : targetQ[i] = pending

\* Between two cycles the queue holds copies of the old target before copies
\* of the new one.
QueueInv ==
  /\ \A i \in 1..Len(targetQ) : targetQ[i] = pending \/ targetQ[i].box = LastBox
  /\ \A i, j \in 1..Len(targetQ) :
       i < j /\ targetQ[i].box # LastBox => targetQ[j].box # LastBox

\* Once the executor has a new target, the result of the old one is credited.
NextInv ==
  next # NoTarget =>
    /\ resultQ = <<>>
    /\ next = pending
    /\ \A i \in 1..Len(targetQ) : targetQ[i] = pending

\* The result under way is the one the planner waits for.
ResultInv ==
  /\ resultQ # <<>> =>
       /\ Len(resultQ) = 1
       /\ pending # NoTarget
       /\ pending.box = LastBox
       /\ resultQ[1].box = pending.box
       /\ resultQ[1].slot = pending.slot
  /\ resultQ = <<>> =>
       /\ LastBox # NoBox => Dealt(LastBox)
       /\ pending # NoTarget => pending.box # LastBox

BetweenInv ==
  pc \in Between =>
    /\ busyId = IF pc = "settle" THEN current.box ELSE NoBox
    /\ QueueInv
    /\ NextInv
    /\ ResultInv

StartInv ==
  /\ pc \in {"down", "start"} => resultQ = <<>>
  /\ pc = "start" => doneId = NoBox

Handover == BudgetInv /\ BusyInv /\ BetweenInv /\ StartInv

-----------------------------------------------------------------------------
LEMMA HandoverImplies == Handover => AgreeOnTarget
  BY DEF Handover, BusyInv, Busy, AgreeOnTarget, Executor!InCycle, Executor!Carrying

LEMMA HandoverInit == Undisturbed /\ Init => Handover
  BY DEF Undisturbed, Init, PlannerInit, Executor!ExecutorInit, Handover, BudgetInv, BusyInv,
         BetweenInv, StartInv, Busy, Between

\* What the handover talks about.
handoverVars == <<pc, next, busyId, doneId, current, resultQ, pending, targetQ,
                  lastPlacedId, failedIds>>

LEMMA HandoverFrame ==
  ASSUME Handover, UNCHANGED handoverVars, BudgetInv'
  PROVE  Handover'
  BY DEF handoverVars, Handover, BudgetInv, BusyInv, BetweenInv, QueueInv, NextInv, ResultInv,
         StartInv, LastBox, Dealt

\* Spending what is left leaves the other budgets alone, and none is left for
\* crashes and resets.
LEMMA BudgetStep ==
  ASSUME AuxInv, BudgetInv, NEW what \in {"restart", "crash", "failure", "reset"}, Spend(what)
  PROVE  what \in {"restart", "failure"} /\ BudgetInv'
  BY DEF AuxInv, BudgetInv, Spend

\* The types that the steps below use.
LEMMA HandoverTypes ==
  ASSUME TypeInv
  PROVE  /\ targetQ \in Seq(Target) /\ Len(targetQ) <= Depth /\ Len(targetQ) \in Nat
         /\ \A i \in 1..Len(targetQ) : targetQ[i] \in Target
         /\ pending \in Target \cup {NoTarget}
         /\ next \in Target \cup {NoTarget}
         /\ pc \in Working => current \in Target
         /\ NoTarget \notin Target
         /\ NoBox \notin Boxes
         /\ \A t \in Target : t.box \in Boxes
<1>1. targetQ \in Seq(Target) /\ Len(targetQ) <= Depth /\ pending \in Target \cup {NoTarget}
  BY DEF TypeInv, PlannerInv, PlannerTypeOK
<1>2. Len(targetQ) \in Nat /\ \A i \in 1..Len(targetQ) : targetQ[i] \in Target
  BY <1>1, LenProperties
<1>3. next \in Target \cup {NoTarget} /\ (pc \in Working => current \in Target)
  BY DEF TypeInv, ExecutorInv, Executor!ExecutorTypeOK
<1> QED BY <1>1, <1>2, <1>3, NoTargetIsNone, PlannerAssumption DEF Target

\* tryAssign() either does nothing or hands out a box that was not dealt with.
LEMMA TryAssignEffect ==
  ASSUME NEW target, NEW shown, TryAssign(target, shown)
  PROVE  \/ pending' = target /\ targetQ' = targetQ
         \/ /\ target = NoTarget
            /\ pending'.box \notin {lastPlacedId'} \cup failedIds'
            /\ pending'.box = atPickId'
            /\ targetQ' = Publish(targetQ, pending', Depth)
  BY DEF TryAssign, Assignable, Dealt

\* A new target reaches a queue in which only copies of the last one are left.
LEMMA AssignKeepsHandover ==
  ASSUME TypeInv, TypeInv', BudgetInv', StartInv,
         UNCHANGED <<pc, next, busyId, doneId, current>>,
         resultQ' = <<>>,
         pc \in Between \cup {"down"},
         pc \in Between =>
           /\ busyId = IF pc = "settle" THEN current.box ELSE NoBox
           /\ next = NoTarget
           /\ \A i \in 1..Len(targetQ) : targetQ[i].box = LastBox
           /\ LastBox # NoBox => Dealt(LastBox)',
         pending' \in Target,
         pending'.box \notin {lastPlacedId'} \cup failedIds',
         targetQ' = Publish(targetQ, pending', Depth)
  PROVE  Handover'
<1>1. BusyInv' /\ StartInv'
  BY DEF BusyInv, StartInv, Busy, Between
<1>2. CASE pc = "down"
  BY <1>1, <1>2 DEF Handover, BetweenInv, Between
<1>3. CASE pc \in Between
  <2>1. targetQ \in Seq(Target) /\ Len(targetQ) <= Depth
    BY HandoverTypes
  <2>2. /\ Len(targetQ') \in Nat
        /\ targetQ'[Len(targetQ')] = pending'
        /\ \A i \in 1..Len(targetQ') - 1 : targetQ'[i].box = LastBox
    BY <1>3, <2>1, PublishElements, PlannerAssumption
  <2>3. LastBox' = LastBox
    BY DEF LastBox
  <2>4. pending'.box # LastBox
    <3>1. pending'.box \in Boxes /\ NoBox \notin Boxes
      BY HandoverTypes
    <3> QED BY <1>3, <2>3, <3>1 DEF Dealt
  <2>5. QueueInv'
    BY <2>2, <2>3, <2>4 DEF QueueInv
  <2>6. NextInv' /\ ResultInv'
    BY <1>3, <2>3, <2>4 DEF NextInv, ResultInv, Dealt
  <2> QED BY <1>1, <1>3, <2>5, <2>6 DEF Handover, BetweenInv
<1> QED BY <1>2, <1>3

\* A callback of the planner that may assign a target.
LEMMA PlannerAssigns ==
  ASSUME TypeInv, TypeInv', Handover, BudgetInv',
         UNCHANGED <<pc, next, busyId, doneId, current, resultQ, lastPlacedId, failedIds>>,
         NEW shown, TryAssign(pending, shown)
  PROVE  Handover'
<1>1. CASE pending' = pending /\ targetQ' = targetQ
  BY <1>1, HandoverFrame DEF handoverVars
<1>2. CASE /\ pending = NoTarget
           /\ pending'.box \notin {lastPlacedId'} \cup failedIds'
           /\ targetQ' = Publish(targetQ, pending', Depth)
           /\ pending' # pending
  <2>1. pending' \in Target
    BY <1>2 DEF TypeInv, PlannerInv, PlannerTypeOK
  <2>2. pc \notin Busy
    BY <1>2, HandoverTypes DEF Handover, BusyInv, Busy, Working, Executor!InCycle, Executor!Carrying
  <2>3. pc \in Between \cup {"down"}
    BY <2>2 DEF TypeInv, ExecutorInv, Executor!ExecutorTypeOK, Busy, Between
  <2>4. resultQ = <<>>
    BY <1>2, <2>3 DEF Handover, BetweenInv, ResultInv, StartInv, Between
  <2>5. pc \in Between =>
          /\ busyId = IF pc = "settle" THEN current.box ELSE NoBox
          /\ next = NoTarget
          /\ \A i \in 1..Len(targetQ) : targetQ[i].box = LastBox
          /\ LastBox # NoBox => Dealt(LastBox)'
    BY <1>2, <2>4, HandoverTypes
    DEF Handover, BetweenInv, QueueInv, NextInv, ResultInv, Dealt, LastBox
  <2> QED BY <1>2, <2>1, <2>3, <2>4, <2>5, AssignKeepsHandover DEF Handover
<1>3. CASE pending' = pending /\ targetQ' # targetQ
  <2>1. pending = NoTarget /\ targetQ' = Publish(targetQ, pending', Depth) /\ pending'.box = atPickId'
    BY <1>3, TryAssignEffect
  <2>2. pending' = [box |-> atPickId', slot |-> nextSlot'] /\ Assignable(pending)
    BY <1>3 DEF TryAssign
  <2>3. atPickId' \in Boxes /\ nextSlot' \in 0..Capacity - 1
    BY <2>2, GridType DEF Assignable, TypeInv, PlannerInv, PlannerTypeOK
  <2>4. pending' \in Target
    BY <2>2, <2>3 DEF Target
  <2> QED BY <1>3, <2>1, <2>4, NoTargetIsNone
<1> QED BY <1>1, <1>2, <1>3, TryAssignEffect

\* A delivered result is for the pending target, and the only one under way.
LEMMA ResultDelivered ==
  ASSUME TypeInv, Handover, DeliverResult, NEW r, r = Head(resultQ)
  PROVE  /\ pc \in {"waiting", "settle", "halted"}
         /\ pending \in Target /\ pending.box = LastBox
         /\ r.box = pending.box /\ r.slot = pending.slot
         /\ resultQ # <<>> /\ resultQ' = <<>>
         /\ Credit(r)
         /\ TryAssign(NoTarget, StatusOf(nextSlot', NoTarget))
<1> DEFINE R == [box : Boxes, slot : Slots, success : BOOLEAN]
<1>0. resultQ # <<>> /\ OnResult(r) /\ resultQ' = Tail(resultQ)
  BY DEF DeliverResult
<1>1. resultQ \in Seq(R)
  BY DEF TypeInv, ExecutorInv, Executor!ExecutorTypeOK
<1>2. pc \in {"waiting", "settle", "halted"}
  BY <1>0 DEF Handover, BusyInv, StartInv, Busy, TypeInv, ExecutorInv, Executor!ExecutorTypeOK
<1>3. /\ Len(resultQ) = 1
      /\ pending \in Target
      /\ pending.box = LastBox
      /\ resultQ[1].box = pending.box
      /\ resultQ[1].slot = pending.slot
  BY <1>0, <1>2, HandoverTypes DEF Handover, BetweenInv, Between, ResultInv
<1> HIDE DEF R
<1>4. r = resultQ[1] /\ resultQ' = <<>>
  <2>1. Tail(resultQ) \in Seq(R) /\ Len(Tail(resultQ)) = 0
    BY <1>0, <1>1, <1>3, HeadTailProperties
  <2> QED BY <1>0, <1>1, <1>3, <2>1, DeliverElements, EmptySeq
<1>5. IsPending(r)
  BY <1>3, <1>4, HandoverTypes DEF IsPending
<1>6. Credit(r) /\ TryAssign(NoTarget, StatusOf(nextSlot', NoTarget))
  BY <1>0, <1>5 DEF OnResult
<1> QED BY <1>0, <1>2, <1>3, <1>4, <1>6

LEMMA ResultKeepsHandover ==
  ASSUME TypeInv, TypeInv', Handover, DeliverResult
  PROVE  Handover'
<1> DEFINE r == Head(resultQ)
<1>1. /\ pc \in Between
      /\ pending \in Target /\ pending.box = LastBox
      /\ r.box = pending.box
      /\ resultQ # <<>> /\ resultQ' = <<>>
      /\ Credit(r)
      /\ TryAssign(NoTarget, StatusOf(nextSlot', NoTarget))
  BY ResultDelivered DEF Between
<1> HIDE DEF r
<1>2. UNCHANGED <<pc, next, busyId, doneId, current>> /\ LastBox' = LastBox /\ BudgetInv'
  BY DEF DeliverResult, auxVars, LastBox, Handover, BudgetInv
<1>3. Dealt(LastBox)'
  BY <1>1, <1>2 DEF Credit, Dealt
<1>4. /\ busyId = IF pc = "settle" THEN current.box ELSE NoBox
      /\ next = NoTarget
      /\ \A i \in 1..Len(targetQ) : targetQ[i].box = LastBox
  BY <1>1 DEF Handover, BetweenInv, NextInv, QueueInv
<1>5. CASE pending' = NoTarget
  <2>1. targetQ' = targetQ
    <3>1. SUFFICES ASSUME Assignable(NoTarget) PROVE pending' # NoTarget
      BY <1>1, <1>5 DEF TryAssign
    <3>2. pending' = [box |-> atPickId', slot |-> nextSlot']
      BY <1>1, <3>1 DEF TryAssign
    <3>3. atPickId' \in Boxes /\ nextSlot' \in 0..Capacity - 1
      BY <3>1, GridType DEF Assignable, TypeInv, PlannerInv, PlannerTypeOK
    <3>4. pending' \in Target
      BY <3>2, <3>3 DEF Target
    <3> QED BY <3>4, NoTargetIsNone
  <2>2. BusyInv' /\ StartInv'
    BY <1>1, <1>2 DEF BusyInv, StartInv, Busy, Between, Handover
  <2>3. QueueInv' /\ NextInv' /\ ResultInv'
    BY <1>1, <1>2, <1>3, <1>4, <1>5, <2>1 DEF QueueInv, NextInv, ResultInv, Dealt
  <2> QED BY <1>2, <1>4, <2>2, <2>3 DEF Handover, BetweenInv
<1>6. CASE pending' # NoTarget
  <2>1. /\ pending'.box \notin {lastPlacedId'} \cup failedIds'
        /\ targetQ' = Publish(targetQ, pending', Depth)
    BY <1>1, <1>6, TryAssignEffect
  <2>2. pending' \in Target
    BY <1>6 DEF TypeInv, PlannerInv, PlannerTypeOK
  <2> QED BY <1>1, <1>2, <1>3, <1>4, <2>1, <2>2, AssignKeepsHandover DEF Handover
<1> QED BY <1>5, <1>6

LEMMA TickKeepsHandover ==
  ASSUME TypeInv, Handover, PlannerTick
  PROVE  Handover'
<1>0. /\ UNCHANGED <<pc, next, busyId, doneId, current, resultQ, pending, lastPlacedId, failedIds>>
      /\ targetQ' = IF pending # NoTarget THEN Publish(targetQ, pending, Depth) ELSE targetQ
      /\ BudgetInv'
  BY DEF PlannerTick, Tick, executorOnly, auxVars, Handover, BudgetInv
<1>1. CASE pending = NoTarget
  BY <1>0, <1>1, HandoverFrame DEF handoverVars
<1>2. CASE pending # NoTarget
  <2>1. targetQ \in Seq(Target) /\ Len(targetQ) <= Depth /\ pending \in Target
    BY <1>2, HandoverTypes
  <2>2. PICK k \in {0, 1} : \A i \in 1..Len(targetQ') - 1 :
          i + k \in 1..Len(targetQ) /\ targetQ'[i] = targetQ[i + k]
    BY <1>0, <1>2, <2>1, PublishElements, PlannerAssumption
  <2>3. Len(targetQ') \in Nat /\ targetQ'[Len(targetQ')] = pending
    BY <1>0, <1>2, <2>1, PublishElements, PlannerAssumption
  <2>4. \A i \in 1..Len(targetQ') :
          targetQ'[i] = pending \/ \E j \in 1..Len(targetQ) : targetQ'[i] = targetQ[j]
    BY <2>2, <2>3
  <2>5. BusyInv' /\ StartInv'
    BY <1>0, <2>4 DEF Handover, BusyInv, StartInv
  <2>6. LastBox' = LastBox
    BY <1>0 DEF LastBox
  <2>7. ASSUME pc \in Between PROVE QueueInv' /\ NextInv' /\ ResultInv'
    <3>1. QueueInv /\ NextInv /\ ResultInv
      BY <2>7 DEF Handover, BetweenInv
    <3>2. NextInv' /\ ResultInv'
      BY <1>0, <2>4, <2>6, <3>1 DEF NextInv, ResultInv, Dealt
    <3>3. \A i \in 1..Len(targetQ') : targetQ'[i] = pending' \/ targetQ'[i].box = LastBox'
      BY <1>0, <2>4, <2>6, <3>1 DEF QueueInv
    <3>4. ASSUME NEW i \in 1..Len(targetQ'), NEW j \in 1..Len(targetQ'), i < j,
                 targetQ'[i].box # LastBox
          PROVE  targetQ'[j].box # LastBox
      <4>1. i \in 1..Len(targetQ') - 1 /\ i + k \in 1..Len(targetQ) /\ targetQ'[i] = targetQ[i + k]
        BY <2>2, <2>3, <3>4
      <4>2. CASE j = Len(targetQ')
        \* a copy of pending is older, so pending is not the last box
        <5>1. targetQ[i + k] = pending
          BY <3>1, <3>4, <4>1 DEF QueueInv
        <5> QED BY <2>3, <3>4, <4>1, <4>2, <5>1
      <4>3. CASE j # Len(targetQ')
        <5>1. j + k \in 1..Len(targetQ) /\ targetQ'[j] = targetQ[j + k] /\ i + k < j + k
          BY <2>2, <2>3, <3>4, <4>3
        <5> QED BY <3>1, <3>4, <4>1, <5>1 DEF QueueInv
      <4> QED BY <4>2, <4>3
    <3> QED BY <2>6, <3>2, <3>3, <3>4 DEF QueueInv
  <2> QED BY <1>0, <2>5, <2>7 DEF Handover, BetweenInv
<1> QED BY <1>1, <1>2

LEMMA TargetKeepsHandover ==
  ASSUME TypeInv, Handover, DeliverTarget
  PROVE  Handover'
<1> DEFINE t == Head(targetQ)
<1>0. /\ pc # "down"
      /\ next' = IF t.box = busyId \/ t.box = doneId THEN next ELSE t
      /\ UNCHANGED <<pc, busyId, doneId, current, resultQ, pending, lastPlacedId, failedIds>>
      /\ BudgetInv'
  BY DEF DeliverTarget, Executor!OnTarget, auxVars, Handover, BudgetInv
<1>1. /\ 1 \in 1..Len(targetQ) /\ t = targetQ[1] /\ t \in Target
      /\ Len(targetQ') \in Nat
      /\ \A i \in 1..Len(targetQ') : i + 1 \in 1..Len(targetQ) /\ targetQ'[i] = targetQ[i + 1]
  <2>1. targetQ \in Seq(Target) /\ targetQ # <<>> /\ targetQ' = Tail(targetQ)
    BY HandoverTypes DEF DeliverTarget
  <2>2. Tail(targetQ) \in Seq(Target)
    BY <2>1, DeliverType
  <2> QED BY <2>1, <2>2, DeliverElements, LenProperties, HandoverTypes
<1> HIDE DEF t
<1>2. StartInv' /\ LastBox' = LastBox
  BY <1>0 DEF Handover, StartInv, LastBox
<1>3. CASE pc \in Busy
  <2>1. t.box = busyId
    BY <1>1, <1>3 DEF Handover, BusyInv
  <2>2. BusyInv'
    BY <1>0, <1>1, <1>3, <2>1 DEF Handover, BusyInv
  <2> QED BY <1>0, <1>2, <1>3, <2>2 DEF Handover, BetweenInv, Busy, Between
<1>4. CASE pc \in Between
  <2>1. QueueInv /\ NextInv /\ ResultInv
    BY <1>4 DEF Handover, BetweenInv
  <2>2. QueueInv'
    <3>1. \A i \in 1..Len(targetQ') : targetQ'[i] = pending' \/ targetQ'[i].box = LastBox'
      BY <1>0, <1>1, <1>2, <2>1 DEF QueueInv
    <3>2. ASSUME NEW i \in 1..Len(targetQ'), NEW j \in 1..Len(targetQ'), i < j,
                 targetQ'[i].box # LastBox
          PROVE  targetQ'[j].box # LastBox
      <4>1. /\ i + 1 \in 1..Len(targetQ) /\ targetQ'[i] = targetQ[i + 1]
            /\ j + 1 \in 1..Len(targetQ) /\ targetQ'[j] = targetQ[j + 1]
        BY <1>1
      <4> QED BY <2>1, <3>2, <4>1 DEF QueueInv
    <3> QED BY <1>2, <3>1, <3>2 DEF QueueInv
  <2>3. ResultInv'
    BY <1>0, <1>2, <2>1 DEF ResultInv, Dealt
  <2>4. next' = next => NextInv'
    BY <1>0, <1>1, <2>1 DEF NextInv
  <2>5. ASSUME next' # next PROVE NextInv'
    <3>1. next' = t /\ t.box # busyId /\ t.box # doneId
      BY <1>0, <2>5
    <3>2. t.box # LastBox
      BY <1>4, <3>1 DEF LastBox, Handover, BetweenInv
    <3>3. t = pending
      BY <1>1, <2>1, <3>2 DEF QueueInv
    <3>4. resultQ = <<>>
      BY <2>1, <3>2, <3>3 DEF ResultInv
    <3>5. \A i \in 1..Len(targetQ') : targetQ'[i] = pending
      <4>1. SUFFICES ASSUME NEW i \in 1..Len(targetQ') PROVE targetQ'[i] = pending
        OBVIOUS
      <4>2. i + 1 \in 1..Len(targetQ) /\ targetQ'[i] = targetQ[i + 1] /\ 1 < i + 1
        BY <1>1
      <4>3. targetQ[i + 1].box # LastBox
        BY <1>1, <2>1, <3>2, <4>2 DEF QueueInv
      <4> QED BY <2>1, <4>2, <4>3 DEF QueueInv
    <3> QED BY <1>0, <3>1, <3>3, <3>4, <3>5 DEF NextInv
  <2> QED BY <1>0, <1>2, <1>4, <2>2, <2>3, <2>4, <2>5 DEF Handover, BetweenInv, BusyInv, Busy, Between
<1> QED BY <1>0, <1>3, <1>4 DEF TypeInv, ExecutorInv, Executor!ExecutorTypeOK, Busy, Between

LEMMA StartKeepsHandover ==
  ASSUME TypeInv, TypeInv', Handover, StartExecutor
  PROVE  Handover'
<1>1. /\ pc = "down" /\ pc' = "start" /\ next' = NoTarget /\ busyId' = NoBox /\ doneId' = NoBox
      /\ targetQ' = <<>> /\ BudgetInv'
      /\ UNCHANGED <<resultQ, pending, lastPlacedId, failedIds>>
  BY DEF StartExecutor, Executor!Start, auxVars, Handover, BudgetInv
<1>2. LastBox' = NoBox
  BY <1>1 DEF LastBox
<1>3. resultQ = <<>>
  BY <1>1 DEF Handover, StartInv
<1>4. Len(targetQ') = 0
  BY <1>1
<1>5. pending # NoTarget => pending.box # NoBox
  BY HandoverTypes
<1>6. QueueInv' /\ NextInv' /\ ResultInv'
  BY <1>1, <1>2, <1>3, <1>4, <1>5 DEF QueueInv, NextInv, ResultInv
<1> QED BY <1>1, <1>3, <1>6 DEF Handover, BusyInv, BetweenInv, StartInv, Busy, Between

\* The result of a cycle is the only one under way.
LEMMA ResultPublished ==
  ASSUME TypeInv, Handover, Executor!PublishResult
  PROVE  /\ Len(resultQ') = 1 /\ resultQ' # <<>>
         /\ resultQ'[1] = [box |-> current.box, slot |-> current.slot, success |-> ok]
         /\ resultQ'[1].success = ok
<1> DEFINE r == [box |-> current.box, slot |-> current.slot, success |-> ok]
           R == [box : Boxes, slot : Slots, success : BOOLEAN]
<1>1. pc = "publish" /\ resultQ' = Publish(resultQ, r, Depth)
  BY DEF Executor!PublishResult, Executor!Publish, Publish
<1>2. resultQ = <<>>
  BY <1>1 DEF Handover, BusyInv, Busy
<1>3. current \in Target /\ ok \in BOOLEAN
  BY <1>1 DEF TypeInv, ExecutorInv, Executor!ExecutorTypeOK, Working
<1>4. r \in R /\ r.success = ok
  BY <1>3 DEF Target, Slots
<1> HIDE DEF r, R
<1>5. resultQ \in Seq(R) /\ Len(resultQ) = 0
  BY <1>2, EmptySeq
<1>6. resultQ' = Append(resultQ, r)
  BY <1>1, <1>5, PlannerAssumption DEF Publish
<1>7. Len(resultQ') = 1 /\ resultQ'[1] = r /\ resultQ' # <<>>
  BY <1>4, <1>5, <1>6, AppendProperties
<1> QED BY <1>4, <1>7 DEF r

LEMMA RunStepKeepsHandover ==
  ASSUME TypeInv, TypeInv', Handover, RunStep
  PROVE  Handover'
<1>0. UNCHANGED <<pending, targetQ, lastPlacedId, failedIds>> /\ BudgetInv'
  BY DEF RunStep, plannerVars, Handover, BudgetInv
<1>1. CASE Executor!ReleaseAtStart
  <2>1. /\ pc = "start" /\ pc' = "waiting"
        /\ UNCHANGED <<next, busyId, doneId, current, resultQ>>
    BY <1>1 DEF Executor!ReleaseAtStart
  <2>2. LastBox' = LastBox
    BY <2>1 DEF LastBox
  <2>3. QueueInv' /\ NextInv' /\ ResultInv'
    BY <1>0, <2>1, <2>2 DEF Handover, BetweenInv, Between, QueueInv, NextInv, ResultInv, Dealt
  <2> QED BY <1>0, <2>1, <2>3 DEF Handover, BetweenInv, BusyInv, StartInv, Busy, Between
<1>2. CASE Executor!TakeTarget
  <2>1. /\ pc = "waiting" /\ pc' = "taken" /\ next # NoTarget
        /\ current' = next /\ busyId' = next.box /\ next' = NoTarget /\ resultQ' = resultQ
    BY <1>2 DEF Executor!TakeTarget
  <2>2. NextInv
    BY <2>1 DEF Handover, BetweenInv, Between
  <2>3. BusyInv'
    BY <1>0, <2>1, <2>2 DEF NextInv, BusyInv
  <2> QED BY <1>0, <2>1, <2>3 DEF Handover, BetweenInv, StartInv, Between
<1>3. CASE Executor!HoldBelt \/ Executor!Grasp \/ Executor!PutDown \/ Executor!Retreat \/ Executor!ReleaseBelt
  <2>1. pc \in Busy /\ pc' \in Busy /\ UNCHANGED <<next, busyId, current, resultQ>>
    BY <1>3 DEF Executor!HoldBelt, Executor!Grasp, Executor!PutDown, Executor!Retreat,
                Executor!ReleaseBelt, Busy
  <2>2. BusyInv'
    BY <1>0, <2>1 DEF Handover, BusyInv
  <2> QED BY <1>0, <2>1, <2>2 DEF Handover, BetweenInv, StartInv, Busy, Between
<1>4. CASE Executor!PublishResult
  <2>1. pc = "publish" /\ pc' = "settle" /\ UNCHANGED <<next, busyId, doneId, current>>
    BY <1>4 DEF Executor!PublishResult
  <2>2. /\ next = NoTarget /\ pending = current /\ busyId = current.box
        /\ \A i \in 1..Len(targetQ) : targetQ[i] = pending
    BY <2>1 DEF Handover, BusyInv, Busy
  <2>3. current \in Target
    BY <2>1 DEF TypeInv, ExecutorInv, Working
  <2>4. /\ Len(resultQ') = 1 /\ resultQ' # <<>>
        /\ resultQ'[1].box = current.box /\ resultQ'[1].slot = current.slot
    BY <1>4, ResultPublished
  <2>5. LastBox' = current.box
    BY <2>1 DEF LastBox
  <2>6. QueueInv' /\ NextInv' /\ ResultInv'
    BY <1>0, <2>1, <2>2, <2>3, <2>4, <2>5, HandoverTypes
    DEF QueueInv, NextInv, ResultInv
  <2> QED BY <1>0, <2>1, <2>2, <2>6 DEF Handover, BusyInv, BetweenInv, StartInv, Busy, Between
<1>5. CASE Executor!Settle
  <2>1. /\ pc = "settle" /\ pc' \in {"waiting", "halted"}
        /\ busyId' = NoBox /\ doneId' = current.box /\ UNCHANGED <<next, current, resultQ>>
    BY <1>5 DEF Executor!Settle
  <2>2. LastBox' = LastBox
    BY <2>1 DEF LastBox
  <2>3. QueueInv' /\ NextInv' /\ ResultInv'
    BY <1>0, <2>1, <2>2 DEF Handover, BetweenInv, Between, QueueInv, NextInv, ResultInv, Dealt
  <2> QED BY <1>0, <2>1, <2>3 DEF Handover, BusyInv, BetweenInv, StartInv, Busy, Between
<1> QED BY <1>1, <1>2, <1>3, <1>4, <1>5 DEF RunStep, Executor!RunStep

LEMMA MotionFailsKeepsHandover ==
  ASSUME TypeInv, Handover, MotionFails
  PROVE  Handover'
<1>1. BudgetInv'
  BY BudgetStep DEF MotionFails, Handover, TypeInv
<1>2. pc \in Busy /\ pc' \in Busy
  BY DEF MotionFails, Executor!MotionFails, Busy
<1>3. UNCHANGED <<next, busyId, current, resultQ, pending, targetQ>>
  BY DEF MotionFails, Executor!MotionFails, plannerVars
<1>4. BusyInv'
  BY <1>2, <1>3 DEF Handover, BusyInv
<1> QED BY <1>1, <1>2, <1>4 DEF Handover, BetweenInv, StartInv, Busy, Between

LEMMA RestartKeepsHandover ==
  ASSUME TypeInv, Handover, RestartAfterFailure
  PROVE  Handover'
<1>1. BudgetInv'
  BY BudgetStep DEF RestartAfterFailure, Handover, TypeInv
<1>2. pc' = "down" /\ resultQ' = <<>>
  BY DEF RestartAfterFailure, Executor!Exit
<1> QED BY <1>1, <1>2 DEF Handover, BusyInv, BetweenInv, StartInv, Busy, Between

LEMMA HandoverNext == TypeInv /\ TypeInv' /\ Handover /\ [Next]_vars => Handover'
<1> SUFFICES ASSUME TypeInv, TypeInv', Handover, [Next]_vars
             PROVE  Handover'
  OBVIOUS
<1>1. CASE BoxArrives \/ BoxCleared \/ ReportLead \/ HoldReachesBelt \/ PickPoseExpires \/ UNCHANGED vars
  <2>1. UNCHANGED handoverVars /\ budget' = budget
    BY <1>1 DEF BoxArrives, BoxCleared, ReportLead, HoldReachesBelt, PickPoseExpires, PoseExpires,
                vars, plannerVars, executorOnly, auxVars, handoverVars
  <2> QED BY <2>1, HandoverFrame DEF Handover, BudgetInv
<1>2. CASE DeliverAtPick
  <2>1. TryAssign(pending, status)
    BY <1>2 DEF DeliverAtPick, OnAtPick
  <2>2. UNCHANGED <<pc, next, busyId, doneId, current, resultQ, lastPlacedId, failedIds>> /\ BudgetInv'
    BY <1>2 DEF DeliverAtPick, OnAtPick, executorOnly, auxVars, Handover, BudgetInv
  <2> QED BY <2>1, <2>2, PlannerAssigns
<1>3. CASE DeliverPickPose
  <2>1. TryAssign(pending, status)
    BY <1>3 DEF DeliverPickPose, OnPickPose
  <2>2. UNCHANGED <<pc, next, busyId, doneId, current, resultQ, lastPlacedId, failedIds>> /\ BudgetInv'
    BY <1>3 DEF DeliverPickPose, OnPickPose, executorOnly, auxVars, Handover, BudgetInv
  <2> QED BY <2>1, <2>2, PlannerAssigns
<1>4. CASE DeliverResult
  BY <1>4, ResultKeepsHandover
<1>5. CASE PlannerTick
  BY <1>5, TickKeepsHandover
<1>6. CASE UnloadAndReset
  BY <1>6, BudgetStep DEF UnloadAndReset, Handover, TypeInv
<1>7. CASE DeliverTarget
  BY <1>7, TargetKeepsHandover
<1>8. CASE StartExecutor
  BY <1>8, StartKeepsHandover
<1>9. CASE RunStep
  BY <1>9, RunStepKeepsHandover
<1>10. CASE MotionFails
  BY <1>10, MotionFailsKeepsHandover
<1>11. CASE RestartAfterFailure
  BY <1>11, RestartKeepsHandover
<1>12. CASE ExecutorCrashes
  BY <1>12, BudgetStep DEF ExecutorCrashes, Handover, TypeInv
<1> QED BY <1>1, <1>2, <1>3, <1>4, <1>5, <1>6, <1>7, <1>8, <1>9, <1>10, <1>11, <1>12 DEF Next

\* As long as the executor is not killed and the pallet not reset, run() works
\* on what the planner has pending, however often targets are re-sent, dropped
\* or delivered late, and however many cycles fail and are restarted.
THEOREM Agreement == Undisturbed /\ Spec => []AgreeOnTarget
<1>1. Init => TypeInv
  BY TypeInvInit
<1>2. Undisturbed /\ Init => Handover
  BY HandoverInit
<1>3. TypeInv /\ [Next]_vars => TypeInv'
  BY TypeInvNext
<1>4. TypeInv /\ TypeInv' /\ Handover /\ [Next]_vars => Handover'
  BY HandoverNext
<1>5. Handover => AgreeOnTarget
  BY HandoverImplies
<1> QED BY <1>1, <1>2, <1>3, <1>4, <1>5, PTL DEF Spec

\* A slot is consumed by the result that reports it filled, one at a time,
\* whatever failed before: results and slots cannot get out of step without a
\* reset or a kill (the run cell_reset shows the step that does it).
THEOREM Consumption == Undisturbed /\ Spec => ConsumedByItsResult
<1>1. ASSUME TypeInv, Handover, [Next]_vars, nextSlot' > nextSlot
      PROVE  /\ nextSlot' = nextSlot + 1
             /\ resultQ # <<>>
             /\ Head(resultQ).success
             /\ Head(resultQ).slot = nextSlot
  <2>0. nextSlot \in Nat
    BY <1>1, GridType DEF TypeInv, PlannerInv, PlannerTypeOK
  <2>1. DeliverResult
    <3>1. ASSUME nextSlot' = nextSlot PROVE FALSE
      BY <1>1, <2>0, <3>1
    <3>2. ~UnloadAndReset
      BY <1>1, BudgetStep DEF UnloadAndReset, Handover, TypeInv
    <3> QED BY <1>1, <3>1, <3>2
            DEF Next, vars, BoxArrives, BoxCleared, ReportLead, HoldReachesBelt, DeliverAtPick,
                OnAtPick, DeliverPickPose, OnPickPose, PickPoseExpires, PoseExpires, PlannerTick,
                Tick, DeliverTarget, StartExecutor, RunStep, MotionFails, RestartAfterFailure,
                ExecutorCrashes, plannerVars
  <2>2. /\ resultQ # <<>>
        /\ Head(resultQ).slot = pending.slot
        /\ pending \in Target
        /\ Credit(Head(resultQ))
    BY <1>1, <2>1, ResultDelivered
  <2>3. pending.slot = nextSlot
    BY <1>1, <2>2, NoTargetIsNone DEF TypeInv, PlannerInv
  <2>4. Head(resultQ).success /\ nextSlot' = nextSlot + 1
    BY <1>1, <2>0, <2>2 DEF Credit
  <2> QED BY <2>2, <2>3, <2>4
<1>2. TypeInv /\ Handover /\ [Next]_vars =>
        [nextSlot' > nextSlot => /\ nextSlot' = nextSlot + 1
                                 /\ resultQ # <<>>
                                 /\ Head(resultQ).success
                                 /\ Head(resultQ).slot = nextSlot]_vars
  BY <1>1
<1>3. Init => TypeInv
  BY TypeInvInit
<1>4. Undisturbed /\ Init => Handover
  BY HandoverInit
<1>5. TypeInv /\ [Next]_vars => TypeInv'
  BY TypeInvNext
<1>6. TypeInv /\ TypeInv' /\ Handover /\ [Next]_vars => Handover'
  BY HandoverNext
<1> QED BY <1>2, <1>3, <1>4, <1>5, <1>6, PTL DEF Spec, ConsumedByItsResult

-----------------------------------------------------------------------------
(* One box per cell, also when the executor is killed and started again,   *)
(* and when the pallet is unloaded at the planner's request.  A killed     *)
(* executor may repeat a cycle whose slot was credited long ago, so the    *)
(* invariant is about every target that can still be acted upon.           *)

\* No motion fails, and a reset comes only when it is asked for.
Repeatable == MaxFailures = 0 /\ (MaxResets = 0 \/ ResetsWhenAsked)

\* The targets that may still make the arm put a box somewhere.
Live ==
  ({pending, next} \cup {targetQ[i] : i \in 1..Len(targetQ)}
     \cup {t \in {current} : pc \in {"taken", "held", "carry"}}) \ {NoTarget}

\* Who has a slot: a box that stands there, or one that may be put there.
Claims == Live \cup {[box |-> b, slot |-> where[b]] : b \in OnPallet}

\* No two boxes claim a slot, and only the pending one claims the next.
ClaimInv ==
  /\ \A t \in Claims : t.slot <= nextSlot /\ (t.slot = nextSlot => t = pending)
  /\ \A t, u \in Claims : t.slot = u.slot => t = u

\* Every result that is or will be under way reports success.
SuccessInv ==
  /\ budget.failure = 0
  /\ MaxResets # 0 => ResetsWhenAsked
  /\ MaxResets = 0 => budget.reset = 0
  /\ pc = "publish" => ok
  /\ \A i \in 1..Len(resultQ) : resultQ[i].success

RepeatInv == HeldInv /\ SuccessInv /\ ClaimInv

LEMMA ClaimsImply == TypeInv /\ ClaimInv => OneBoxPerCell
<1> SUFFICES ASSUME ClaimInv, NEW a \in OnPallet, NEW b \in OnPallet,
                    CellOf(where[a]) = CellOf(where[b])
             PROVE  a = b
  BY DEF OneBoxPerCell
<1>1. where[a] \in Slots /\ where[b] \in Slots
  BY DEF OnPallet
<1>2. where[a] = where[b]
  BY <1>1, CellsDiffer
<1> DEFINE t == [box |-> a, slot |-> where[a]]
           u == [box |-> b, slot |-> where[b]]
<1>3. t \in Claims /\ u \in Claims /\ t.slot = u.slot
  BY <1>2 DEF Claims
<1>4. t = u
  BY <1>3 DEF ClaimInv
<1> QED BY <1>4

LEMMA RepeatInit == Repeatable /\ Init => RepeatInv
<1> SUFFICES ASSUME Repeatable, Init PROVE RepeatInv
  OBVIOUS
<1>1. HeldInv
  BY DEF Init, Executor!ExecutorInit, HeldInv, HeldWhileArmWorks
<1>2. SuccessInv
  BY DEF Repeatable, Init, Executor!ExecutorInit, SuccessInv
<1>3. Live = {}
  BY DEF Init, PlannerInit, Executor!ExecutorInit, Live
<1>4. OnPallet = {}
  <2>1. \A b \in Boxes : where[b] = -3
    BY DEF Init, Executor!ExecutorInit, Executor!Upstream
  <2> QED BY <2>1 DEF OnPallet, Slots
<1>5. Claims = {}
  BY <1>3, <1>4 DEF Claims
<1>6. ClaimInv
  BY <1>5 DEF ClaimInv
<1> QED BY <1>1, <1>2, <1>6 DEF RepeatInv

\* Claims are targets.
LEMMA ClaimTypes == TypeInv => Claims \subseteq Target
<1> SUFFICES ASSUME TypeInv, NEW t \in Claims PROVE t \in Target
  OBVIOUS
<1>1. CASE t \in Live
  <2>1. current \in Target \/ pc \notin {"taken", "held", "carry"}
    BY HandoverTypes DEF Working, Executor!InCycle, Executor!Carrying
  <2> QED BY <1>1, <2>1, HandoverTypes DEF Live
<1>2. CASE t \notin Live
  BY <1>2 DEF Claims, OnPallet, Target, Slots
<1> QED BY <1>1, <1>2

\* A step that adds no claim.
LEMMA NoNewClaim ==
  ASSUME ClaimInv, Claims' \subseteq Claims, UNCHANGED <<nextSlot, pending>>
  PROVE  ClaimInv'
  BY DEF ClaimInv

\* tryAssign() lets a new box claim the next slot, which nobody claimed.
LEMMA AssignKeepsClaims ==
  ASSUME TypeInv, TypeInv', ClaimInv, NEW target, NEW shown,
         TryAssign(target, shown),
         UNCHANGED <<pc, next, current, where>>,
         \/ nextSlot' = nextSlot /\ target = pending
         \/ nextSlot' = nextSlot + 1 /\ target = NoTarget
  PROVE  ClaimInv'
<1>0. /\ targetQ \in Seq(Target) /\ Len(targetQ) <= Depth /\ NoTarget \notin Target
      /\ pending' \in Target \cup {NoTarget}
      /\ nextSlot \in Nat
  BY HandoverTypes, GridType DEF TypeInv, PlannerInv, PlannerTypeOK
<1>1. Claims \subseteq Target /\ \A t \in Target : t.slot \in Nat
  BY ClaimTypes, GridType DEF Target
<1>2. CASE ~Assignable(target)
  <2>1. pending' = target /\ targetQ' = targetQ
    BY <1>2 DEF TryAssign
  <2>2. Claims' \subseteq Claims
    BY <2>1 DEF Claims, Live, OnPallet
  <2>3. CASE nextSlot' = nextSlot + 1
    BY <1>0, <1>1, <2>2, <2>3 DEF ClaimInv
  <2>4. CASE nextSlot' = nextSlot /\ target = pending
    BY <2>1, <2>2, <2>4, NoNewClaim
  <2> QED BY <2>3, <2>4
<1>3. CASE Assignable(target)
  <2>1. /\ target = NoTarget
        /\ pending' = [box |-> atPickId', slot |-> nextSlot']
        /\ targetQ' = Publish(targetQ, pending', Depth)
    BY <1>3 DEF Assignable, TryAssign
  <2>2. pending' \in Target
    <3>1. atPickId' \in Boxes /\ nextSlot' \in 0..Capacity - 1
      BY <1>3, GridType DEF Assignable, TypeInv, PlannerInv, PlannerTypeOK
    <3> QED BY <2>1, <3>1 DEF Target
  <2>3. \A i \in 1..Len(targetQ') :
          targetQ'[i] = pending' \/ \E j \in 1..Len(targetQ) : targetQ'[i] = targetQ[j]
    BY <1>0, <2>1, <2>2, PublishRange, PlannerAssumption
  <2>4. Claims' \subseteq Claims \cup {pending'}
    BY <2>3 DEF Claims, Live, OnPallet
  <2>5. \A t \in Claims : t.slot < nextSlot'
    BY <1>0, <1>1, <2>1 DEF ClaimInv
  <2>6. pending'.slot = nextSlot' /\ nextSlot' \in Nat
    BY <1>0, <2>1
  <2>7. \A t \in Claims' : t = pending' \/ (t \in Claims /\ t.slot < nextSlot' /\ t.slot \in Nat)
    BY <1>1, <2>4, <2>5
  <2>8. \A t \in Claims' : t.slot <= nextSlot' /\ (t.slot = nextSlot' => t = pending')
    BY ONLY <2>6, <2>7
  <2>9. ASSUME NEW t \in Claims', NEW u \in Claims', t.slot = u.slot PROVE t = u
    <3>1. CASE t \in Claims /\ u \in Claims
      BY <2>9, <3>1 DEF ClaimInv
    <3>2. CASE t = pending' \/ u = pending'
      BY ONLY <2>6, <2>7, <2>9, <3>2
    <3> QED BY <2>7, <3>1, <3>2
  <2> QED BY <2>8, <2>9 DEF ClaimInv
<1> QED BY <1>2, <1>3

LEMMA SuccessNext == TypeInv /\ HeldInv /\ SuccessInv /\ [Next]_vars => SuccessInv'
<1> SUFFICES ASSUME TypeInv, HeldInv, SuccessInv, [Next]_vars PROVE SuccessInv'
  OBVIOUS
<1> DEFINE R == [box : Boxes, slot : Slots, success : BOOLEAN]
<1>0. /\ resultQ \in Seq(R) /\ Len(resultQ) <= Depth
      /\ budget \in [{"restart", "crash", "failure", "reset"} -> Nat]
  BY DEF TypeInv, ExecutorInv, Executor!ExecutorTypeOK, AuxInv
<1>1. CASE RunStep
  <2>1. CASE Executor!PublishResult
    <3> DEFINE r == [box |-> current.box, slot |-> current.slot, success |-> ok]
    <3>1. /\ pc = "publish" /\ pc' = "settle" /\ budget' = budget
          /\ resultQ' = Publish(resultQ, r, Depth)
      BY <1>1, <2>1 DEF RunStep, Executor!PublishResult, Executor!Publish, Publish
    <3>2. r.success /\ r \in R
      BY <3>1 DEF SuccessInv, TypeInv, ExecutorInv, Executor!ExecutorTypeOK, Working, Target, Slots
    <3> HIDE DEF r, R
    <3>3. \A i \in 1..Len(resultQ') :
            resultQ'[i] = r \/ \E j \in 1..Len(resultQ) : resultQ'[i] = resultQ[j]
      BY <1>0, <3>1, <3>2, PublishRange, PlannerAssumption
    <3> QED BY <3>1, <3>2, <3>3 DEF SuccessInv
  <2>2. CASE Executor!ReleaseBelt
    BY <1>1, <2>2 DEF RunStep, Executor!ReleaseBelt, HeldInv, SuccessInv
  <2>3. CASE ~Executor!PublishResult /\ ~Executor!ReleaseBelt
    <3>1. pc' # "publish" /\ resultQ' = resultQ /\ budget' = budget
      BY <1>1, <2>3 DEF RunStep, Executor!RunStep, Executor!ReleaseAtStart, Executor!TakeTarget,
         Executor!HoldBelt, Executor!Grasp, Executor!PutDown, Executor!Retreat, Executor!Settle
    <3> QED BY <3>1 DEF SuccessInv
  <2> QED BY <2>1, <2>2, <2>3
<1>2. CASE MotionFails
  BY <1>2 DEF MotionFails, Spend, SuccessInv
<1>3. CASE ExecutorCrashes
  <2>1. PICK n \in 0..Len(resultQ) : resultQ' = SubSeq(resultQ, 1, n)
    BY <1>3 DEF ExecutorCrashes
  <2>2. pc' = "down" /\ budget'.failure = 0 /\ budget'.reset = budget.reset
    BY <1>0, <1>3 DEF ExecutorCrashes, Executor!Crash, Spend, SuccessInv
  <2> HIDE DEF R
  <2>3. Len(resultQ') = n /\ \A i \in 1..n : resultQ'[i] = resultQ[i]
    BY <1>0, <2>1, SubSeqProperties, LenProperties
  <2>4. \A i \in 1..n : i \in 1..Len(resultQ)
    BY <1>0, LenProperties
  <2> QED BY <2>2, <2>3, <2>4 DEF SuccessInv
<1>4. CASE DeliverResult
  <2>1. resultQ' = Tail(resultQ) /\ resultQ # <<>> /\ pc' = pc /\ ok' = ok /\ budget' = budget
    BY <1>4 DEF DeliverResult, auxVars
  <2> HIDE DEF R
  <2>2. \A i \in 1..Len(resultQ') : i + 1 \in 1..Len(resultQ) /\ resultQ'[i] = resultQ[i + 1]
    BY <1>0, <2>1, DeliverElements
  <2> QED BY <2>1, <2>2 DEF SuccessInv
<1>5. CASE StartExecutor
  BY <1>5 DEF StartExecutor, Executor!Start, SuccessInv, auxVars
<1>6. CASE RestartAfterFailure \/ UnloadAndReset
  <2>1. budget'.failure = 0 /\ (MaxResets = 0 => budget'.reset = 0) /\ resultQ' = resultQ
    BY <1>0, <1>6 DEF RestartAfterFailure, Executor!Exit, UnloadAndReset, Spend, SuccessInv
  <2>2. pc' # "publish" \/ (pc' = pc /\ ok' = ok)
    BY <1>6 DEF RestartAfterFailure, Executor!Exit, UnloadAndReset
  <2> QED BY <2>1, <2>2 DEF SuccessInv
<1>7. CASE UNCHANGED <<pc, ok, resultQ, budget>>
  BY <1>7 DEF SuccessInv
<1>8. CASE \/ BoxArrives \/ BoxCleared \/ ReportLead \/ HoldReachesBelt \/ DeliverAtPick
           \/ DeliverPickPose \/ PickPoseExpires \/ PlannerTick \/ DeliverTarget \/ UNCHANGED vars
  <2>1. UNCHANGED <<pc, ok, resultQ, budget>>
    BY <1>8 DEF BoxArrives, BoxCleared, ReportLead, HoldReachesBelt, DeliverAtPick, DeliverPickPose,
       PickPoseExpires, PlannerTick, DeliverTarget, Executor!OnTarget, vars, executorOnly, auxVars
  <2> QED BY <1>7, <2>1
<1> QED BY <1>1, <1>2, <1>3, <1>4, <1>5, <1>6, <1>8 DEF Next

LEMMA RunStepKeepsClaims ==
  ASSUME TypeInv, ClaimInv, RunStep
  PROVE  ClaimInv'
<1>0. UNCHANGED <<nextSlot, pending, targetQ>>
  BY DEF RunStep, plannerVars
<1>1. where \in [Boxes -> {Executor!Unloaded, Executor!Upstream, Executor!AtPick,
                         Executor!InGripper} \cup Slots]
  BY DEF TypeInv, ExecutorInv, Executor!ExecutorTypeOK
<1>2. CASE Executor!TakeTarget
  <2>1. /\ pc' = "taken" /\ current' = next /\ next' = NoTarget /\ next # NoTarget /\ where' = where
    BY <1>2 DEF Executor!TakeTarget
  <2>2. Claims' \subseteq Claims
    BY <1>0, <2>1 DEF Claims, Live, OnPallet
  <2> QED BY <1>0, <2>2, NoNewClaim
<1>3. CASE Executor!Grasp
  <2>1. /\ pc = "held" /\ pc' = "carry" /\ UNCHANGED <<current, next>>
        /\ where' = [where EXCEPT ![current.box] = Executor!InGripper]
    BY <1>3 DEF Executor!Grasp
  <2>2. Executor!InGripper \notin Slots
    BY GridType DEF Executor!InGripper, Slots
  <2>3. \A b \in Boxes : where'[b] \in Slots => where[b] = where'[b]
    BY <1>1, <2>1, <2>2
  <2>4. Live' \subseteq Live
    BY <1>0, <2>1 DEF Live
  <2>5. Claims' \subseteq Claims
    BY <2>3, <2>4 DEF Claims, OnPallet
  <2> QED BY <1>0, <2>5, NoNewClaim
<1>4. CASE Executor!PutDown
  <2>1. /\ pc = "carry" /\ pc' = "retreat" /\ UNCHANGED <<current, next>>
        /\ where' = [where EXCEPT ![current.box] = current.slot]
    BY <1>4 DEF Executor!PutDown
  <2>2. current \in Target /\ NoTarget \notin Target
    BY <2>1, HandoverTypes DEF Working, Executor!InCycle, Executor!Carrying
  <2>3. current \in Live /\ current = [box |-> current.box, slot |-> current.slot]
    BY <2>1, <2>2 DEF Live, Target
  <2>4. Live' \subseteq Live
    BY <1>0, <2>1 DEF Live
  <2>5. \A b \in Boxes : b # current.box => where'[b] = where[b]
    BY <1>1, <2>1
  <2>a. current.box \in Boxes => where'[current.box] = current.slot
    BY <1>1, <2>1
  <2>6. Claims' \subseteq Claims
    <3>1. SUFFICES ASSUME NEW b \in Boxes, where'[b] \in Slots
                   PROVE  [box |-> b, slot |-> where'[b]] \in Claims
      BY <2>4 DEF Claims, OnPallet
    <3>2. CASE b = current.box
      BY <2>3, <2>a, <3>2 DEF Claims
    <3>3. CASE b # current.box
      BY <2>5, <3>1, <3>3 DEF Claims, OnPallet
    <3> QED BY <3>2, <3>3
  <2> QED BY <1>0, <2>6, NoNewClaim
<1>5. CASE ~Executor!TakeTarget /\ ~Executor!Grasp /\ ~Executor!PutDown
  <2>1. /\ UNCHANGED <<next, current, where>>
        /\ pc' \in {"taken", "held", "carry"} => pc \in {"taken", "held", "carry"}
    BY <1>5 DEF RunStep, Executor!RunStep, Executor!ReleaseAtStart, Executor!HoldBelt, Executor!Retreat,
       Executor!ReleaseBelt, Executor!PublishResult, Executor!Settle
  <2>2. Claims' \subseteq Claims
    BY <1>0, <2>1 DEF Claims, Live, OnPallet
  <2> QED BY <1>0, <2>2, NoNewClaim
<1> QED BY <1>2, <1>3, <1>4, <1>5

LEMMA ResultKeepsClaims ==
  ASSUME TypeInv, TypeInv', SuccessInv, ClaimInv, DeliverResult
  PROVE  ClaimInv'
<1> DEFINE r == Head(resultQ)
           R == [box : Boxes, slot : Slots, success : BOOLEAN]
<1>1. resultQ \in Seq(R) /\ resultQ # <<>> /\ OnResult(r)
  BY DEF TypeInv, ExecutorInv, Executor!ExecutorTypeOK, DeliverResult
<1>2. UNCHANGED <<pc, next, current, where>>
  BY DEF DeliverResult
<1> HIDE DEF R
<1>3. r.success
  BY <1>1, DeliverElements DEF SuccessInv
<1>4. CASE IsPending(r)
  <2>1. nextSlot' = nextSlot + 1 /\ TryAssign(NoTarget, StatusOf(nextSlot', NoTarget))
    BY <1>1, <1>3, <1>4 DEF OnResult, Credit
  <2> QED BY <1>2, <2>1, AssignKeepsClaims
<1>5. CASE ~IsPending(r)
  <2>1. UNCHANGED <<nextSlot, pending, targetQ>>
    BY <1>1, <1>5 DEF OnResult
  <2>2. Claims' \subseteq Claims
    BY <1>2, <2>1 DEF Claims, Live, OnPallet
  <2> QED BY <2>1, <2>2, NoNewClaim
<1> QED BY <1>4, <1>5

\* A reset that was asked for finds no target under way.
LEMMA ResetKeepsClaims ==
  ASSUME TypeInv, SuccessInv, UnloadAndReset
  PROVE  ClaimInv'
<1>1. MaxResets # 0
  BY DEF SuccessInv, UnloadAndReset, Spend
<1>2. ArmRests
  BY <1>1 DEF SuccessInv, UnloadAndReset
<1>3. /\ pending' = NoTarget /\ targetQ' = <<>> /\ next' = NoTarget /\ pc' = "waiting"
      /\ where' = [b \in Boxes |-> IF where[b] \in Slots THEN Executor!Unloaded ELSE where[b]]
  BY <1>2 DEF ArmRests, UnloadAndReset, Reset
<1>4. Live' = {}
  BY <1>3 DEF Live
<1>5. OnPallet' = {}
  BY <1>3, GridType DEF OnPallet, Slots, Executor!Unloaded
<1>6. Claims' = {}
  BY <1>4, <1>5 DEF Claims
<1> QED BY <1>6 DEF ClaimInv

LEMMA ClaimNext == TypeInv /\ TypeInv' /\ SuccessInv /\ ClaimInv /\ [Next]_vars => ClaimInv'
<1> SUFFICES ASSUME TypeInv, TypeInv', SuccessInv, ClaimInv, [Next]_vars PROVE ClaimInv'
  OBVIOUS
<1>1. CASE BoxArrives
  <2>1. /\ UNCHANGED <<nextSlot, pending, targetQ, pc, next, current>>
        /\ where' = [where EXCEPT ![arrived + 1] = AtPick]
    BY <1>1 DEF BoxArrives, plannerVars
  <2>2. where \in [Boxes -> {Executor!Unloaded, Executor!Upstream, Executor!AtPick,
                           Executor!InGripper} \cup Slots]
    BY DEF TypeInv, ExecutorInv, Executor!ExecutorTypeOK
  <2>3. AtPick \notin Slots
    BY GridType DEF AtPick, Executor!AtPick, Slots
  <2>4. \A b \in Boxes : where'[b] \in Slots => where[b] = where'[b]
    BY <2>1, <2>2, <2>3
  <2>5. Live' = Live
    BY <2>1 DEF Live
  <2>6. Claims' \subseteq Claims
    BY <2>4, <2>5 DEF Claims, OnPallet
  <2> QED BY <2>1, <2>6, NoNewClaim
<1>2. CASE \/ BoxCleared \/ ReportLead \/ HoldReachesBelt \/ PickPoseExpires \/ UNCHANGED vars
  <2>1. UNCHANGED <<nextSlot, pending, targetQ, pc, next, current, where>>
    BY <1>2 DEF BoxCleared, ReportLead, HoldReachesBelt, PickPoseExpires, PoseExpires, vars,
       plannerVars, executorOnly
  <2>2. Claims' \subseteq Claims
    BY <2>1 DEF Claims, Live, OnPallet
  <2> QED BY <2>1, <2>2, NoNewClaim
<1>3. CASE DeliverAtPick \/ DeliverPickPose
  <2>1. /\ UNCHANGED <<pc, next, current, where>> /\ nextSlot' = nextSlot
        /\ TryAssign(pending, status)
    BY <1>3 DEF DeliverAtPick, OnAtPick, DeliverPickPose, OnPickPose, executorOnly
  <2> QED BY <2>1, AssignKeepsClaims
<1>4. CASE DeliverResult
  BY <1>4, ResultKeepsClaims
<1>5. CASE PlannerTick
  <2>1. /\ UNCHANGED <<nextSlot, pending, pc, next, current, where>>
        /\ targetQ' = IF pending # NoTarget THEN Publish(targetQ, pending, Depth) ELSE targetQ
    BY <1>5 DEF PlannerTick, Tick, executorOnly
  <2>2. \A i \in 1..Len(targetQ') : \/ pending # NoTarget /\ targetQ'[i] = pending
                                   \/ \E j \in 1..Len(targetQ) : targetQ'[i] = targetQ[j]
    <3>1. targetQ \in Seq(Target) /\ Len(targetQ) <= Depth /\ pending \in Target \cup {NoTarget}
      BY HandoverTypes
    <3>2. CASE pending # NoTarget
      BY <2>1, <3>1, <3>2, PublishRange, PlannerAssumption
    <3>3. CASE pending = NoTarget
      BY <2>1, <3>3
    <3> QED BY <3>2, <3>3
  <2>3. Claims' \subseteq Claims
    BY <2>1, <2>2 DEF Claims, Live, OnPallet
  <2> QED BY <2>1, <2>3, NoNewClaim
<1>6. CASE UnloadAndReset
  BY <1>6, ResetKeepsClaims
<1>7. CASE DeliverTarget
  <2>1. /\ UNCHANGED <<nextSlot, pending, pc, current, where>> /\ targetQ # <<>>
        /\ next' = next \/ next' = Head(targetQ)
        /\ targetQ' = Tail(targetQ)
    BY <1>7 DEF DeliverTarget, Executor!OnTarget
  <2>2. targetQ \in Seq(Target)
    BY HandoverTypes
  <2>3. /\ 1 \in 1..Len(targetQ) /\ Head(targetQ) = targetQ[1]
        /\ \A i \in 1..Len(targetQ') : i + 1 \in 1..Len(targetQ) /\ targetQ'[i] = targetQ[i + 1]
    BY <2>1, <2>2, DeliverElements
  <2>4. Claims' \subseteq Claims
    BY <2>1, <2>3 DEF Claims, Live, OnPallet
  <2> QED BY <2>1, <2>4, NoNewClaim
<1>8. CASE StartExecutor
  <2>1. /\ UNCHANGED <<nextSlot, pending, where>>
        /\ pc' = "start" /\ next' = NoTarget /\ targetQ' = <<>>
    BY <1>8 DEF StartExecutor, Executor!Start
  <2>2. Claims' \subseteq Claims
    BY <2>1 DEF Claims, Live, OnPallet
  <2> QED BY <2>1, <2>2, NoNewClaim
<1>9. CASE RunStep
  BY <1>9, RunStepKeepsClaims
<1>10. CASE MotionFails
  BY <1>10 DEF MotionFails, Spend, SuccessInv
<1>11. CASE RestartAfterFailure \/ ExecutorCrashes
  <2>1. UNCHANGED <<nextSlot, pending, targetQ, next, current, where>> /\ pc' = "down"
    BY <1>11 DEF RestartAfterFailure, Executor!Exit, ExecutorCrashes, Executor!Crash, plannerVars
  <2>2. Claims' \subseteq Claims
    BY <2>1 DEF Claims, Live, OnPallet
  <2> QED BY <2>1, <2>2, NoNewClaim
<1> QED BY <1>1, <1>2, <1>3, <1>4, <1>5, <1>6, <1>7, <1>8, <1>9, <1>10, <1>11 DEF Next

\* No two boxes end up in one cell when the executor is killed, anywhere and
\* any number of times, and repeats a cycle it knows nothing of; and none on
\* the pallets that follow a reset the planner asked for.
THEOREM CellsNotShared == Repeatable /\ Spec => []OneBoxPerCell
<1>1. Init => TypeInv
  BY TypeInvInit
<1>2. Repeatable /\ Init => RepeatInv
  BY RepeatInit
<1>3. TypeInv /\ [Next]_vars => TypeInv'
  BY TypeInvNext
<1>4. TypeInv /\ TypeInv' /\ RepeatInv /\ [Next]_vars => RepeatInv'
  BY HeldNext, SuccessNext, ClaimNext DEF RepeatInv
<1>5. TypeInv /\ RepeatInv => OneBoxPerCell
  BY ClaimsImply DEF RepeatInv
<1> QED BY <1>1, <1>2, <1>3, <1>4, <1>5, PTL DEF Spec
=============================================================================
