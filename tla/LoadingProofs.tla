---------------------------- MODULE LoadingProofs ----------------------------
(***************************************************************************)
(* No box is grabbed twice, proved for a cell whose executor is not killed *)
(* and whose pallet is not reset.  The planner only remembers the last box *)
(* it placed, and the ones that failed; this is enough because boxes come  *)
(* in belt order: the reports of the lead box, queued or received, never   *)
(* go back behind the last placed box or the pending one.                  *)
(***************************************************************************)
EXTENDS PalletCellProofs, FiniteSetTheorems

\* Box b was placed or has failed: the planner will not hand it out again.
Used(b) == b \in failedIds \/ (lastPlacedId \in Boxes /\ b <= lastPlacedId)

\* Box b was grabbed in a cycle whose result the planner does not know yet.
InHand(b) ==
  /\ b = current.box
  /\ \/ pc \in {"carry", "retreat", "release", "publish"}
     \/ pc \in {"settle", "waiting", "halted"} /\ resultQ # <<>>

GraspInv ==
  /\ pc \in {"waiting", "halted"} /\ doneId # NoBox => doneId = current.box
  /\ \A b \in Boxes : /\ grasps[b] <= 1
                      /\ grasps[b] = 1 => Used(b) \/ InHand(b)

\* Reports of the lead box are in belt order, and none is of a box before the
\* last placed one.
Reports == {atPickId} \cup {idQ[i] : i \in 1..Len(idQ)}

OrderInv ==
  /\ head # NoBox => head = arrived
  /\ lastPlacedId # NoBox => lastPlacedId <= arrived
  /\ \A id \in Reports :
       id # NoBox => id <= arrived /\ (lastPlacedId # NoBox => lastPlacedId <= id)
  /\ \A i \in 1..Len(idQ) : idQ[i] # NoBox /\ atPickId # NoBox => atPickId <= idQ[i]
  /\ \A i, j \in 1..Len(idQ) :
       i < j /\ idQ[i] # NoBox /\ idQ[j] # NoBox => idQ[i] <= idQ[j]

\* The pending box is a new one, and none of the reports is of a box before it.
PendingInv ==
  pending # NoTarget =>
    /\ ~Used(pending.box)
    /\ pending.box <= arrived
    /\ \A id \in Reports : id # NoBox => pending.box <= id

OnceInv == GraspInv /\ OrderInv /\ PendingInv

-----------------------------------------------------------------------------
LEMMA OnceImplies == OnceInv => GraspedOnce
  BY DEF OnceInv, GraspInv, GraspedOnce

LEMMA OnceInit == Init => OnceInv
<1> SUFFICES ASSUME Init PROVE OnceInv
  OBVIOUS
<1>1. GraspInv
  BY DEF Init, Executor!ExecutorInit, GraspInv
<1>2. OrderInv /\ PendingInv
  BY DEF Init, PlannerInit, OrderInv, PendingInv, Reports
<1> QED BY <1>1, <1>2 DEF OnceInv

\* Boxes are numbers; NoBox is none of them.
BoxTypes ==
  /\ Boxes \subseteq Nat /\ NoBox \notin Boxes
  /\ atPickId \in Boxes \cup {NoBox} /\ lastPlacedId \in Boxes \cup {NoBox}
  /\ head \in Boxes \cup {NoBox} /\ arrived \in Nat
  /\ idQ \in Seq(Boxes \cup {NoBox}) /\ Len(idQ) <= Depth /\ Len(idQ) \in Nat
  /\ \A i \in 1..Len(idQ) : idQ[i] \in Boxes \cup {NoBox}
  /\ Reports \subseteq Boxes \cup {NoBox}

LEMMA BoxTypesNow == TypeInv => BoxTypes
<1> SUFFICES ASSUME TypeInv PROVE BoxTypes
  OBVIOUS
<1>1. Boxes \subseteq Nat /\ NoBox \notin Boxes
  BY CellAssumption, PlannerAssumption
<1>2. atPickId \in Boxes \cup {NoBox} /\ lastPlacedId \in Boxes \cup {NoBox}
  BY DEF TypeInv, PlannerInv, PlannerTypeOK
<1>3. /\ head \in Boxes \cup {NoBox} /\ arrived \in Nat
      /\ idQ \in Seq(Boxes \cup {NoBox}) /\ Len(idQ) <= Depth
  BY CellAssumption DEF TypeInv, BeltInv
<1>4. Len(idQ) \in Nat /\ \A i \in 1..Len(idQ) : idQ[i] \in Boxes \cup {NoBox}
  BY <1>3, LenProperties
<1> QED BY <1>1, <1>2, <1>3, <1>4 DEF BoxTypes, Reports

LEMMA BoxTypesNext == TypeInv' => BoxTypes'
  BY BoxTypesNow, PTL

\* The reports and the planner's memory of placed boxes stay in order.
orderVars == <<head, arrived, idQ, atPickId, lastPlacedId>>

LEMMA OrderFrame ==
  ASSUME OrderInv, UNCHANGED orderVars
  PROVE  OrderInv' /\ Reports' = Reports
  BY DEF orderVars, OrderInv, Reports

LEMMA PendingFrame ==
  ASSUME TypeInv, PendingInv, pending' = pending, arrived' \in Nat, arrived <= arrived',
         UNCHANGED <<lastPlacedId, failedIds>>,
         \A id \in Reports' : id # NoBox => id \in Reports \/ arrived <= id,
         Reports' \subseteq Boxes \cup {NoBox}
  PROVE  PendingInv'
<1>1. BoxTypes
  BY BoxTypesNow
<1>2. pending # NoTarget => pending.box \in Nat
  BY <1>1, HandoverTypes DEF BoxTypes
<1> QED BY <1>1, <1>2 DEF PendingInv, Used, BoxTypes

\* A target that tryAssign() has just made is for a new box.
LEMMA NewPending ==
  ASSUME TypeInv', OrderInv', pending' \in Target, pending'.box = atPickId',
         pending'.box \notin {lastPlacedId'} \cup failedIds'
  PROVE  PendingInv'
<1>1. /\ Boxes \subseteq Nat /\ NoBox \notin Boxes
      /\ atPickId' \in Boxes \cup {NoBox} /\ lastPlacedId' \in Boxes \cup {NoBox}
      /\ arrived' \in Nat
      /\ \A i \in 1..Len(idQ') : idQ'[i] \in Boxes \cup {NoBox}
  BY BoxTypesNext DEF BoxTypes
<1>2. pending'.box \in Boxes
  BY DEF Target
<1>3. atPickId' # NoBox /\ atPickId' \in Reports'
  BY <1>1, <1>2 DEF Reports
<1>4. atPickId' <= arrived' /\ (lastPlacedId' # NoBox => lastPlacedId' <= atPickId')
  BY <1>3 DEF OrderInv
<1>5. ~Used(pending.box)'
  BY <1>1, <1>2, <1>4 DEF Used
<1>6. \A id \in Reports' : id # NoBox => atPickId' <= id
  BY <1>1, <1>2, <1>3 DEF OrderInv, Reports
<1> QED BY <1>4, <1>5, <1>6 DEF PendingInv

\* The steps of the belt.
LEMMA ArrivalKeepsOrder ==
  ASSUME TypeInv, TypeInv', OrderInv, PendingInv, BoxArrives
  PROVE  OrderInv' /\ PendingInv'
<1>1. /\ arrived' = arrived + 1 /\ head' = arrived + 1
      /\ UNCHANGED <<idQ, atPickId, lastPlacedId, failedIds, pending>>
  BY DEF BoxArrives, plannerVars
<1>2. /\ arrived \in Nat /\ Boxes \subseteq Nat /\ lastPlacedId \in Boxes \cup {NoBox}
      /\ Reports \subseteq Boxes \cup {NoBox}
  BY BoxTypesNow DEF BoxTypes
<1>3. Reports' = Reports
  BY <1>1 DEF Reports
<1>4. OrderInv'
  BY <1>1, <1>2, <1>3 DEF OrderInv
<1> QED BY <1>1, <1>2, <1>3, <1>4, PendingFrame

LEMMA ReportKeepsOrder ==
  ASSUME TypeInv, TypeInv', OrderInv, PendingInv, ReportLead
  PROVE  OrderInv' /\ PendingInv'
<1>1. /\ idQ' = Publish(idQ, head, Depth)
      /\ UNCHANGED <<head, arrived, atPickId, lastPlacedId, failedIds, pending>>
  BY DEF ReportLead, plannerVars
<1>2. /\ Boxes \subseteq Nat /\ NoBox \notin Boxes /\ arrived \in Nat
      /\ head \in Boxes \cup {NoBox} /\ lastPlacedId \in Boxes \cup {NoBox}
      /\ atPickId \in Boxes \cup {NoBox}
      /\ idQ \in Seq(Boxes \cup {NoBox}) /\ Len(idQ) <= Depth
      /\ \A i \in 1..Len(idQ) : idQ[i] \in Boxes \cup {NoBox}
      /\ Reports' \subseteq Boxes \cup {NoBox}
  BY BoxTypesNow, BoxTypesNext DEF BoxTypes
<1> DEFINE M == Boxes \cup {NoBox}
<1>a. idQ \in Seq(M) /\ head \in M /\ Len(idQ) <= Depth
  BY <1>2
<1> HIDE DEF M
<1>3. Len(idQ') \in Nat /\ idQ'[Len(idQ')] = head
  BY <1>1, <1>a, PublishElements, PlannerAssumption
<1>4. PICK k \in {0, 1} : \A i \in 1..Len(idQ') - 1 : i + k \in 1..Len(idQ) /\ idQ'[i] = idQ[i + k]
  BY <1>1, <1>a, PublishElements, PlannerAssumption
<1>5. \A id \in Reports' : id \in Reports \/ id = head
  BY <1>1, <1>3, <1>4 DEF Reports
<1>6. \A i \in 1..Len(idQ) : idQ[i] \in Reports
  BY DEF Reports
<1>7. head # NoBox => head = arrived
  BY DEF OrderInv
<1>8. \A id \in Reports : id # NoBox => id <= arrived /\ (lastPlacedId # NoBox => lastPlacedId <= id)
  BY DEF OrderInv
<1>9. \A i \in 1..Len(idQ') : idQ'[i] # NoBox /\ atPickId # NoBox => atPickId <= idQ'[i]
  <2>1. SUFFICES ASSUME NEW i \in 1..Len(idQ'), idQ'[i] # NoBox, atPickId # NoBox
                 PROVE  atPickId <= idQ'[i]
    OBVIOUS
  <2>2. CASE i = Len(idQ')
    BY <1>2, <1>3, <1>7, <1>8, <2>1, <2>2 DEF Reports
  <2>3. CASE i # Len(idQ')
    BY <1>3, <1>4, <2>1, <2>3 DEF OrderInv
  <2> QED BY <2>2, <2>3
<1>10. \A i, j \in 1..Len(idQ') : i < j /\ idQ'[i] # NoBox /\ idQ'[j] # NoBox => idQ'[i] <= idQ'[j]
  <2>1. SUFFICES ASSUME NEW i \in 1..Len(idQ'), NEW j \in 1..Len(idQ'), i < j,
                        idQ'[i] # NoBox, idQ'[j] # NoBox
                 PROVE  idQ'[i] <= idQ'[j]
    OBVIOUS
  <2>2. i + k \in 1..Len(idQ) /\ idQ'[i] = idQ[i + k]
    BY <1>3, <1>4, <2>1
  <2>3. CASE j = Len(idQ')
    BY <1>3, <1>6, <1>7, <1>8, <2>1, <2>2, <2>3
  <2>4. CASE j # Len(idQ')
    <3>1. j + k \in 1..Len(idQ) /\ idQ'[j] = idQ[j + k] /\ i + k < j + k
      BY <1>3, <1>4, <2>1, <2>4
    <3> QED BY <2>1, <2>2, <3>1 DEF OrderInv
  <2> QED BY <2>3, <2>4
<1>11. \A id \in Reports' : id # NoBox => id <= arrived /\ (lastPlacedId # NoBox => lastPlacedId <= id)
  BY <1>2, <1>5, <1>7, <1>8 DEF OrderInv
<1>12. OrderInv'
  BY <1>1, <1>7, <1>9, <1>10, <1>11 DEF OrderInv
<1>13. \A id \in Reports' : id # NoBox => id \in Reports \/ arrived <= id
  BY <1>2, <1>5, <1>7
<1> QED BY <1>1, <1>2, <1>12, <1>13, PendingFrame

\* The planner receives a report of the lead box.
LEMMA DeliveryKeepsOrder ==
  ASSUME TypeInv, TypeInv', OrderInv, PendingInv, DeliverAtPick
  PROVE  OrderInv' /\ PendingInv'
<1>1. /\ idQ # <<>> /\ atPickId' = Head(idQ) /\ idQ' = Tail(idQ)
      /\ TryAssign(pending, status)
      /\ UNCHANGED <<head, arrived, lastPlacedId, failedIds>>
  BY DEF DeliverAtPick, OnAtPick
<1>2. BoxTypes /\ BoxTypes'
  BY BoxTypesNow, BoxTypesNext
<1> DEFINE M == Boxes \cup {NoBox}
<1>a. idQ \in Seq(M)
  BY <1>2 DEF BoxTypes
<1> HIDE DEF M
<1>3. /\ 1 \in 1..Len(idQ) /\ atPickId' = idQ[1]
      /\ \A i \in 1..Len(idQ') : i + 1 \in 1..Len(idQ) /\ idQ'[i] = idQ[i + 1]
  BY <1>1, <1>a, DeliverElements
<1>4. Reports' \subseteq Reports
  BY <1>3 DEF Reports
<1>5. \A i \in 1..Len(idQ') : idQ'[i] # NoBox /\ atPickId' # NoBox => atPickId' <= idQ'[i]
  <2>1. SUFFICES ASSUME NEW i \in 1..Len(idQ'), idQ'[i] # NoBox, atPickId' # NoBox
                 PROVE  atPickId' <= idQ'[i]
    OBVIOUS
  <2>2. i + 1 \in 1..Len(idQ) /\ idQ'[i] = idQ[i + 1] /\ 1 < i + 1
    BY <1>3
  <2> QED BY <1>3, <2>1, <2>2 DEF OrderInv
<1>6. \A i, j \in 1..Len(idQ') : i < j /\ idQ'[i] # NoBox /\ idQ'[j] # NoBox => idQ'[i] <= idQ'[j]
  <2>1. SUFFICES ASSUME NEW i \in 1..Len(idQ'), NEW j \in 1..Len(idQ'), i < j,
                        idQ'[i] # NoBox, idQ'[j] # NoBox
                 PROVE  idQ'[i] <= idQ'[j]
    OBVIOUS
  <2>2. /\ i + 1 \in 1..Len(idQ) /\ idQ'[i] = idQ[i + 1]
        /\ j + 1 \in 1..Len(idQ) /\ idQ'[j] = idQ[j + 1]
        /\ i + 1 < j + 1
    BY <1>3, <2>1
  <2> QED BY <2>1, <2>2 DEF OrderInv
<1>7. OrderInv'
  BY <1>1, <1>4, <1>5, <1>6 DEF OrderInv
<1>8. CASE pending' = pending
  BY <1>1, <1>2, <1>4, <1>7, <1>8, PendingFrame DEF BoxTypes
<1>9. CASE pending' # pending
  <2>1. pending'.box = atPickId' /\ pending'.box \notin {lastPlacedId'} \cup failedIds' /\ pending = NoTarget
    BY <1>1, <1>9, TryAssignEffect
  <2>2. pending' \in Target
    BY <1>9, <2>1 DEF TypeInv, PlannerInv, PlannerTypeOK
  <2> QED BY <1>7, <2>1, <2>2, NewPending
<1> QED BY <1>7, <1>8, <1>9

\* A pick pose may be what a waiting box lacked.
LEMMA PoseKeepsOrder ==
  ASSUME TypeInv, TypeInv', OrderInv, PendingInv, DeliverPickPose
  PROVE  OrderInv' /\ PendingInv'
<1>1. TryAssign(pending, status) /\ UNCHANGED <<orderVars, failedIds>>
  BY DEF DeliverPickPose, OnPickPose, orderVars
<1>2. OrderInv' /\ Reports' = Reports
  BY <1>1, OrderFrame
<1>3. CASE pending' = pending
  BY <1>1, <1>2, <1>3, BoxTypesNow, BoxTypesNext, PendingFrame DEF BoxTypes, orderVars
<1>4. CASE pending' # pending
  <2>1. pending'.box = atPickId' /\ pending'.box \notin {lastPlacedId'} \cup failedIds' /\ pending = NoTarget
    BY <1>1, <1>4, TryAssignEffect
  <2>2. pending' \in Target
    BY <1>4, <2>1 DEF TypeInv, PlannerInv, PlannerTypeOK
  <2> QED BY <1>2, <2>1, <2>2, NewPending
<1> QED BY <1>2, <1>3, <1>4

\* A result: a placed box becomes the last placed one, which no report is behind.
LEMMA ResultKeepsOrder ==
  ASSUME TypeInv, TypeInv', Handover, OrderInv, PendingInv, DeliverResult
  PROVE  OrderInv' /\ PendingInv'
<1> DEFINE r == Head(resultQ)
<1>1. /\ pending \in Target /\ r.box = pending.box /\ Credit(r)
      /\ TryAssign(NoTarget, StatusOf(nextSlot', NoTarget))
  BY ResultDelivered
<1> HIDE DEF r
<1>2. UNCHANGED <<head, arrived, idQ, atPickId>>
  BY DEF DeliverResult, OnResult, beltVars
<1>3. Reports' = Reports
  BY <1>2 DEF Reports
<1>4. lastPlacedId' = lastPlacedId \/ lastPlacedId' = pending.box
  BY <1>1 DEF Credit
<1>5. pending # NoTarget
  BY <1>1, NoTargetIsNone
<1>6. OrderInv'
  BY <1>2, <1>3, <1>4, <1>5 DEF OrderInv, PendingInv
<1>7. CASE pending' = NoTarget
  BY <1>6, <1>7 DEF PendingInv
<1>8. CASE pending' # NoTarget
  <2>1. pending'.box = atPickId' /\ pending'.box \notin {lastPlacedId'} \cup failedIds'
    BY <1>1, <1>8, TryAssignEffect
  <2>2. pending' \in Target
    BY <1>8 DEF TypeInv, PlannerInv, PlannerTypeOK
  <2> QED BY <1>6, <2>1, <2>2, NewPending
<1> QED BY <1>6, <1>7, <1>8

-----------------------------------------------------------------------------
(* Who was grabbed.                                                        *)

graspVars == <<pc, doneId, current, resultQ, grasps, lastPlacedId, failedIds>>

LEMMA GraspFrame ==
  ASSUME GraspInv, UNCHANGED graspVars
  PROVE  GraspInv'
  BY DEF graspVars, GraspInv, Used, InHand

\* The box of a delivered result goes from the hand into the planner's memory.
LEMMA ResultKeepsGrasp ==
  ASSUME TypeInv, TypeInv', Handover, GraspInv, PendingInv, DeliverResult
  PROVE  GraspInv'
<1> DEFINE r == Head(resultQ)
<1>1. /\ pc \in {"waiting", "settle", "halted"}
      /\ pending \in Target /\ pending.box = LastBox
      /\ r.box = pending.box /\ resultQ # <<>> /\ resultQ' = <<>>
      /\ Credit(r)
  BY ResultDelivered
<1> HIDE DEF r
<1>2. UNCHANGED <<pc, doneId, current, grasps>>
  BY DEF DeliverResult, auxVars
<1>3. /\ Boxes \subseteq Nat /\ NoBox \notin Boxes /\ lastPlacedId \in Boxes \cup {NoBox}
      /\ pending.box \in Boxes /\ pending # NoTarget
  BY <1>1, BoxTypesNow, HandoverTypes DEF BoxTypes
<1>4. current.box = pending.box
  BY <1>1, <1>3 DEF LastBox, GraspInv
<1>5. \/ lastPlacedId' = pending.box /\ failedIds' = failedIds
      \/ lastPlacedId' = lastPlacedId /\ failedIds' = failedIds \cup {pending.box}
  BY <1>1 DEF Credit
<1>6. \A b \in Boxes : Used(b) => Used(b)'
  <2>1. ~Used(pending.box)
    BY <1>3 DEF PendingInv
  <2>2. pending.box \in Nat /\ (lastPlacedId \in Boxes => lastPlacedId \in Nat)
    BY <1>3
  <2>3. lastPlacedId \in Boxes => lastPlacedId < pending.box
    BY <2>1, <2>2 DEF Used
  <2>4. SUFFICES ASSUME NEW b \in Boxes, Used(b) PROVE Used(b)'
    OBVIOUS
  <2>5. b \in Nat
    BY <1>3
  <2>6. CASE lastPlacedId' = pending.box /\ failedIds' = failedIds
    BY <1>3, <2>2, <2>3, <2>4, <2>5, <2>6 DEF Used
  <2>7. CASE lastPlacedId' = lastPlacedId /\ failedIds' = failedIds \cup {pending.box}
    BY <2>4, <2>7 DEF Used
  <2> QED BY <1>5, <2>6, <2>7
<1>7. \A b \in Boxes : b = pending.box => Used(b)'
  <2>1. pending.box \in Nat
    BY <1>3
  <2> QED BY <1>3, <1>5, <2>1 DEF Used
<1>8. \A b \in Boxes : InHand(b) => Used(b)'
  BY <1>4, <1>7 DEF InHand
<1> QED BY <1>2, <1>6, <1>8 DEF GraspInv

LEMMA RunStepKeepsGrasp ==
  ASSUME TypeInv, Handover, GraspInv, PendingInv, RunStep
  PROVE  GraspInv'
<1>0. UNCHANGED <<lastPlacedId, failedIds>>
  BY DEF RunStep, plannerVars
<1>1. \A b \in Boxes : Used(b) => Used(b)'
  BY <1>0 DEF Used
<1>2. CASE Executor!Grasp
  <2>1. /\ pc = "held" /\ pc' = "carry" /\ current' = current /\ doneId' = doneId
        /\ grasps' = [grasps EXCEPT ![current.box] = @ + 1]
    BY <1>2 DEF Executor!Grasp, RunStep
  <2>2. pending = current /\ current \in Target /\ current # NoTarget
    BY <2>1, NoTargetIsNone
    DEF Handover, BusyInv, Busy, TypeInv, ExecutorInv, Working, Executor!InCycle
  <2>3. current.box \in Boxes /\ ~Used(current.box) /\ ~InHand(current.box)
    BY <2>1, <2>2 DEF PendingInv, Target, InHand
  <2>4. grasps \in [Boxes -> Nat] /\ grasps[current.box] \in Nat
    BY <2>3 DEF TypeInv, AuxInv
  <2>5. grasps[current.box] = 0
    BY <2>3, <2>4 DEF GraspInv
  <2>6. grasps'[current.box] = 1 /\ InHand(current.box)'
    BY <2>1, <2>3, <2>4, <2>5 DEF InHand
  <2>7. \A b \in Boxes : b # current.box => grasps'[b] = grasps[b] /\ ~InHand(b)
    BY <2>1, <2>4 DEF InHand
  <2>8. \A b \in Boxes : b = current.box => InHand(b)'
    BY <2>1 DEF InHand
  <2> QED BY <1>1, <2>1, <2>6, <2>7, <2>8 DEF GraspInv
<1>3. CASE ~Executor!Grasp
  <2>1. grasps' = grasps /\ Executor!RunStep
    <3>1. pc # "held"
      BY <1>3 DEF RunStep, Executor!RunStep, Executor!ReleaseAtStart, Executor!TakeTarget,
         Executor!HoldBelt, Executor!Grasp, Executor!PutDown, Executor!Retreat,
         Executor!ReleaseBelt, Executor!PublishResult, Executor!Settle
    <3> QED BY <3>1 DEF RunStep
  <2>2. \A b \in Boxes : InHand(b) => InHand(b)'
    <3>1. CASE Executor!PublishResult
      <4>1. pc' = "settle" /\ current' = current
        BY <3>1 DEF Executor!PublishResult
      <4>2. resultQ' # <<>>
        BY <3>1, PublishNotEmpty DEF Executor!PublishResult, Executor!Publish, Publish
      <4> QED BY <4>1, <4>2 DEF InHand
    <3>2. CASE Executor!TakeTarget
      <4>1. pc = "waiting" /\ resultQ = <<>>
        BY <3>2 DEF Executor!TakeTarget, Handover, BetweenInv, Between, NextInv
      <4> QED BY <4>1 DEF InHand
    <3> QED BY <2>1, <3>1, <3>2
            DEF Executor!RunStep, Executor!ReleaseAtStart, Executor!HoldBelt, Executor!Grasp,
                Executor!PutDown, Executor!Retreat, Executor!ReleaseBelt, Executor!Settle, InHand
  <2>3. pc' \in {"waiting", "halted"} /\ doneId' # NoBox => doneId' = current'.box
    BY <2>1 DEF Executor!RunStep, Executor!ReleaseAtStart, Executor!TakeTarget, Executor!HoldBelt,
       Executor!Grasp, Executor!PutDown, Executor!Retreat, Executor!ReleaseBelt,
       Executor!PublishResult, Executor!Settle, Handover, StartInv, GraspInv
  <2> QED BY <1>1, <2>1, <2>2, <2>3 DEF GraspInv
<1> QED BY <1>2, <1>3

LEMMA OnceNext == TypeInv /\ TypeInv' /\ Handover /\ OnceInv /\ [Next]_vars => OnceInv'
<1> SUFFICES ASSUME TypeInv, TypeInv', Handover, GraspInv, OrderInv, PendingInv, [Next]_vars
             PROVE  GraspInv' /\ OrderInv' /\ PendingInv'
  BY DEF OnceInv
<1>a. ASSUME UNCHANGED graspVars PROVE GraspInv'
  BY <1>a, GraspFrame
<1>b. ASSUME UNCHANGED <<orderVars, failedIds, pending>> PROVE OrderInv' /\ PendingInv'
  BY <1>b, OrderFrame, BoxTypesNow, BoxTypesNext, PendingFrame DEF BoxTypes, orderVars
<1>1. CASE BoxArrives
  BY <1>1, <1>a, ArrivalKeepsOrder DEF BoxArrives, plannerVars, auxVars, graspVars
<1>2. CASE BoxCleared
  <2>1. UNCHANGED graspVars
    BY <1>2 DEF BoxCleared, plannerVars, executorOnly, auxVars, graspVars
  <2>2. OrderInv'
    BY <1>2 DEF BoxCleared, plannerVars, OrderInv, Reports
  <2>3. UNCHANGED <<pending, lastPlacedId, failedIds, arrived>> /\ Reports' = Reports
    BY <1>2 DEF BoxCleared, plannerVars, Reports
  <2>4. PendingInv'
    BY <2>3, BoxTypesNow, BoxTypesNext, PendingFrame DEF BoxTypes
  <2> QED BY <2>1, <2>2, <2>4, <1>a
<1>3. CASE ReportLead
  BY <1>3, <1>a, ReportKeepsOrder DEF ReportLead, plannerVars, executorOnly, auxVars, graspVars
<1>4. CASE HoldReachesBelt \/ PickPoseExpires \/ PlannerTick \/ UNCHANGED vars
  <2>1. UNCHANGED graspVars /\ UNCHANGED <<orderVars, failedIds, pending>>
    BY <1>4 DEF HoldReachesBelt, PickPoseExpires, PoseExpires, PlannerTick, Tick, vars, plannerVars,
       executorOnly, beltVars, auxVars, graspVars, orderVars
  <2> QED BY <2>1, <1>a, <1>b
<1>5. CASE DeliverAtPick
  BY <1>5, <1>a, DeliveryKeepsOrder DEF DeliverAtPick, OnAtPick, executorOnly, auxVars, graspVars
<1>6. CASE DeliverPickPose
  BY <1>6, <1>a, PoseKeepsOrder DEF DeliverPickPose, OnPickPose, executorOnly, auxVars, graspVars
<1>7. CASE DeliverResult
  BY <1>7, ResultKeepsOrder, ResultKeepsGrasp
<1>8. CASE UnloadAndReset
  BY <1>8, BudgetStep DEF UnloadAndReset, Handover, TypeInv
<1>9. CASE DeliverTarget
  <2>1. UNCHANGED graspVars /\ UNCHANGED <<orderVars, failedIds, pending>>
    BY <1>9 DEF DeliverTarget, Executor!OnTarget, beltVars, auxVars, graspVars, orderVars
  <2> QED BY <2>1, <1>a, <1>b
<1>10. CASE StartExecutor
  <2>1. /\ pc = "down" /\ pc' = "start"
        /\ UNCHANGED <<grasps, lastPlacedId, failedIds>>
        /\ UNCHANGED <<orderVars, failedIds, pending>>
    BY <1>10 DEF StartExecutor, Executor!Start, beltVars, auxVars, orderVars
  <2>2. GraspInv'
    BY <2>1 DEF GraspInv, Used, InHand
  <2> QED BY <2>1, <2>2, <1>b
<1>11. CASE RunStep
  <2>1. UNCHANGED <<orderVars, failedIds, pending>>
    BY <1>11 DEF RunStep, plannerVars, beltVars, orderVars
  <2> QED BY <1>11, <2>1, <1>b, RunStepKeepsGrasp
<1>12. CASE MotionFails
  <2>1. /\ pc \in {"held", "carry", "retreat"} /\ pc' = "publish"
        /\ UNCHANGED <<current, grasps, lastPlacedId, failedIds>>
        /\ UNCHANGED <<orderVars, failedIds, pending>>
    BY <1>12 DEF MotionFails, Executor!MotionFails, plannerVars, beltVars, orderVars
  <2>2. GraspInv'
    BY <2>1 DEF GraspInv, Used, InHand
  <2> QED BY <2>1, <2>2, <1>b
<1>13. CASE RestartAfterFailure
  <2>1. /\ pc = "halted" /\ pc' = "down" /\ resultQ = <<>>
        /\ UNCHANGED <<grasps, lastPlacedId, failedIds>>
        /\ UNCHANGED <<orderVars, failedIds, pending>>
    BY <1>13 DEF RestartAfterFailure, Executor!Exit, plannerVars, beltVars, orderVars
  <2>2. GraspInv'
    BY <2>1 DEF GraspInv, Used, InHand
  <2> QED BY <2>1, <2>2, <1>b
<1>14. CASE ExecutorCrashes
  BY <1>14, BudgetStep DEF ExecutorCrashes, Handover, TypeInv
<1> QED BY <1>1, <1>2, <1>3, <1>4, <1>5, <1>6, <1>7, <1>8, <1>9, <1>10, <1>11, <1>12, <1>13,
           <1>14 DEF Next

\* No box is grabbed twice, however many boxes come, cycles fail and
\* executors are restarted after a failure, and however often the planner
\* re-sends its targets to an executor that forgets its past at a restart.
THEOREM NoDoubleGrasp == Undisturbed /\ Spec => []GraspedOnce
<1>1. Init => TypeInv /\ OnceInv
  BY TypeInvInit, OnceInit
<1>2. Undisturbed /\ Init => Handover
  BY HandoverInit
<1>3. TypeInv /\ [Next]_vars => TypeInv'
  BY TypeInvNext
<1>4. TypeInv /\ TypeInv' /\ Handover /\ [Next]_vars => Handover'
  BY HandoverNext
<1>5. TypeInv /\ TypeInv' /\ Handover /\ OnceInv /\ [Next]_vars => OnceInv'
  BY OnceNext
<1>6. OnceInv => GraspedOnce
  BY OnceImplies
<1> QED BY <1>1, <1>2, <1>3, <1>4, <1>5, <1>6, PTL DEF Spec

-----------------------------------------------------------------------------
(* The pattern.  Without restarts a failed cycle ends the loading, so the  *)
(* pallet is in order as long as no cycle failed and stays as it is after. *)

\* Nobody kills, restarts or resets anything; motions may fail.
Unattended == Undisturbed /\ MaxRestarts = 0

\* The last cycle failed: run() ends, and the arm moves no more.
Failed == ~ok /\ pc \in {"publish", "settle", "halted"}

\* The box that was put down last is not yet counted by the planner.
Unconfirmed ==
  \/ pc \in {"retreat", "release"}
  \/ pc = "publish" /\ ok
  \/ pc = "settle" /\ ok /\ resultQ # <<>>
  \/ pc = "waiting" /\ resultQ # <<>>

PlacedBoxes == IF Unconfirmed THEN nextSlot + 1 ELSE nextSlot

\* A result says how the cycle ended.
OutcomeInv ==
  /\ budget.restart = 0
  /\ pc = "release" => ok
  /\ pc = "halted" => ~ok
  /\ pc \in {"settle", "halted"} /\ resultQ # <<>> => resultQ[1].success = ok
  /\ pc = "waiting" /\ resultQ # <<>> => resultQ[1].success

\* The gripper holds the box of this cycle or nothing.
GripperInv ==
  /\ pc = "carry" => where[current.box] = Executor!InGripper
  /\ \A b \in Boxes : where[b] = Executor!InGripper => b = current.box /\ (pc = "carry" \/ Failed)

\* Only a box that was grabbed can be anywhere but on the belt, and only one
\* that has arrived can be grabbed.
FreshInv ==
  \A b \in Boxes :
    /\ grasps[b] = 0 => where[b] \notin Slots \cup {Executor!InGripper}
    /\ b > arrived => grasps[b] = 0

\* The boxes on the pallet, in belt order, are those the planner has counted,
\* and the unconfirmed one.
PatternInv ==
  /\ ~Failed => FilledSlots = 0..PlacedBoxes - 1
  /\ Failed => NoHole
  /\ \A a, b \in OnPallet : where[a] = where[b] => a = b
  /\ \A a, b \in OnPallet : where[a] < where[b] => a < b
  /\ \A b \in OnPallet : \/ lastPlacedId \in Boxes /\ b <= lastPlacedId
                         \/ b = current.box /\ (Unconfirmed \/ Failed)

LoadInv == OutcomeInv /\ GripperInv /\ FreshInv /\ PatternInv

LEMMA LoadImplies == TypeInv /\ LoadInv => SoundLoading
<1> SUFFICES ASSUME TypeInv, LoadInv PROVE SoundLoading
  OBVIOUS
<1>1. /\ nextSlot \in Nat
      /\ Slots \subseteq Nat
  BY GridType DEF TypeInv, PlannerInv, PlannerTypeOK, Slots
<1>2. NoHole
  <2>1. CASE Failed
    BY <2>1 DEF LoadInv, PatternInv
  <2>2. CASE ~Failed
    <3>1. PlacedBoxes \in {nextSlot, nextSlot + 1} /\ FilledSlots = 0..PlacedBoxes - 1
      BY <2>2 DEF LoadInv, PatternInv, PlacedBoxes
    <3> QED BY <3>1 DEF NoHole
  <2> QED BY <2>1, <2>2
<1>3. OneBoxPerCell
  BY CellsDiffer DEF LoadInv, PatternInv, OneBoxPerCell, OnPallet
<1>4. Supported
  <2>1. SUFFICES ASSUME NEW b \in OnPallet, CellOf(where[b]).layer > 0
                 PROVE  \E a \in OnPallet : CellOf(where[a]) = [CellOf(where[b]) EXCEPT !.layer = @ - 1]
    BY DEF Supported
  <2> DEFINE s == where[b]
  <2>2. s \in Slots /\ s \in FilledSlots
    BY DEF OnPallet, FilledSlots
  <2>3. s - PerLayer \in Slots /\ CellOf(s - PerLayer) = [CellOf(s) EXCEPT !.layer = @ - 1]
    BY <2>1, <2>2, CellBelow
  <2>4. PICK n \in {nextSlot, nextSlot + 1} : FilledSlots = 0..n - 1
    BY <1>2 DEF NoHole
  <2> HIDE DEF s
  <2>5. s - PerLayer \in FilledSlots
    BY <1>1, <2>2, <2>3, <2>4, GridType
  <2>6. PICK a \in OnPallet : where[a] = s - PerLayer
    BY <2>5 DEF FilledSlots
  <2> QED BY <2>3, <2>6 DEF s
<1>5. GripperHoldsOne
  BY DEF LoadInv, GripperInv, GripperHoldsOne
<1> QED BY <1>2, <1>3, <1>4, <1>5 DEF SoundLoading

LEMMA LoadInit == Unattended /\ Init => LoadInv
<1> SUFFICES ASSUME Unattended, Init PROVE LoadInv
  OBVIOUS
<1>1. /\ pc = "down" /\ nextSlot = 0 /\ resultQ = <<>> /\ budget.restart = 0
      /\ grasps = [b \in Boxes |-> 0] /\ where = [b \in Boxes |-> -3]
  BY DEF Unattended, Init, PlannerInit, Executor!ExecutorInit, Executor!Upstream
<1>2. -3 \notin Slots \cup {Executor!InGripper}
  BY GridType DEF Slots, Executor!InGripper
<1>3. OnPallet = {} /\ FilledSlots = {}
  BY <1>1, <1>2 DEF OnPallet, FilledSlots
<1>4. ~Failed /\ ~Unconfirmed
  BY <1>1 DEF Failed, Unconfirmed
<1>5. 0..PlacedBoxes - 1 = {}
  BY <1>1, <1>4 DEF PlacedBoxes
<1>6. PatternInv
  BY <1>3, <1>4, <1>5 DEF PatternInv
<1>7. OutcomeInv /\ GripperInv /\ FreshInv
  BY <1>1, <1>2 DEF OutcomeInv, GripperInv, FreshInv
<1> QED BY <1>6, <1>7 DEF LoadInv

\* The types that the steps below use.
LEMMA LoadTypes ==
  ASSUME TypeInv
  PROVE  /\ where \in [Boxes -> {Executor!Unloaded, Executor!Upstream, Executor!AtPick,
                                 Executor!InGripper} \cup Slots]
         /\ Slots \subseteq Nat /\ nextSlot \in Nat /\ ok \in BOOLEAN
         /\ Executor!InGripper \notin Slots /\ AtPick \notin Slots /\ AtPick # Executor!InGripper
         /\ Boxes \subseteq Nat /\ arrived \in Nat
         /\ grasps \in [Boxes -> Nat]
<1>1. Boxes \subseteq Nat /\ arrived \in Nat
  BY CellAssumption DEF TypeInv, BeltInv
<1>2. nextSlot \in Nat /\ ok \in BOOLEAN /\ grasps \in [Boxes -> Nat]
  BY GridType DEF TypeInv, PlannerInv, PlannerTypeOK, ExecutorInv, Executor!ExecutorTypeOK, AuxInv
<1>3. where \in [Boxes -> {Executor!Unloaded, Executor!Upstream, Executor!AtPick,
                           Executor!InGripper} \cup Slots]
  BY DEF TypeInv, ExecutorInv, Executor!ExecutorTypeOK
<1>4. /\ Slots \subseteq Nat
      /\ Executor!InGripper \notin Slots /\ AtPick \notin Slots /\ AtPick # Executor!InGripper
  BY GridType DEF Slots, Executor!InGripper, AtPick, Executor!AtPick
<1> QED BY <1>1, <1>2, <1>3, <1>4

loadVars == <<pc, ok, current, resultQ, where, nextSlot, lastPlacedId, grasps, arrived>>

LEMMA LoadFrame ==
  ASSUME LoadInv, UNCHANGED loadVars, budget'.restart = budget.restart
  PROVE  LoadInv'
<1>1. OutcomeInv'
  BY DEF loadVars, LoadInv, OutcomeInv
<1>2. GripperInv' /\ FreshInv'
  BY DEF loadVars, LoadInv, GripperInv, FreshInv, Failed
<1>3. PatternInv'
  BY DEF loadVars, LoadInv, PatternInv, Failed, Unconfirmed, PlacedBoxes, NoHole, FilledSlots, OnPallet
<1> QED BY <1>1, <1>2, <1>3 DEF LoadInv

\* A step that moves no box on the pallet, and neither ends nor fails a cycle.
LEMMA PalletFrame ==
  ASSUME PatternInv, OnPallet' = OnPallet, \A b \in OnPallet : where'[b] = where[b],
         UNCHANGED <<nextSlot, lastPlacedId>>,
         Failed' <=> Failed, Unconfirmed' <=> Unconfirmed,
         current' = current \/ (~Failed /\ ~Unconfirmed)
  PROVE  PatternInv'
<1>1. FilledSlots' = FilledSlots
  BY DEF FilledSlots
<1>2. PlacedBoxes' = PlacedBoxes /\ NoHole' = NoHole
  BY <1>1 DEF PlacedBoxes, NoHole
<1>3. \A a, b \in OnPallet' : where'[a] = where[a] /\ where'[b] = where[b]
  OBVIOUS
<1> QED BY <1>1, <1>2, <1>3 DEF PatternInv

\* The next box arrives: it was never on the pallet nor in the gripper.
LEMMA ArrivalKeepsLoad ==
  ASSUME TypeInv, LoadInv, BoxArrives
  PROVE  LoadInv'
<1>1. /\ UNCHANGED <<pc, ok, current, resultQ, nextSlot, lastPlacedId, grasps, budget>>
      /\ arrived' = arrived + 1 /\ where' = [where EXCEPT ![arrived + 1] = AtPick]
      /\ arrived + 1 \in Boxes
  BY CellAssumption DEF BoxArrives, plannerVars, auxVars, TypeInv, BeltInv
<1>2. /\ \A b \in Boxes : b # arrived + 1 => where'[b] = where[b]
      /\ where'[arrived + 1] = AtPick
  BY <1>1, LoadTypes
<1>3. where[arrived + 1] \notin Slots \cup {Executor!InGripper}
  BY <1>1, LoadTypes DEF LoadInv, FreshInv
<1>4. AtPick \notin Slots \cup {Executor!InGripper}
  BY LoadTypes
<1>5. OutcomeInv'
  BY <1>1 DEF LoadInv, OutcomeInv
<1>6. (Failed' <=> Failed) /\ (Unconfirmed' <=> Unconfirmed)
  BY <1>1 DEF Failed, Unconfirmed
<1>7. GripperInv'
  <2>1. pc = "carry" => current.box # arrived + 1 /\ current.box \in Boxes
    BY <1>3, HandoverTypes DEF LoadInv, GripperInv, Working, Executor!InCycle, Executor!Carrying
  <2> QED BY <1>1, <1>2, <1>4, <1>6, <2>1 DEF LoadInv, GripperInv
<1>8. FreshInv'
  <2>1. \A b \in Boxes : b > arrived' => b > arrived
    BY <1>1, LoadTypes
  <2> QED BY <1>1, <1>2, <1>4, <2>1 DEF LoadInv, FreshInv
<1>9. PatternInv'
  <2>1. OnPallet' = OnPallet /\ \A b \in OnPallet : where'[b] = where[b]
    BY <1>2, <1>3, <1>4 DEF OnPallet
  <2> QED BY <1>1, <1>6, <2>1, PalletFrame DEF LoadInv
<1> QED BY <1>5, <1>7, <1>8, <1>9 DEF LoadInv

\* A result is delivered: the unconfirmed box is counted, or nothing changes.
LEMMA ResultKeepsLoad ==
  ASSUME TypeInv, TypeInv', Handover, OnceInv, LoadInv, DeliverResult
  PROVE  LoadInv'
<1> DEFINE r == Head(resultQ)
           R == [box : Boxes, slot : Slots, success : BOOLEAN]
<1>1. /\ pc \in {"waiting", "settle", "halted"}
      /\ pending \in Target /\ pending.box = LastBox
      /\ r.box = pending.box /\ resultQ # <<>> /\ resultQ' = <<>>
      /\ Credit(r)
  BY ResultDelivered
<1>2. UNCHANGED <<pc, ok, current, where, grasps, arrived, budget>>
  BY DEF DeliverResult, auxVars, beltVars
<1>3. r = resultQ[1]
  <2>1. resultQ \in Seq(R)
    BY DEF TypeInv, ExecutorInv, Executor!ExecutorTypeOK
  <2> HIDE DEF R
  <2> QED BY <1>1, <2>1, DeliverElements
<1> HIDE DEF r
<1>4. Boxes \subseteq Nat /\ NoBox \notin Boxes /\ pending.box \in Boxes /\ pending # NoTarget
  BY <1>1, LoadTypes, HandoverTypes
<1>5. current.box = pending.box
  BY <1>1, <1>4 DEF LastBox, OnceInv, GraspInv
<1>6. OutcomeInv' /\ FreshInv'
  BY <1>1, <1>2 DEF LoadInv, OutcomeInv, FreshInv
<1>7. Failed' <=> Failed
  BY <1>2 DEF Failed
<1>8. GripperInv'
  BY <1>2, <1>7 DEF LoadInv, GripperInv
<1>9. OnPallet' = OnPallet /\ FilledSlots' = FilledSlots
  BY <1>2 DEF OnPallet, FilledSlots
<1>10. CASE r.success
  <2>1. ~Failed /\ Unconfirmed
    BY <1>1, <1>3, <1>10 DEF LoadInv, OutcomeInv, Failed, Unconfirmed
  <2>2. ~Unconfirmed'
    BY <1>1, <1>2 DEF Unconfirmed
  <2>3. nextSlot' = nextSlot + 1 /\ lastPlacedId' = current.box
    BY <1>1, <1>5, <1>10 DEF Credit
  <2>4. PlacedBoxes' = PlacedBoxes
    BY <2>1, <2>2, <2>3 DEF PlacedBoxes
  <2>5. lastPlacedId \in Boxes => lastPlacedId < current.box
    <3>1. ~(lastPlacedId \in Boxes /\ current.box <= lastPlacedId)
      BY <1>4, <1>5 DEF OnceInv, PendingInv, Used
    <3>2. current.box \in Nat /\ (lastPlacedId \in Boxes => lastPlacedId \in Nat)
      BY <1>4, <1>5
    <3> QED BY <3>1, <3>2
  <2>6. \A b \in OnPallet : lastPlacedId' \in Boxes /\ b <= lastPlacedId'
    <3>1. SUFFICES ASSUME NEW b \in OnPallet PROVE b <= current.box
      BY <1>4, <1>5, <2>3
    <3>2. b \in Nat /\ current.box \in Nat
      BY <1>4, <1>5 DEF OnPallet
    <3>3. CASE lastPlacedId \in Boxes /\ b <= lastPlacedId
      BY <1>4, <2>5, <3>2, <3>3
    <3>4. CASE b = current.box
      BY <3>2, <3>4
    <3> QED BY <3>3, <3>4 DEF LoadInv, PatternInv
  <2>7. PatternInv'
    BY <1>2, <1>7, <1>9, <2>1, <2>4, <2>6 DEF LoadInv, PatternInv
  <2> QED BY <1>6, <1>8, <2>7 DEF LoadInv
<1>11. CASE ~r.success
  <2>1. nextSlot' = nextSlot /\ lastPlacedId' = lastPlacedId
    BY <1>1, <1>11 DEF Credit
  <2>2. Failed
    BY <1>1, <1>3, <1>11 DEF LoadInv, OutcomeInv, Failed
  <2>3. PatternInv'
    BY <1>2, <1>7, <1>9, <2>1, <2>2 DEF LoadInv, PatternInv, NoHole
  <2> QED BY <1>6, <1>8, <2>3 DEF LoadInv
<1> QED BY <1>10, <1>11

\* Grasp: the box is a new one, so nothing leaves the pallet.
LEMMA GraspEffect ==
  ASSUME TypeInv, Handover, OnceInv, LoadInv, RunStep, Executor!Grasp
  PROVE  /\ pc = "held" /\ pc' = "carry"
         /\ UNCHANGED <<current, ok, resultQ, nextSlot, lastPlacedId, arrived, budget>>
         /\ current.box \in Boxes /\ current.box <= arrived /\ ~Used(current.box)
         /\ current.slot = nextSlot /\ nextSlot \in Slots
         /\ \A b \in Boxes : b # current.box => where'[b] = where[b] /\ grasps'[b] = grasps[b]
         /\ where'[current.box] = Executor!InGripper /\ grasps'[current.box] = 1
         /\ OnPallet' = OnPallet /\ \A b \in OnPallet : where'[b] = where[b]
         /\ ~Failed /\ ~Failed' /\ ~Unconfirmed /\ ~Unconfirmed'
<1>1. /\ pc = "held" /\ pc' = "carry"
      /\ where' = [where EXCEPT ![current.box] = Executor!InGripper]
      /\ UNCHANGED <<current, ok, resultQ>>
  BY DEF Executor!Grasp
<1>2. /\ grasps' = [grasps EXCEPT ![current.box] = @ + 1]
      /\ UNCHANGED <<nextSlot, lastPlacedId, arrived, budget>>
  BY <1>1 DEF RunStep, plannerVars, beltVars
<1>3. pending = current /\ current \in Target /\ current # NoTarget /\ current.box \in Boxes
  BY <1>1, HandoverTypes DEF Handover, BusyInv, Busy, Working, Executor!InCycle
<1>4. ~Used(current.box) /\ ~InHand(current.box) /\ current.box <= arrived
  BY <1>1, <1>3 DEF OnceInv, PendingInv, InHand
<1>5. grasps[current.box] = 0
  <2>1. grasps[current.box] \in Nat /\ grasps[current.box] <= 1 /\ grasps[current.box] # 1
    BY <1>3, <1>4, LoadTypes DEF OnceInv, GraspInv
  <2> QED BY <2>1
<1>6. where[current.box] \notin Slots
  BY <1>3, <1>5 DEF LoadInv, FreshInv
<1>7. /\ \A b \in Boxes : b # current.box => where'[b] = where[b] /\ grasps'[b] = grasps[b]
      /\ where'[current.box] = Executor!InGripper /\ grasps'[current.box] = 1
  BY <1>1, <1>2, <1>3, <1>5, LoadTypes
<1>a. OnPallet' = OnPallet /\ \A b \in OnPallet : where'[b] = where[b]
  BY <1>6, <1>7, LoadTypes DEF OnPallet
<1>b. current.slot = nextSlot /\ nextSlot \in Slots
  BY <1>3 DEF TypeInv, PlannerInv, Target, Slots
<1>8. ~Failed /\ ~Failed' /\ ~Unconfirmed /\ ~Unconfirmed'
  BY <1>1 DEF Failed, Unconfirmed
<1> QED BY <1>1, <1>2, <1>3, <1>4, <1>7, <1>a, <1>b, <1>8

LEMMA GraspKeepsLoad ==
  ASSUME TypeInv, Handover, OnceInv, LoadInv, RunStep, Executor!Grasp
  PROVE  LoadInv'
<1>1. /\ pc = "held" /\ pc' = "carry"
      /\ UNCHANGED <<current, ok, resultQ, nextSlot, lastPlacedId, arrived, budget>>
      /\ current.box \in Boxes /\ current.box <= arrived
  BY GraspEffect
<1>7. /\ \A b \in Boxes : b # current.box => where'[b] = where[b] /\ grasps'[b] = grasps[b]
      /\ where'[current.box] = Executor!InGripper /\ grasps'[current.box] = 1
  BY GraspEffect
<1>8. ~Failed /\ ~Failed' /\ ~Unconfirmed /\ ~Unconfirmed'
  BY GraspEffect
<1>9. OutcomeInv'
  BY <1>1 DEF LoadInv, OutcomeInv
<1>10. GripperInv'
  BY <1>1, <1>7, <1>8 DEF LoadInv, GripperInv
<1>11. FreshInv'
  <2>1. SUFFICES ASSUME NEW b \in Boxes
                 PROVE  /\ grasps'[b] = 0 => where'[b] \notin Slots \cup {Executor!InGripper}
                        /\ b > arrived => grasps'[b] = 0
    BY <1>1 DEF FreshInv
  <2>2. CASE b = current.box
    BY <1>1, <1>7, <2>2, LoadTypes
  <2>3. CASE b # current.box
    BY <1>7, <2>3 DEF LoadInv, FreshInv
  <2> QED BY <2>2, <2>3
<1>12. PatternInv'
  <2>1. OnPallet' = OnPallet /\ \A b \in OnPallet : where'[b] = where[b]
    BY GraspEffect
  <2> QED BY <1>1, <1>8, <2>1, PalletFrame DEF LoadInv
<1> QED BY <1>9, <1>10, <1>11, <1>12 DEF LoadInv

\* PutDown: the box goes onto the next slot, on top of what is there.
LEMMA PutDownEffect ==
  ASSUME TypeInv, Handover, OnceInv, LoadInv, RunStep, Executor!PutDown
  PROVE  /\ pc = "carry" /\ pc' = "retreat"
         /\ UNCHANGED <<current, ok, resultQ, nextSlot, lastPlacedId, arrived, budget, grasps>>
         /\ current.box \in Boxes /\ ~Used(current.box)
         /\ nextSlot \in Slots /\ where[current.box] = Executor!InGripper
         /\ \A b \in Boxes : b # current.box => where'[b] = where[b]
         /\ where'[current.box] = nextSlot
         /\ ~Failed /\ ~Failed' /\ ~Unconfirmed /\ Unconfirmed'
         /\ FilledSlots = 0..nextSlot - 1
         /\ OnPallet' = OnPallet \cup {current.box} /\ current.box \notin OnPallet
         /\ \A b \in OnPallet : where'[b] = where[b] /\ where[b] \in 0..nextSlot - 1 /\ b # current.box
<1>1. /\ pc = "carry" /\ pc' = "retreat"
      /\ where' = [where EXCEPT ![current.box] = current.slot]
      /\ UNCHANGED <<current, ok, resultQ>>
  BY DEF Executor!PutDown
<1>2. UNCHANGED <<nextSlot, lastPlacedId, arrived, budget, grasps>>
  BY <1>1 DEF RunStep, plannerVars, beltVars
<1>3. pending = current /\ current \in Target /\ current # NoTarget /\ current.box \in Boxes
  BY <1>1, HandoverTypes
  DEF Handover, BusyInv, Busy, Working, Executor!InCycle, Executor!Carrying
<1>4. current.slot = nextSlot /\ nextSlot \in Slots
  BY <1>3 DEF TypeInv, PlannerInv, Target, Slots
<1>5. where[current.box] = Executor!InGripper
  BY <1>1 DEF LoadInv, GripperInv
<1>6. /\ \A b \in Boxes : b # current.box => where'[b] = where[b]
      /\ where'[current.box] = nextSlot
  BY <1>1, <1>3, <1>4, LoadTypes
<1>7. ~Failed /\ ~Failed' /\ ~Unconfirmed /\ Unconfirmed'
  BY <1>1 DEF Failed, Unconfirmed
<1>11. FilledSlots = 0..nextSlot - 1
  BY <1>7 DEF LoadInv, PatternInv, PlacedBoxes
<1>12. OnPallet' = OnPallet \cup {current.box} /\ current.box \notin OnPallet
  BY <1>3, <1>4, <1>5, <1>6, LoadTypes DEF OnPallet
<1>13. \A b \in OnPallet : where'[b] = where[b] /\ where[b] \in 0..nextSlot - 1 /\ b # current.box
  BY <1>6, <1>11, <1>12 DEF OnPallet, FilledSlots
<1>14. ~Used(current.box)
  BY <1>3 DEF OnceInv, PendingInv
<1> QED BY <1>1, <1>2, <1>3, <1>4, <1>5, <1>6, <1>7, <1>11, <1>12, <1>13, <1>14

LEMMA PutDownKeepsLoad ==
  ASSUME TypeInv, Handover, OnceInv, LoadInv, RunStep, Executor!PutDown
  PROVE  LoadInv'
<1>1. /\ pc = "carry" /\ pc' = "retreat" /\ UNCHANGED <<current, ok, resultQ>>
      /\ UNCHANGED <<nextSlot, lastPlacedId, arrived, budget, grasps>>
  BY PutDownEffect
<1>2. current.box \in Boxes /\ ~Used(current.box)
  BY PutDownEffect
<1>4. nextSlot \in Slots /\ where[current.box] = Executor!InGripper
  BY PutDownEffect
<1>6. /\ \A b \in Boxes : b # current.box => where'[b] = where[b]
      /\ where'[current.box] = nextSlot
  BY PutDownEffect
<1>7. ~Failed /\ ~Failed' /\ ~Unconfirmed /\ Unconfirmed'
  BY PutDownEffect
<1>11. FilledSlots = 0..nextSlot - 1
  BY PutDownEffect
<1>12. OnPallet' = OnPallet \cup {current.box} /\ current.box \notin OnPallet
  BY PutDownEffect
<1>13. \A b \in OnPallet : where'[b] = where[b] /\ where[b] \in 0..nextSlot - 1 /\ b # current.box
  BY PutDownEffect
<1>8. OutcomeInv'
  BY <1>1 DEF LoadInv, OutcomeInv
<1>9. GripperInv'
  BY <1>1, <1>4, <1>6, LoadTypes DEF LoadInv, GripperInv
<1>10. FreshInv'
  BY <1>1, <1>4, <1>6 DEF LoadInv, FreshInv
<1>14. \A b \in OnPallet : lastPlacedId \in Boxes /\ b <= lastPlacedId
  BY <1>7, <1>13 DEF LoadInv, PatternInv
<1>15. \A b \in OnPallet : b < current.box
  <2>1. ~(lastPlacedId \in Boxes /\ current.box <= lastPlacedId)
    BY <1>2 DEF Used
  <2>2. \A b \in OnPallet : b \in Nat
    BY LoadTypes DEF OnPallet
  <2> QED BY <1>2, <1>14, <2>1, <2>2, LoadTypes
<1>16. FilledSlots' = 0..PlacedBoxes' - 1
  <2>1. PlacedBoxes' = nextSlot + 1
    BY <1>1, <1>7 DEF PlacedBoxes
  <2>2. FilledSlots' = FilledSlots \cup {nextSlot}
    BY <1>6, <1>12, <1>13 DEF FilledSlots
  <2> QED BY <1>11, <2>1, <2>2, LoadTypes
<1>17. \A a, b \in OnPallet' : where'[a] = where'[b] => a = b
  <2>1. \A b \in OnPallet : where'[b] < nextSlot
    BY <1>13, LoadTypes
  <2>2. \A a, b \in OnPallet : where'[a] = where'[b] => a = b
    BY <1>13 DEF LoadInv, PatternInv
  <2> QED BY <1>6, <1>12, <2>1, <2>2, LoadTypes
<1>18. \A a, b \in OnPallet' : where'[a] < where'[b] => a < b
  <2>1. \A b \in OnPallet : where'[b] < nextSlot /\ where'[b] \in Nat
    BY <1>13, LoadTypes
  <2>2. \A a, b \in OnPallet : where'[a] < where'[b] => a < b
    BY <1>13 DEF LoadInv, PatternInv
  <2>3. SUFFICES ASSUME NEW a \in OnPallet', NEW b \in OnPallet', where'[a] < where'[b] PROVE a < b
    OBVIOUS
  <2>4. CASE a = current.box
    <3>1. where'[b] <= nextSlot /\ where'[b] \in Nat
      BY <1>6, <1>12, <2>1, LoadTypes
    <3> QED BY <1>6, <2>3, <2>4, <3>1, LoadTypes
  <2>5. CASE a # current.box /\ b = current.box
    BY <1>12, <1>15, <2>5
  <2>6. CASE a # current.box /\ b # current.box
    BY <1>12, <2>2, <2>3, <2>6
  <2> QED BY <2>4, <2>5, <2>6
<1>19. \A b \in OnPallet' : \/ lastPlacedId' \in Boxes /\ b <= lastPlacedId'
                            \/ b = current'.box /\ (Unconfirmed' \/ Failed')
  BY <1>1, <1>7, <1>12, <1>14
<1>20. PatternInv'
  BY <1>7, <1>16, <1>17, <1>18, <1>19 DEF PatternInv
<1> QED BY <1>8, <1>9, <1>10, <1>20 DEF LoadInv

\* The other steps of run() move no box.
LEMMA RunStepKeepsLoad ==
  ASSUME TypeInv, Handover, OnceInv, LoadInv, RunStep
  PROVE  LoadInv'
<1>1. CASE Executor!Grasp
  BY <1>1, GraspKeepsLoad
<1>2. CASE Executor!PutDown
  BY <1>2, PutDownKeepsLoad
<1>3. ASSUME pc # "held", UNCHANGED where, ~(pc = "carry"), ~(pc' = "carry"), OutcomeInv',
             Failed' <=> Failed, Unconfirmed' <=> Unconfirmed,
             current' = current \/ (~Failed /\ ~Unconfirmed)
      PROVE  LoadInv'
  <2>1. UNCHANGED <<nextSlot, lastPlacedId, arrived, grasps>>
    BY <1>3 DEF RunStep, plannerVars, beltVars
  <2>2. GripperInv'
    BY <1>3 DEF LoadInv, GripperInv
  <2>3. FreshInv'
    BY <1>3, <2>1 DEF LoadInv, FreshInv
  <2>4. OnPallet' = OnPallet
    BY <1>3 DEF OnPallet
  <2>5. PatternInv'
    BY <1>3, <2>1, <2>4, PalletFrame DEF LoadInv
  <2> QED BY <1>3, <2>2, <2>3, <2>5 DEF LoadInv
<1>4. budget' = budget
  BY DEF RunStep
<1>5. CASE Executor!ReleaseAtStart
  <2>1. pc = "start" /\ pc' = "waiting" /\ UNCHANGED <<current, ok, resultQ, where>>
    BY <1>5 DEF Executor!ReleaseAtStart
  <2>2. resultQ = <<>>
    BY <2>1 DEF Handover, StartInv
  <2>3. OutcomeInv'
    BY <1>4, <2>1, <2>2 DEF LoadInv, OutcomeInv
  <2>4. (Failed' <=> Failed) /\ (Unconfirmed' <=> Unconfirmed)
    BY <2>1, <2>2 DEF Failed, Unconfirmed
  <2> QED BY <1>3, <2>1, <2>3, <2>4
<1>6. CASE Executor!TakeTarget
  <2>1. pc = "waiting" /\ pc' = "taken" /\ next # NoTarget /\ UNCHANGED <<ok, resultQ, where>>
    BY <1>6 DEF Executor!TakeTarget
  <2>2. resultQ = <<>>
    BY <2>1 DEF Handover, BetweenInv, Between, NextInv
  <2>3. OutcomeInv'
    BY <1>4, <2>1 DEF LoadInv, OutcomeInv
  <2>4. ~Failed /\ ~Failed' /\ ~Unconfirmed /\ ~Unconfirmed'
    BY <2>1, <2>2 DEF Failed, Unconfirmed
  <2> QED BY <1>3, <2>1, <2>3, <2>4
<1>7. CASE Executor!HoldBelt
  <2>1. pc = "taken" /\ pc' = "held" /\ UNCHANGED <<current, ok, resultQ, where>>
    BY <1>7 DEF Executor!HoldBelt
  <2>2. OutcomeInv'
    BY <1>4, <2>1 DEF LoadInv, OutcomeInv
  <2>3. ~Failed /\ ~Failed' /\ ~Unconfirmed /\ ~Unconfirmed'
    BY <2>1 DEF Failed, Unconfirmed
  <2> QED BY <1>3, <2>1, <2>2, <2>3
<1>8. CASE Executor!Retreat
  <2>1. pc = "retreat" /\ pc' = "release" /\ ok' = TRUE /\ UNCHANGED <<current, resultQ, where>>
    BY <1>8 DEF Executor!Retreat
  <2>2. OutcomeInv'
    BY <1>4, <2>1 DEF LoadInv, OutcomeInv
  <2>3. ~Failed /\ ~Failed' /\ Unconfirmed /\ Unconfirmed'
    BY <2>1 DEF Failed, Unconfirmed
  <2> QED BY <1>3, <2>1, <2>2, <2>3
<1>9. CASE Executor!ReleaseBelt
  <2>1. pc = "release" /\ pc' = "publish" /\ UNCHANGED <<current, ok, resultQ, where>>
    BY <1>9 DEF Executor!ReleaseBelt
  <2>2. ok
    BY <2>1 DEF LoadInv, OutcomeInv
  <2>3. OutcomeInv'
    BY <1>4, <2>1 DEF LoadInv, OutcomeInv
  <2>4. ~Failed /\ ~Failed' /\ Unconfirmed /\ Unconfirmed'
    BY <2>1, <2>2 DEF Failed, Unconfirmed
  <2> QED BY <1>3, <2>1, <2>3, <2>4
<1>10. CASE Executor!PublishResult
  <2>1. pc = "publish" /\ pc' = "settle" /\ UNCHANGED <<current, ok, where>>
    BY <1>10 DEF Executor!PublishResult
  <2>2. resultQ' # <<>> /\ resultQ'[1].success = ok
    BY <1>10, ResultPublished
  <2>3. OutcomeInv'
    BY <1>4, <2>1, <2>2 DEF LoadInv, OutcomeInv
  <2>4. (Failed' <=> Failed) /\ (Unconfirmed' <=> Unconfirmed)
    BY <2>1, <2>2 DEF Failed, Unconfirmed
  <2> QED BY <1>3, <2>1, <2>3, <2>4
<1>11. CASE Executor!Settle
  <2>1. pc = "settle" /\ UNCHANGED <<current, ok, resultQ, where>>
    BY <1>11 DEF Executor!Settle
  <2>2. CASE ok
    <3>1. pc' = "waiting"
      BY <1>11, <2>2 DEF Executor!Settle
    <3>2. OutcomeInv'
      BY <1>4, <2>1, <2>2, <3>1 DEF LoadInv, OutcomeInv
    <3>3. (Failed' <=> Failed) /\ (Unconfirmed' <=> Unconfirmed)
      BY <2>1, <2>2, <3>1 DEF Failed, Unconfirmed
    <3> QED BY <1>3, <2>1, <3>1, <3>2, <3>3
  <2>3. CASE ~ok
    <3>1. pc' = "halted"
      BY <1>11, <2>3 DEF Executor!Settle
    <3>2. OutcomeInv'
      BY <1>4, <2>1, <2>3, <3>1 DEF LoadInv, OutcomeInv
    <3>3. (Failed' <=> Failed) /\ (Unconfirmed' <=> Unconfirmed)
      BY <2>1, <2>3, <3>1 DEF Failed, Unconfirmed
    <3> QED BY <1>3, <2>1, <3>1, <3>2, <3>3
  <2> QED BY <2>2, <2>3
<1> QED BY <1>1, <1>2, <1>5, <1>6, <1>7, <1>8, <1>9, <1>10, <1>11 DEF RunStep, Executor!RunStep

\* A cycle fails: the pallet stays as it is, with or without this box.
LEMMA FailureKeepsLoad ==
  ASSUME TypeInv, LoadInv, MotionFails
  PROVE  LoadInv'
<1>1. /\ pc \in {"held", "carry", "retreat"} /\ pc' = "publish" /\ ok' = FALSE
      /\ UNCHANGED <<current, resultQ, where, nextSlot, lastPlacedId, arrived, grasps>>
  BY DEF MotionFails, Executor!MotionFails, plannerVars, beltVars
<1>2. budget'.restart = budget.restart
  BY DEF MotionFails, Spend, TypeInv, AuxInv
<1>3. ~Failed /\ Failed'
  BY <1>1 DEF Failed
<1>4. OutcomeInv'
  BY <1>1, <1>2 DEF LoadInv, OutcomeInv
<1>5. GripperInv' /\ FreshInv'
  BY <1>1, <1>3 DEF LoadInv, GripperInv, FreshInv
<1>6. OnPallet' = OnPallet /\ FilledSlots' = FilledSlots
  BY <1>1 DEF OnPallet, FilledSlots
<1>7. NoHole'
  <2>1. FilledSlots = 0..PlacedBoxes - 1 /\ PlacedBoxes \in {nextSlot, nextSlot + 1}
    BY <1>3 DEF LoadInv, PatternInv, PlacedBoxes
  <2> QED BY <1>1, <1>6, <2>1 DEF NoHole
<1>8. PatternInv'
  BY <1>1, <1>3, <1>6, <1>7 DEF LoadInv, PatternInv
<1> QED BY <1>4, <1>5, <1>8 DEF LoadInv

LEMMA LoadNext ==
  TypeInv /\ TypeInv' /\ Handover /\ OnceInv /\ LoadInv /\ [Next]_vars => LoadInv'
<1> SUFFICES ASSUME TypeInv, TypeInv', Handover, OnceInv, LoadInv, [Next]_vars PROVE LoadInv'
  OBVIOUS
<1>1. CASE BoxArrives
  BY <1>1, ArrivalKeepsLoad
<1>2. CASE \/ BoxCleared \/ ReportLead \/ HoldReachesBelt \/ PickPoseExpires \/ PlannerTick
           \/ DeliverTarget \/ UNCHANGED vars
  <2>1. UNCHANGED loadVars /\ budget' = budget
    BY <1>2 DEF BoxCleared, ReportLead, HoldReachesBelt, PickPoseExpires, PoseExpires, PlannerTick,
       Tick, DeliverTarget, Executor!OnTarget, vars, plannerVars, executorOnly, beltVars, auxVars,
       loadVars
  <2> QED BY <2>1, LoadFrame
<1>3. CASE DeliverAtPick \/ DeliverPickPose
  <2>1. UNCHANGED loadVars /\ budget' = budget
    BY <1>3 DEF DeliverAtPick, OnAtPick, DeliverPickPose, OnPickPose, executorOnly, auxVars, loadVars
  <2> QED BY <2>1, LoadFrame
<1>4. CASE DeliverResult
  BY <1>4, ResultKeepsLoad
<1>5. CASE UnloadAndReset \/ ExecutorCrashes
  BY <1>5, BudgetStep DEF UnloadAndReset, ExecutorCrashes, Handover, TypeInv
<1>6. CASE StartExecutor
  <2>1. /\ pc = "down" /\ pc' = "start"
        /\ UNCHANGED <<resultQ, where, nextSlot, lastPlacedId, arrived, grasps, budget>>
    BY <1>6 DEF StartExecutor, Executor!Start, beltVars, auxVars
  <2>2. ~Failed /\ ~Failed' /\ ~Unconfirmed /\ ~Unconfirmed'
    BY <2>1 DEF Failed, Unconfirmed
  <2>3. OutcomeInv' /\ FreshInv'
    BY <2>1 DEF LoadInv, OutcomeInv, FreshInv
  <2>4. GripperInv'
    BY <2>1, <2>2 DEF LoadInv, GripperInv
  <2>5. OnPallet' = OnPallet
    BY <2>1 DEF OnPallet
  <2>6. PatternInv'
    BY <2>1, <2>2, <2>5, PalletFrame DEF LoadInv
  <2> QED BY <2>3, <2>4, <2>6 DEF LoadInv
<1>7. CASE RunStep
  BY <1>7, RunStepKeepsLoad
<1>8. CASE MotionFails
  BY <1>8, FailureKeepsLoad
<1>9. CASE RestartAfterFailure
  BY <1>9 DEF RestartAfterFailure, Spend, LoadInv, OutcomeInv
<1> QED BY <1>1, <1>2, <1>3, <1>4, <1>5, <1>6, <1>7, <1>8, <1>9 DEF Next

\* Everything the loading of one pallet relies on.
CellInv == TypeInv /\ Handover /\ OnceInv /\ LoadInv

LEMMA CellInvHolds == Unattended /\ Spec => []CellInv
<1>1. Unattended /\ Init => CellInv
  BY TypeInvInit, HandoverInit, OnceInit, LoadInit DEF CellInv, Unattended
<1>2. CellInv /\ [Next]_vars => CellInv'
  BY TypeInvNext, HandoverNext, OnceNext, LoadNext DEF CellInv
<1> QED BY <1>1, <1>2, PTL DEF Spec

\* The pallet is in order at every moment of the loading, also while results
\* are under way and for ever after a failed cycle: no cell holds two boxes,
\* the pattern has no holes, every box stands on one, and the gripper holds at
\* most one.  Restarts are excluded because the executor that failed after
\* letting go of its box is the one case that breaks it (FailedSlotStaysFree).
THEOREM PalletInOrder == Unattended /\ Spec => []SoundLoading
<1>1. CellInv => SoundLoading
  BY LoadImplies DEF CellInv
<1> QED BY <1>1, CellInvHolds, PTL

-----------------------------------------------------------------------------
(* The cell implements PalletLoading: Grasp is Take, PutDown is Put, and   *)
(* nothing else is seen.                                                   *)

\* The stack has the box of each slot in its place.
StackShowsPallet ==
  \A n \in Nat : FilledSlots = 0..n - 1 =>
    /\ Stack = [i \in 1..n |-> Stack[i]]
    /\ \A i \in 1..n : Stack[i] \in OnPallet /\ where[Stack[i]] = i - 1
    /\ \A b \in OnPallet : where[b] + 1 \in 1..n /\ Stack[where[b] + 1] = b

\* The gripper holds the box that is there.
GripperShowsBox ==
  /\ \A b \in Boxes : where[b] = Executor!InGripper => Gripper = b
  /\ (\A b \in Boxes : where[b] # Executor!InGripper) => Gripper = NoBox

LEMMA StackFacts == LoadInv => StackShowsPallet
<1> SUFFICES ASSUME LoadInv, NEW n \in Nat, FilledSlots = 0..n - 1
             PROVE  /\ Stack = [i \in 1..n |-> Stack[i]]
                    /\ \A i \in 1..n : Stack[i] \in OnPallet /\ where[Stack[i]] = i - 1
                    /\ \A b \in OnPallet : where[b] + 1 \in 1..n /\ Stack[where[b] + 1] = b
  BY DEF StackShowsPallet
<1>1. Cardinality(FilledSlots) = n
  BY FS_Interval
<1>2. Stack = [i \in 1..n |-> CHOOSE b \in OnPallet : where[b] = i - 1]
  BY <1>1 DEF Stack
<1>3. ASSUME NEW i \in 1..n PROVE Stack[i] \in OnPallet /\ where[Stack[i]] = i - 1
  <2>1. i - 1 \in FilledSlots
    OBVIOUS
  <2>2. \E b \in OnPallet : where[b] = i - 1
    BY <2>1 DEF FilledSlots
  <2> QED BY <1>2, <2>2
<1>4. ASSUME NEW b \in OnPallet PROVE where[b] + 1 \in 1..n /\ Stack[where[b] + 1] = b
  <2>1. where[b] \in 0..n - 1
    BY DEF FilledSlots
  <2>2. where[b] + 1 \in 1..n /\ (where[b] + 1) - 1 = where[b]
    BY <2>1
  <2>3. Stack[where[b] + 1] \in OnPallet /\ where[Stack[where[b] + 1]] = where[b]
    BY <1>3, <2>2
  <2> QED BY <2>2, <2>3 DEF LoadInv, PatternInv
<1> QED BY <1>2, <1>3, <1>4

LEMMA GripperFacts == LoadInv => GripperShowsBox
<1> SUFFICES ASSUME LoadInv PROVE GripperShowsBox
  OBVIOUS
<1>1. \A a, b \in Boxes : where[a] = Executor!InGripper /\ where[b] = Executor!InGripper => a = b
  BY DEF LoadInv, GripperInv
<1>2. ASSUME NEW b \in Boxes, where[b] = Executor!InGripper PROVE Gripper = b
  <2>1. Gripper = CHOOSE a \in Boxes : where[a] = Executor!InGripper
    BY <1>2 DEF Gripper
  <2>2. Gripper \in Boxes /\ where[Gripper] = Executor!InGripper
    BY <1>2, <2>1
  <2> QED BY <1>1, <1>2, <2>2
<1>3. (\A b \in Boxes : where[b] # Executor!InGripper) => Gripper = NoBox
  BY DEF Gripper
<1> QED BY <1>2, <1>3 DEF GripperShowsBox

LEMMA ViewNext == LoadInv' => StackShowsPallet' /\ GripperShowsBox'
<1>1. LoadInv => StackShowsPallet /\ GripperShowsBox
  BY StackFacts, GripperFacts
<1> QED BY <1>1, PTL

\* The same boxes in the same slots are the same stack.
LEMMA SameStack ==
  ASSUME TypeInv, LoadInv, LoadInv',
         OnPallet' = OnPallet, \A b \in OnPallet : where'[b] = where[b]
  PROVE  Stack' = Stack
<1>1. FilledSlots' = FilledSlots
  BY DEF FilledSlots
<1>2. PICK n \in Nat : FilledSlots = 0..n - 1
  <2>1. NoHole /\ nextSlot \in Nat
    BY LoadImplies, LoadTypes DEF SoundLoading
  <2> QED BY <2>1 DEF NoHole
<1>3. /\ Stack = [i \in 1..n |-> Stack[i]]
      /\ \A i \in 1..n : Stack[i] \in OnPallet /\ where[Stack[i]] = i - 1
  BY <1>2, StackFacts DEF StackShowsPallet
<1>4. /\ Stack' = [i \in 1..n |-> Stack'[i]]
      /\ \A b \in OnPallet' : Stack'[where'[b] + 1] = b
  BY <1>1, <1>2, ViewNext DEF StackShowsPallet
<1>5. ASSUME NEW i \in 1..n PROVE Stack'[i] = Stack[i]
  <2>1. Stack[i] \in OnPallet' /\ where'[Stack[i]] = i - 1
    BY <1>3
  <2>2. (i - 1) + 1 = i
    OBVIOUS
  <2> QED BY <1>4, <2>1, <2>2
<1> QED BY <1>3, <1>4, <1>5

LEMMA SameGripper ==
  ASSUME LoadInv, LoadInv',
         \A b \in Boxes : where'[b] = Executor!InGripper <=> where[b] = Executor!InGripper
  PROVE  Gripper' = Gripper
<1>1. GripperShowsBox /\ GripperShowsBox'
  BY GripperFacts, ViewNext
<1>2. CASE \E b \in Boxes : where[b] = Executor!InGripper
  BY <1>1, <1>2 DEF GripperShowsBox
<1>3. CASE \A b \in Boxes : where[b] # Executor!InGripper
  BY <1>1, <1>3 DEF GripperShowsBox
<1> QED BY <1>2, <1>3

LEMMA ArrivalIsUnseen ==
  ASSUME TypeInv, LoadInv, LoadInv', BoxArrives
  PROVE  Stack' = Stack /\ Gripper' = Gripper
<1>1. where' = [where EXCEPT ![arrived + 1] = AtPick] /\ arrived + 1 \in Boxes
  BY CellAssumption DEF BoxArrives, TypeInv, BeltInv
<1>2. /\ \A b \in Boxes : b # arrived + 1 => where'[b] = where[b]
      /\ where'[arrived + 1] = AtPick
  BY <1>1, LoadTypes
<1>3. where[arrived + 1] \notin Slots \cup {Executor!InGripper}
  BY <1>1, LoadTypes DEF LoadInv, FreshInv
<1>4. AtPick \notin Slots \cup {Executor!InGripper}
  BY LoadTypes
<1>5. OnPallet' = OnPallet /\ \A b \in OnPallet : where'[b] = where[b]
  BY <1>2, <1>3, <1>4 DEF OnPallet
<1>6. \A b \in Boxes : where'[b] = Executor!InGripper <=> where[b] = Executor!InGripper
  BY <1>2, <1>3, <1>4
<1> QED BY <1>5, <1>6, SameStack, SameGripper

LEMMA GraspIsTake ==
  ASSUME TypeInv, Handover, OnceInv, LoadInv, LoadInv', RunStep, Executor!Grasp
  PROVE  Loading!Take(current.box)
<1>1. /\ pc = "held" /\ nextSlot' = nextSlot /\ current.box \in Boxes /\ ~Used(current.box)
      /\ nextSlot \in Slots /\ ~Failed /\ ~Unconfirmed
      /\ where'[current.box] = Executor!InGripper
  BY GraspEffect
<1>2. OnPallet' = OnPallet /\ \A b \in OnPallet : where'[b] = where[b]
  BY GraspEffect
<1>3. Stack' = Stack
  BY <1>2, SameStack
<1>4. Gripper' = current.box
  BY <1>1, ViewNext DEF GripperShowsBox
<1>5. Gripper = NoBox
  BY <1>1, GripperFacts DEF GripperShowsBox, LoadInv, GripperInv
<1>6. FilledSlots = 0..nextSlot - 1 /\ nextSlot \in Nat /\ nextSlot < Capacity
  BY <1>1, LoadTypes, GridType DEF LoadInv, PatternInv, PlacedBoxes, Slots
<1>7. /\ Stack = [i \in 1..nextSlot |-> Stack[i]]
      /\ \A i \in 1..nextSlot : Stack[i] \in OnPallet
  BY <1>6, StackFacts DEF StackShowsPallet
<1>8. Len(Stack) = nextSlot
  BY <1>6, <1>7
<1>9. \A b \in OnPallet : b < current.box
  <2>1. \A b \in OnPallet : lastPlacedId \in Boxes /\ b <= lastPlacedId /\ b \in Nat
    BY <1>1, LoadTypes DEF LoadInv, PatternInv, OnPallet
  <2>2. ~(lastPlacedId \in Boxes /\ current.box <= lastPlacedId)
    BY <1>1 DEF Used
  <2>3. current.box \in Nat /\ (lastPlacedId \in Boxes => lastPlacedId \in Nat)
    BY <1>1, LoadTypes
  <2> QED BY <2>1, <2>2, <2>3
<1>10. \A i \in 1..Len(Stack) : Stack[i] < current.box
  BY <1>7, <1>8, <1>9
<1> QED BY <1>3, <1>4, <1>5, <1>6, <1>8, <1>10 DEF Loading!Take

LEMMA PutDownIsPut ==
  ASSUME TypeInv, Handover, OnceInv, LoadInv, LoadInv', RunStep, Executor!PutDown
  PROVE  Loading!Put
<1> DEFINE n == nextSlot
<1>1. /\ nextSlot' = nextSlot /\ current' = current /\ current.box \in Boxes
      /\ nextSlot \in Slots /\ where[current.box] = Executor!InGripper
      /\ where'[current.box] = nextSlot
      /\ ~Failed /\ ~Failed' /\ Unconfirmed'
      /\ FilledSlots = 0..nextSlot - 1
  BY PutDownEffect
<1>2. /\ \A b \in Boxes : b # current.box => where'[b] = where[b]
      /\ OnPallet' = OnPallet \cup {current.box}
      /\ \A b \in OnPallet : where'[b] = where[b]
  BY PutDownEffect
<1>3. n \in Nat /\ nextSlot' = n /\ Executor!InGripper \notin Slots
  BY <1>1, LoadTypes
<1>4. FilledSlots' = 0..(n + 1) - 1
  <2>1. FilledSlots' = 0..PlacedBoxes' - 1 /\ PlacedBoxes' = n + 1
    BY <1>1 DEF LoadInv, PatternInv, PlacedBoxes
  <2> QED BY <2>1
<1>5. Gripper = current.box /\ Gripper # NoBox
  <2>1. NoBox \notin Boxes
    BY PlannerAssumption
  <2> QED BY <1>1, <2>1, GripperFacts DEF GripperShowsBox
<1>6. Gripper' = NoBox
  <2>1. \A b \in Boxes : where'[b] # Executor!InGripper
    <3>1. \A b \in Boxes : where[b] = Executor!InGripper => b = current.box
      BY DEF LoadInv, GripperInv
    <3> QED BY <1>1, <1>2, <1>3, <3>1
  <2> QED BY <2>1, ViewNext DEF GripperShowsBox
<1> HIDE DEF n
<1>7. /\ Stack = [i \in 1..n |-> Stack[i]]
      /\ \A i \in 1..n : Stack[i] \in OnPallet /\ where[Stack[i]] = i - 1
  BY <1>1, <1>3, StackFacts DEF StackShowsPallet, n
<1>8. /\ Stack' = [i \in 1..n + 1 |-> Stack'[i]]
      /\ \A b \in OnPallet' : Stack'[where'[b] + 1] = b
  <2>1. n + 1 \in Nat
    BY <1>3
  <2> QED BY <1>4, <2>1, ViewNext DEF StackShowsPallet
<1>9. Stack \in Seq(Boxes) /\ Len(Stack) = n
  <2>1. \A i \in 1..n : Stack[i] \in Boxes
    BY <1>7 DEF OnPallet
  <2> QED BY <1>3, <1>7, <2>1
<1>10. \A i \in 1..n : Stack'[i] = Stack[i]
  <2>1. SUFFICES ASSUME NEW i \in 1..n PROVE Stack'[i] = Stack[i]
    OBVIOUS
  <2>2. Stack[i] \in OnPallet' /\ where'[Stack[i]] = i - 1
    BY <1>2, <1>7
  <2>3. (i - 1) + 1 = i
    BY <1>3
  <2> QED BY <1>8, <2>2, <2>3
<1>11. Stack'[n + 1] = Gripper
  BY <1>1, <1>2, <1>5, <1>8 DEF n
<1>12. Stack' = Append(Stack, Gripper)
  <2>1. /\ Append(Stack, Gripper) = [i \in 1..n + 1 |-> Append(Stack, Gripper)[i]]
        /\ \A i \in 1..n : Append(Stack, Gripper)[i] = Stack[i]
        /\ Append(Stack, Gripper)[n + 1] = Gripper
    <3>1. Gripper \in Boxes
      BY <1>1, <1>5
    <3>2. /\ Append(Stack, Gripper) \in Seq(Boxes)
          /\ Len(Append(Stack, Gripper)) = n + 1
          /\ \A i \in 1..n : Append(Stack, Gripper)[i] = Stack[i]
          /\ Append(Stack, Gripper)[n + 1] = Gripper
      BY <1>9, <3>1, AppendProperties
    <3> QED BY <3>2, LenProperties
  <2>2. \A i \in 1..n + 1 : Stack'[i] = Append(Stack, Gripper)[i]
    BY <1>3, <1>10, <1>11, <2>1
  <2> QED BY <1>8, <2>1, <2>2
<1> QED BY <1>5, <1>6, <1>12 DEF Loading!Put

LEMMA LoadingStep ==
  ASSUME CellInv, CellInv', [Next]_vars
  PROVE  [Loading!Next]_(Loading!loadingVars)
<1>0. TypeInv /\ Handover /\ OnceInv /\ LoadInv /\ LoadInv'
  BY DEF CellInv
<1>1. ASSUME where' = where PROVE Stack' = Stack /\ Gripper' = Gripper
  BY <1>1 DEF Stack, Gripper, FilledSlots, OnPallet
<1>2. CASE BoxArrives
  BY <1>0, <1>2, ArrivalIsUnseen DEF Loading!loadingVars
<1>3. CASE RunStep
  <2>1. CASE Executor!Grasp
    <3>1. Loading!Take(current.box)
      BY <1>0, <1>3, <2>1, GraspIsTake
    <3>2. current.box \in 1..NumBoxes
      BY <1>0, <1>3, <2>1, GraspEffect, CellAssumption
    <3> QED BY <3>1, <3>2 DEF Loading!Next
  <2>2. CASE Executor!PutDown
    BY <1>0, <1>3, <2>2, PutDownIsPut DEF Loading!Next
  <2>3. CASE ~Executor!Grasp /\ ~Executor!PutDown
    <3>1. where' = where
      BY <1>3, <2>3 DEF RunStep, Executor!RunStep, Executor!ReleaseAtStart, Executor!TakeTarget,
         Executor!HoldBelt, Executor!Retreat, Executor!ReleaseBelt, Executor!PublishResult,
         Executor!Settle
    <3> QED BY <1>1, <3>1 DEF Loading!loadingVars
  <2> QED BY <2>1, <2>2, <2>3
<1>4. CASE UnloadAndReset
  BY <1>0, <1>4, BudgetStep DEF UnloadAndReset, Handover, TypeInv
<1>5. CASE ~BoxArrives /\ ~RunStep /\ ~UnloadAndReset
  <2>1. where' = where
    BY <1>5 DEF Next, vars, BoxCleared, ReportLead, HoldReachesBelt, DeliverAtPick, DeliverPickPose,
       PickPoseExpires, DeliverResult, PlannerTick, DeliverTarget, Executor!OnTarget, StartExecutor,
       Executor!Start, MotionFails, Executor!MotionFails, RestartAfterFailure, Executor!Exit,
       ExecutorCrashes, Executor!Crash, executorOnly
  <2> QED BY <1>1, <2>1 DEF Loading!loadingVars
<1> QED BY <1>2, <1>3, <1>4, <1>5

\* What the cell promises: boxes are taken one at a time in belt order, none
\* twice, and each goes onto the next free slot; seen through the positions
\* of the boxes, every step of the cell is a Take, a Put or unseen.
THEOREM LoadingRefined == Unattended /\ Spec => LoadingSpec
<1>1. Unattended /\ Init => CellInv
  BY TypeInvInit, HandoverInit, OnceInit, LoadInit DEF CellInv, Unattended
<1>2. Unattended /\ Init => Loading!Init
  <2> SUFFICES ASSUME Unattended, Init PROVE Loading!Init
    OBVIOUS
  <2>1. LoadInv
    BY LoadInit
  <2>2. \A b \in Boxes : where[b] = -3
    BY DEF Init, Executor!ExecutorInit, Executor!Upstream
  <2>3. FilledSlots = {}
    BY <2>2, GridType DEF FilledSlots, OnPallet, Slots
  <2>4. Stack = [i \in 1..0 |-> Stack[i]]
    <3>1. FilledSlots = 0..0 - 1
      BY <2>3
    <3> QED BY <2>1, <3>1, StackFacts DEF StackShowsPallet
  <2>5. Stack = <<>>
    BY <2>4
  <2>6. Gripper = NoBox
    BY <2>1, <2>2, GripperFacts DEF GripperShowsBox, Executor!InGripper
  <2> QED BY <2>5, <2>6 DEF Loading!Init
<1>3. CellInv /\ CellInv' /\ [Next]_vars => [Loading!Next]_(Loading!loadingVars)
  BY LoadingStep
<1> SUFFICES ASSUME Unattended PROVE Spec => LoadingSpec
  OBVIOUS
<1> QED BY <1>1, <1>2, <1>3, CellInvHolds, PTL DEF Spec, LoadingSpec, Loading!Spec
=============================================================================
