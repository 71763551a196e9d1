--------------------------- MODULE BeltLineProofs ---------------------------
(***************************************************************************)
(* The belt, proved for every geometry, number of boxes, queue depth, set  *)
(* of published speeds and number of spawn failures and holds: manager and *)
(* advancer keep the same line of boxes, boxes keep their distance and     *)
(* their slots, what is reported at the pick point is there, boxes only    *)
(* move forward, and the line delivers what PickPoint promises.            *)
(*                                                                         *)
(* The manager decides on old news: positions it was told, targets the     *)
(* advancer may not have received.  The invariant says why that is sound:  *)
(* a position told of a box still queued is one the box has reached, and   *)
(* every queued box but the newest has left the belt start.                *)
(***************************************************************************)
EXTENDS BeltLine, TopicTheorems

\* The boxes the advancer knows of.
OnBelt == Advancer!IdsIn(boxes)

\* Queue and latched targets are one and the same, in spawning order.
QueueInv ==
  /\ Len(queue) <= NumBoxes
  /\ \A i \in 1..Len(queue) : queue[i] = Cleared + i
  /\ targetsMsg = TargetsOf(queue)
  /\ spawning => Len(queue) < NumBoxes /\ spawned < MaxBoxes

\* The advancer's boxes are the targets of some earlier queue.
BoxesInv ==
  /\ Len(boxes) <= NumBoxes
  /\ \A i \in 1..Len(boxes) : boxes[i].id = boxes[1].id + (i - 1)
  /\ \A i \in 1..Len(boxes) : boxes[i].x = SlotX(i - 1)
  /\ boxes # <<>> => /\ boxes[1].id <= Cleared + 1
                     /\ boxes[1].id + (Len(boxes) - 1) <= spawned
  /\ ~targetsNew => boxes = targetsMsg

\* A box the advancer does not know of will appear at the start.
AbsentInv == \A b \in Ids : b \notin OnBelt => x[b] = StartX

\* What a message says of boxes still queued is behind where they are.
Known(msg) ==
  \A b \in DOMAIN msg : b > Cleared => b \in OnBelt /\ msg[b] <= x[b]

NewsInv ==
  /\ Known(positions)
  /\ \A i \in 1..Len(statesQ) : Known(statesQ[i])

\* The belt start is clear of every box but the newest, and of that one too
\* while the next one is being spawned.
StartClearInv ==
  \A b \in Ids :
    Cleared < b /\ b <= spawned /\ (b < spawned \/ spawning) =>
      b \in OnBelt /\ x[b] >= Pitch - Eps

\* A report outlives the box, never its removal from the queue.
ReportInv ==
  reported # NoBox =>
    /\ sensed <= reported
    /\ reported <= Cleared + 1
    /\ reported <= spawned
    /\ reported \in OnBelt => x[reported] > PickX - Eps
    /\ reported \notin OnBelt => reported <= Cleared

RemovalInv ==
  /\ sensed <= Cleared + 1
  /\ sensed <= spawned
  /\ \A i \in 1..Len(removedQ) : removedQ[i] <= sensed

DepthInv == Len(statesQ) <= Depth /\ Len(removedQ) <= Depth

LineInv ==
  /\ QueueInv
  /\ BoxesInv
  /\ AbsentInv
  /\ Spacing
  /\ NewsInv
  /\ StartClearInv
  /\ ReportInv
  /\ RemovalInv
  /\ DepthInv

-----------------------------------------------------------------------------
(* The geometry: slots lie one pitch apart, the ones in use on the belt.   *)

LEMMA Lengths == PickX \in Nat \ {0} /\ Pitch \in Nat \ {0} /\ Eps \in Nat \ {0}
  BY GeometryAssumption

LEMMA Sizes ==
  /\ Depth \in Nat \ {0}
  /\ NumBoxes \in Nat \ {0}
  /\ MaxBoxes \in Nat
  /\ NoBox \notin Int
<1>1. NumSlots \in Int
  BY Lengths DEF NumSlots, StartX
<1> QED BY <1>1, ManagerAssumption, BeltAssumption

\* k pitches fit on the belt if a box k slots behind the lead does.
LEMMA SlotsFit == ASSUME NEW k \in Nat, k < NumBoxes PROVE k * Pitch <= PickX
<1> DEFINE q == PickX \div Pitch
<1>1. q \in Nat /\ q * Pitch <= PickX
  BY Lengths
<1>2. NumSlots = q + 1
  BY Lengths DEF NumSlots, StartX
<1>3. k <= q
  BY <1>1, <1>2, Sizes, ManagerAssumption
<1> HIDE DEF q
<1>4. k * Pitch <= q * Pitch
  BY <1>1, <1>3, Lengths
<1>5. k * Pitch \in Int /\ q * Pitch \in Int
  BY <1>1, Lengths
<1> QED BY <1>1, <1>4, <1>5, Lengths

LEMMA SlotType == ASSUME NEW k \in Nat PROVE SlotX(k) \in Int /\ SlotX(k) <= PickX
<1>1. k * Pitch \in Nat
  BY Lengths
<1> QED BY <1>1, Lengths DEF SlotX

LEMMA SlotOnBelt == ASSUME NEW k \in Nat, k < NumBoxes PROVE StartX <= SlotX(k)
<1>1. k * Pitch \in Nat /\ k * Pitch <= PickX
  BY Lengths, SlotsFit
<1> QED BY <1>1, Lengths DEF SlotX, StartX

LEMMA SlotOrder == ASSUME NEW k \in Nat, NEW l \in Nat, k <= l PROVE SlotX(l) <= SlotX(k)
<1>1. k * Pitch \in Nat /\ l * Pitch \in Nat /\ k * Pitch <= l * Pitch
  BY Lengths
<1> QED BY <1>1, Lengths DEF SlotX

LEMMA SecondSlot == ASSUME NEW k \in Nat, 0 < k PROVE SlotX(k) <= PickX - Pitch
<1>1. k * Pitch \in Nat /\ Pitch <= k * Pitch
  BY Lengths
<1> QED BY <1>1, Lengths DEF SlotX

-----------------------------------------------------------------------------
(* Who is on the belt.                                                     *)

LEMMA QueueTypes ==
  ASSUME TypeOK
  PROVE  /\ Len(queue) \in Nat
         /\ spawned \in Nat
         /\ Cleared \in Int
         /\ Len(boxes) \in Nat
         /\ \A i \in 1..Len(queue) : queue[i] \in Ids
         /\ \A i \in 1..Len(boxes) : boxes[i] \in TargetMsg /\ boxes[i].id \in Ids
<1>1. queue \in Seq(Ids) /\ boxes \in Seq(TargetMsg) /\ spawned \in 0..MaxBoxes
  BY DEF TypeOK
<1>2. Len(queue) \in Nat /\ Len(boxes) \in Nat
  BY <1>1, LenProperties
<1>3. spawned \in Nat /\ Cleared \in Int
  BY <1>1, <1>2, Sizes DEF Cleared
<1>4. \A i \in 1..Len(queue) : queue[i] \in Ids
  BY <1>1, ElementOfSeq
<1>5. \A i \in 1..Len(boxes) : boxes[i] \in TargetMsg
  BY <1>1, ElementOfSeq
<1>6. \A i \in 1..Len(boxes) : boxes[i].id \in Ids
  BY <1>5 DEF TargetMsg
<1> QED BY <1>2, <1>3, <1>4, <1>5, <1>6

\* The queue holds the boxes spawned and not cleared.
LEMMA ClearedRange ==
  ASSUME TypeOK, QueueInv
  PROVE  /\ Cleared \in 0..spawned
         /\ Len(queue) = spawned - Cleared
         /\ queue # <<>> => /\ 1 \in 1..Len(queue)
                            /\ Head(queue) = Cleared + 1
                            /\ Cleared + 1 \in Ids
                            /\ Cleared < spawned
         /\ queue = <<>> => Cleared = spawned
<1>1. Len(queue) \in Nat /\ spawned \in Nat /\ queue \in Seq(Ids)
  BY QueueTypes DEF TypeOK
<1>2. Len(queue) = spawned - Cleared
  BY <1>1 DEF Cleared
<1>3. CASE queue = <<>>
  BY <1>1, <1>2, <1>3, EmptySeq DEF Cleared
<1>4. CASE queue # <<>>
  <2>1. 1 \in 1..Len(queue) /\ Head(queue) = queue[1]
    BY <1>1, <1>4, EmptySeq, HeadTailProperties
  <2>2. queue[1] = Cleared + 1 /\ queue[1] \in Ids
    BY <2>1, QueueTypes DEF QueueInv
  <2>3. Cleared + 1 >= 1
    BY <2>2 DEF Ids
  <2> QED BY <1>1, <1>2, <1>4, <2>1, <2>2, <2>3 DEF Cleared
<1> QED BY <1>3, <1>4, <1>2

LEMMA OnBeltFacts ==
  ASSUME TypeOK, BoxesInv
  PROVE  /\ OnBelt \subseteq Ids
         /\ \A i \in 1..Len(boxes) : boxes[i].id \in OnBelt
         /\ \A b \in OnBelt : \E i \in 1..Len(boxes) : boxes[i].id = b
         /\ \A b \in OnBelt : b <= spawned
         /\ \A i, j \in 1..Len(boxes) : boxes[i].id = boxes[j].id => i = j
<1>1. Len(boxes) \in Nat /\ \A i \in 1..Len(boxes) : boxes[i].id \in Ids
  BY QueueTypes
<1>2. OnBelt \subseteq Ids /\ \A i \in 1..Len(boxes) : boxes[i].id \in OnBelt
  BY <1>1 DEF OnBelt, Advancer!IdsIn
<1>3. \A b \in OnBelt : \E i \in 1..Len(boxes) : boxes[i].id = b
  BY DEF OnBelt, Advancer!IdsIn
<1>4. \A i \in 1..Len(boxes) : boxes[1].id \in Int /\ boxes[i].id = boxes[1].id + (i - 1)
  <2> SUFFICES ASSUME NEW i \in 1..Len(boxes)
               PROVE  boxes[1].id \in Int /\ boxes[i].id = boxes[1].id + (i - 1)
    OBVIOUS
  <2>1. 1 \in 1..Len(boxes)
    BY <1>1
  <2> QED BY <1>1, <2>1 DEF BoxesInv, Ids
<1>5. \A i, j \in 1..Len(boxes) : boxes[i].id = boxes[j].id => i = j
  BY <1>1, <1>4
<1>6. \A b \in OnBelt : b <= spawned
  <2> SUFFICES ASSUME NEW b \in OnBelt PROVE b <= spawned
    OBVIOUS
  <2>1. PICK i \in 1..Len(boxes) : boxes[i].id = b
    BY <1>3
  <2>2. boxes # <<>>
    BY <1>1, <2>1, EmptySeq
  <2>3. boxes[1].id + (Len(boxes) - 1) <= spawned
    BY <2>2 DEF BoxesInv
  <2> QED BY <1>1, <1>4, <2>1, <2>3, QueueTypes
<1> QED BY <1>2, <1>3, <1>5, <1>6

\* The latched targets name exactly the boxes of the queue, each at its slot.
LEMMA TargetFacts ==
  ASSUME TypeOK, QueueInv
  PROVE  /\ targetsMsg \in Seq(TargetMsg)
         /\ Len(targetsMsg) = Len(queue)
         /\ \A i \in 1..Len(queue) : targetsMsg[i].id = Cleared + i
         /\ \A i \in 1..Len(queue) : targetsMsg[i].x = SlotX(i - 1)
         /\ \A b \in Ids : b \in Advancer!IdsIn(targetsMsg) <=> Cleared < b /\ b <= spawned
<1>1. targetsMsg \in Seq(TargetMsg) /\ queue \in Seq(Ids)
  BY DEF TypeOK
<1>2. Len(queue) \in Nat
  BY QueueTypes
<1>3. targetsMsg = [k \in 1..Len(queue) |-> [id |-> queue[k], x |-> SlotX(k - 1)]]
  BY DEF QueueInv, TargetsOf
<1>4. DOMAIN targetsMsg = 1..Len(queue)
  BY <1>3
<1>5. Len(targetsMsg) = Len(queue)
  BY <1>1, <1>2, <1>4, LenProperties
<1>6. \A i \in 1..Len(queue) : targetsMsg[i].id = Cleared + i /\ targetsMsg[i].x = SlotX(i - 1)
  BY <1>3 DEF QueueInv
<1>7. Len(queue) = spawned - Cleared /\ Cleared \in 0..spawned /\ spawned \in Nat
  BY ClearedRange, QueueTypes
<1>8. ASSUME NEW b \in Ids
      PROVE  b \in Advancer!IdsIn(targetsMsg) <=> Cleared < b /\ b <= spawned
  <2>1. b \in Advancer!IdsIn(targetsMsg) <=> \E i \in 1..Len(queue) : targetsMsg[i].id = b
    BY <1>5 DEF Advancer!IdsIn
  <2>2. b \in Int
    BY DEF Ids
  <2>3. ASSUME Cleared < b, b <= spawned PROVE \E i \in 1..Len(queue) : targetsMsg[i].id = b
    <3>1. b - Cleared \in 1..Len(queue)
      BY <1>7, <2>2, <2>3
    <3>2. targetsMsg[b - Cleared].id = b
      BY <1>6, <1>7, <2>2, <3>1
    <3> QED BY <3>1, <3>2
  <2>4. ASSUME NEW i \in 1..Len(queue), targetsMsg[i].id = b PROVE Cleared < b /\ b <= spawned
    BY <1>6, <1>7, <2>2, <2>4
  <2> QED BY <2>1, <2>3, <2>4
<1> QED BY <1>1, <1>5, <1>6, <1>8

-----------------------------------------------------------------------------
(* What the invariant is for.                                              *)

LEMMA LineImplies ==
  ASSUME TypeOK, LineInv
  PROVE  SameLine /\ Spacing /\ ReportedIsAtPick
<1>1. Spacing
  BY DEF LineInv
<1>2. ReportedIsAtPick
  BY DEF LineInv, ReportInv, ReportedIsAtPick, OnBelt
<1>3. WithinCapacity
  BY DEF LineInv, QueueInv, BoxesInv, WithinCapacity
<1>4. \A i \in 1..Len(queue) : queue[i] = Cleared + i
  BY DEF LineInv, QueueInv
<1>5. \A i \in 2..Len(boxes) : boxes[i].id = boxes[i - 1].id + 1
  <2> SUFFICES ASSUME NEW i \in 2..Len(boxes) PROVE boxes[i].id = boxes[i - 1].id + 1
    OBVIOUS
  <2>1. Len(boxes) \in Nat
    BY QueueTypes
  <2>2. i \in 1..Len(boxes) /\ i - 1 \in 1..Len(boxes) /\ 1 \in 1..Len(boxes)
    BY <2>1
  <2>3. boxes[1].id \in Int
    BY <2>2, QueueTypes DEF Ids
  <2>4. boxes[i].id = boxes[1].id + (i - 1) /\ boxes[i - 1].id = boxes[1].id + ((i - 1) - 1)
    BY <2>2 DEF LineInv, BoxesInv
  <2> QED BY <2>3, <2>4
<1>6. \A i \in 1..Len(queue) : queue[i] = spawned \/ queue[i] \in OnBelt
  <2> SUFFICES ASSUME NEW i \in 1..Len(queue), queue[i] # spawned PROVE queue[i] \in OnBelt
    OBVIOUS
  <2>1. Len(queue) \in Nat /\ spawned \in Int /\ queue[i] \in Ids
    BY QueueTypes DEF TypeOK
  <2>2. Cleared < queue[i] /\ queue[i] <= spawned /\ queue[i] < spawned
    BY <1>4, <2>1 DEF Cleared, Ids
  <2> QED BY <2>1, <2>2 DEF LineInv, StartClearInv
<1>7. \A i \in 1..Len(boxes) : boxes[i].id <= spawned /\ boxes[i].x = SlotX(i - 1)
  <2> SUFFICES ASSUME NEW i \in 1..Len(boxes) PROVE boxes[i].id <= spawned /\ boxes[i].x = SlotX(i - 1)
    OBVIOUS
  <2>1. Len(boxes) \in Nat /\ spawned \in Int /\ boxes # <<>> /\ 1 \in 1..Len(boxes)
    BY QueueTypes DEF TypeOK
  <2>2. boxes[1].id \in Int
    BY <2>1, QueueTypes DEF Ids
  <2>3. boxes[i].id = boxes[1].id + (i - 1) /\ boxes[1].id + (Len(boxes) - 1) <= spawned
    BY <2>1 DEF LineInv, BoxesInv
  <2>4. boxes[i].id <= spawned
    BY <2>1, <2>2, <2>3
  <2> QED BY <2>4 DEF LineInv, BoxesInv
<1>8. OneLine
  BY <1>6, <1>7 DEF OneLine, LineInv, QueueInv, BoxesInv, OnBelt
<1> QED BY <1>1, <1>2, <1>3, <1>4, <1>5, <1>8 DEF SameLine, InOrder

LEMMA LineInit == Init => TypeOK /\ LineInv
<1> SUFFICES ASSUME Init PROVE TypeOK /\ LineInv
  OBVIOUS
<1>0. queue = <<>> /\ spawned \in {0} /\ Len(queue) \in {0}
  BY EmptySeq DEF Init, ManagerInit
<1> USE DEF Init, ManagerInit, Advancer!AdvancerInit
<1>1. targetsMsg = <<>>
  BY DEF TargetsOf
<1>2. Cleared = 0 /\ OnBelt = {}
  <2>1. Cleared = 0
    BY ONLY <1>0 DEF Cleared
  <2>2. 1..Len(boxes) = {}
    BY EmptySeq
  <2> QED BY <2>1, <2>2 DEF OnBelt, Advancer!IdsIn
<1>3. StartX \in Positions /\ x \in [Ids -> Positions]
  BY Lengths DEF StartX, Positions, Advancer!StartX
<1>4. positions \in StateMsg
  <2>1. positions \in [{} -> Positions] /\ {} \in SUBSET Ids
    OBVIOUS
  <2> QED BY <2>1 DEF StateMsg
<1>5. NormalSpeed \in Int /\ MaxSpawnFailures \in Nat /\ MaxHolds \in Nat
  BY BeltAssumption
<1>6. TypeOK
  <2>1. queue \in Seq(Ids) /\ spawned \in 0..MaxBoxes /\ spawning \in BOOLEAN
    <3>1. queue \in Seq(Ids)
      BY <1>0, EmptySeq
    <3>2. spawned \in 0..MaxBoxes
      BY ONLY <1>0, Sizes
    <3> QED BY <3>1, <3>2
  <2>2. targetsMsg \in Seq(TargetMsg) /\ reported \in Ids \cup {NoBox}
    BY <1>1, EmptySeq
  <2>3. boxes \in Seq(TargetMsg) /\ held \in BOOLEAN /\ speed \in Int
    BY <1>5, EmptySeq
  <2>4. targetsNew \in BOOLEAN /\ statesQ \in Seq(StateMsg) /\ removedQ \in Seq(Ids)
    BY EmptySeq
  <2>5. /\ sensed \in 0..MaxBoxes
        /\ failures \in 0..MaxSpawnFailures
        /\ holds \in 0..MaxHolds
    BY <1>5, Sizes
  <2> QED BY <1>3, <1>4, <2>1, <2>2, <2>3, <2>4, <2>5 DEF TypeOK
<1>7. QueueInv
  BY <1>1, Sizes DEF QueueInv
<1>8. BoxesInv
  BY <1>1, Sizes DEF BoxesInv
<1>9. AbsentInv /\ Spacing
  BY DEF AbsentInv, Spacing, Advancer!StartX, StartX
<1>10. NewsInv /\ StartClearInv
  BY <1>2 DEF NewsInv, Known, StartClearInv, Ids
<1>11. ReportInv /\ RemovalInv /\ DepthInv
  BY <1>2, Sizes DEF ReportInv, RemovalInv, DepthInv
<1> QED BY <1>6, <1>7, <1>8, <1>9, <1>10, <1>11 DEF LineInv

-----------------------------------------------------------------------------
(* Types.                                                                  *)

LEMMA StateMsgFacts ==
  ASSUME NEW msg \in StateMsg
  PROVE  /\ DOMAIN msg \subseteq Ids
         /\ \A b \in DOMAIN msg : msg[b] \in Positions
<1>1. PICK S \in SUBSET Ids : msg \in [S -> Positions]
  BY DEF StateMsg
<1> QED BY <1>1

LEMMA PositionsAreInt == ASSUME TypeOK, NEW b \in Ids PROVE x[b] \in Int
  BY Lengths DEF TypeOK, Positions, StartX

LEMMA NewPositionsAreInt == ASSUME x' \in [Ids -> Positions], NEW b \in Ids PROVE x'[b] \in Int
  BY Lengths DEF Positions, StartX

LEMMA PartOfStateMsg ==
  ASSUME NEW msg \in StateMsg, NEW S
  PROVE  [b \in DOMAIN msg \ S |-> msg[b]] \in StateMsg
<1>1. PICK T \in SUBSET Ids : msg \in [T -> Positions]
  BY DEF StateMsg
<1>2. [b \in DOMAIN msg \ S |-> msg[b]] \in [T \ S -> Positions] /\ T \ S \in SUBSET Ids
  BY <1>1
<1> QED BY <1>2 DEF StateMsg

\* Targets are well-typed, whatever boxes are queued.
LEMMA TargetsType ==
  ASSUME NEW q \in Seq(Ids)
  PROVE  TargetsOf(q) \in Seq(TargetMsg)
<1>1. Len(q) \in Nat
  BY LenProperties
<1>2. \A k \in 1..Len(q) : [id |-> q[k], x |-> SlotX(k - 1)] \in TargetMsg
  <2> SUFFICES ASSUME NEW k \in 1..Len(q)
               PROVE  [id |-> q[k], x |-> SlotX(k - 1)] \in TargetMsg
    OBVIOUS
  <2>1. q[k] \in Ids
    BY ElementOfSeq
  <2>2. SlotX(k - 1) \in Int
    BY <1>1, SlotType
  <2> QED BY <2>1, <2>2 DEF TargetMsg
<1>3. TargetsOf(q) \in [1..Len(q) -> TargetMsg]
  BY <1>2 DEF TargetsOf
<1> QED BY <1>1, <1>3, SeqDef

LEMMA TickType ==
  ASSUME TypeOK, ManagerTick
  PROVE  TypeOK'
<1>1. UNCHANGED <<queue, positions, spawned, targetsMsg, boxes, x, held, speed, targetsNew,
                  statesQ, removedQ, sensed, failures, holds>>
  BY DEF ManagerTick, Tick, advancerOnly, linkVars
<1>2. spawning' \in BOOLEAN
  <2>1. PICK ready \in BOOLEAN : Tick(ready)
    BY DEF ManagerTick
  <2>2. spawning' = (spawning \/ MaySpawn(ready))
    BY <2>1 DEF Tick
  <2> QED BY <2>2
<1>3. reported' \in Ids \cup {NoBox}
  <2>1. queue # <<>> => Head(queue) \in Ids
    BY HeadTailProperties DEF TypeOK
  <2>2. reported' = NoBox \/ (reported' = Head(queue) /\ queue # <<>>)
    BY DEF ManagerTick, Tick, LeadAtPick
  <2> QED BY <2>1, <2>2
<1> QED BY <1>1, <1>2, <1>3 DEF TypeOK

LEMMA SpawnType ==
  ASSUME TypeOK, spawned < MaxBoxes, SpawnSucceeds
  PROVE  TypeOK'
<1>1. UNCHANGED <<positions, reported, boxes, x, held, speed, statesQ, removedQ, sensed,
                  failures, holds>>
  BY DEF SpawnSucceeds, OnSpawned, advancerOnly
<1>2. spawning' = FALSE /\ targetsNew' = TRUE
  BY DEF SpawnSucceeds, OnSpawned
<1>3. spawned \in Nat /\ spawned + 1 \in Ids /\ spawned + 1 # NoBox
  BY Sizes DEF TypeOK, Ids
<1>4. /\ queue' = Append(queue, spawned + 1)
      /\ spawned' = spawned + 1
      /\ targetsMsg' = TargetsOf(queue')
  BY <1>3 DEF SpawnSucceeds, OnSpawned
<1>5. queue' \in Seq(Ids)
  BY <1>3, <1>4, AppendProperties DEF TypeOK
<1>6. targetsMsg' \in Seq(TargetMsg)
  BY <1>4, <1>5, TargetsType
<1>7. spawned' \in 0..MaxBoxes
  BY <1>3, <1>4, Sizes
<1> QED BY <1>1, <1>2, <1>5, <1>6, <1>7 DEF TypeOK

LEMMA SpawnFailsType ==
  ASSUME TypeOK, SpawnFails
  PROVE  TypeOK'
<1>1. UNCHANGED <<queue, spawned, targetsMsg, positions, reported, boxes, x, held, speed,
                  targetsNew, statesQ, removedQ, sensed, holds>>
  BY DEF SpawnFails, OnSpawned, advancerOnly
<1>2. spawning' = FALSE
  BY DEF SpawnFails, OnSpawned
<1>3. failures' \in 0..MaxSpawnFailures
  BY BeltAssumption DEF SpawnFails, TypeOK
<1> QED BY <1>1, <1>2, <1>3 DEF TypeOK

LEMMA RemovedType ==
  ASSUME TypeOK, ReceiveRemoved
  PROVE  TypeOK'
<1>1. UNCHANGED <<spawned, spawning, reported, boxes, x, held, speed, statesQ, sensed,
                  failures, holds>>
  BY DEF ReceiveRemoved, OnRemoved, advancerOnly
<1>2. targetsNew' \in BOOLEAN
  BY DEF ReceiveRemoved, TypeOK
<1>3. removedQ' \in Seq(Ids)
  BY DeliverType DEF ReceiveRemoved, TypeOK
<1>4. /\ queue' \in Seq(Ids)
      /\ positions' \in StateMsg
      /\ targetsMsg' \in Seq(TargetMsg)
  <2>1. CASE queue # <<>> /\ Head(queue) = Head(removedQ)
    <3>1. queue' = Tail(queue) /\ targetsMsg' = TargetsOf(queue')
      BY <2>1 DEF ReceiveRemoved, OnRemoved
    <3>2. positions' = [b \in DOMAIN positions \ {Head(removedQ)} |-> positions[b]]
      BY <2>1 DEF ReceiveRemoved, OnRemoved
    <3>3. queue' \in Seq(Ids)
      BY <2>1, <3>1, HeadTailProperties DEF TypeOK
    <3>4. positions' \in StateMsg
      BY <3>2, PartOfStateMsg DEF TypeOK
    <3> QED BY <3>1, <3>3, <3>4, TargetsType
  <2>2. CASE ~(queue # <<>> /\ Head(queue) = Head(removedQ))
    BY <2>2 DEF ReceiveRemoved, OnRemoved, TypeOK
  <2> QED BY <2>1, <2>2
<1> QED BY <1>1, <1>2, <1>3, <1>4 DEF TypeOK

LEMMA StatesType ==
  ASSUME TypeOK, ReceiveStates
  PROVE  TypeOK'
<1>1. UNCHANGED <<queue, spawned, spawning, targetsMsg, reported, boxes, x, held, speed,
                  targetsNew, removedQ, sensed, failures, holds>>
  BY DEF ReceiveStates, OnStates, advancerOnly
<1>2. positions' \in StateMsg /\ statesQ' \in Seq(StateMsg)
  BY DeliverType DEF ReceiveStates, OnStates, TypeOK
<1> QED BY <1>1, <1>2 DEF TypeOK

LEMMA TargetsReceivedType ==
  ASSUME TypeOK, ReceiveTargets
  PROVE  TypeOK'
<1>1. UNCHANGED <<managerVars, held, speed, statesQ, removedQ, sensed, failures, holds>>
  BY DEF ReceiveTargets, Advancer!OnTargets
<1>2. boxes' \in Seq(TargetMsg) /\ targetsNew' = FALSE
  BY DEF ReceiveTargets, Advancer!OnTargets, TypeOK
<1>3. x' \in [Ids -> Positions]
  <2>1. StartX \in Positions
    BY Lengths DEF StartX, Positions
  <2> QED BY <2>1 DEF ReceiveTargets, Advancer!OnTargets, TypeOK, Advancer!StartX, StartX
<1> QED BY <1>1, <1>2, <1>3 DEF TypeOK, managerVars

LEMMA StatesPublished ==
  ASSUME TypeOK, BoxesInv, DepthInv, AdvancerStep
  PROVE  /\ x' \in [Ids -> Positions]
         /\ Advancer!States' \in StateMsg
         /\ statesQ' \in Seq(StateMsg)
         /\ Len(statesQ') <= Depth
<1>1. boxes' = boxes /\ statesQ' = Publish(statesQ, Advancer!States', Depth)
  BY DEF AdvancerStep, Advancer!Step
<1>2. x' \in [Ids -> Positions]
  <2>1. CASE held
    BY <2>1 DEF AdvancerStep, Advancer!Step, TypeOK
  <2>2. CASE ~held
    <3>1. PICK after \in [1..Len(boxes) -> Positions] :
            x' = [b \in Ids |->
                    IF b \in OnBelt
                    THEN after[CHOOSE i \in 1..Len(boxes) : boxes[i].id = b]
                    ELSE x[b]]
      BY <2>2 DEF AdvancerStep, Advancer!Step, Advancer!Positions, Positions, Advancer!StartX,
                  StartX, OnBelt
    <3>2. \A b \in OnBelt : (CHOOSE i \in 1..Len(boxes) : boxes[i].id = b) \in 1..Len(boxes)
      BY OnBeltFacts
    <3>3. \A b \in Ids : x[b] \in Positions
      BY DEF TypeOK
    <3> QED BY ONLY <3>1, <3>2, <3>3
  <2> QED BY <2>1, <2>2
<1>3. Advancer!States' \in StateMsg
  <2>1. Advancer!States' = [b \in OnBelt |-> x'[b]]
    BY <1>1 DEF Advancer!States, OnBelt, Advancer!IdsIn
  <2>2. OnBelt \in SUBSET Ids
    BY OnBeltFacts
  <2>3. [b \in OnBelt |-> x'[b]] \in [OnBelt -> Positions]
    BY <1>2, <2>2
  <2> QED BY <2>1, <2>2, <2>3 DEF StateMsg
<1>4. statesQ \in Seq(StateMsg) /\ Len(statesQ) <= Depth
  BY DEF TypeOK, DepthInv
<1> QED BY <1>1, <1>2, <1>3, <1>4, PublishType, Sizes

LEMMA StepType ==
  ASSUME TypeOK, BoxesInv, DepthInv, AdvancerStep
  PROVE  TypeOK'
<1>1. UNCHANGED <<queue, positions, spawned, spawning, targetsMsg, reported, boxes, held, speed,
                  targetsNew, removedQ, sensed, failures, holds>>
  BY DEF AdvancerStep, Advancer!Step, managerVars
<1>2. x' \in [Ids -> Positions] /\ statesQ' \in Seq(StateMsg)
  BY StatesPublished
<1> QED BY <1>1, <1>2 DEF TypeOK

LEMMA EnvironmentType ==
  ASSUME TypeOK, DepthInv, ReportInv,
         SensorReportsRemoval \/ SpuriousRemoval \/ HoldBelt \/ ReleaseBelt \/ ChangeSpeed
  PROVE  TypeOK'
<1>1. CASE SensorReportsRemoval
  <2>1. UNCHANGED <<queue, positions, spawned, spawning, targetsMsg, reported, boxes, x, held,
                    speed, targetsNew, statesQ, failures, holds>>
    BY <1>1 DEF SensorReportsRemoval, managerVars, advancerOnly
  <2>2. reported \in Ids /\ sensed' \in 0..MaxBoxes
    BY <1>1, Sizes DEF SensorReportsRemoval, TypeOK, Ids
  <2>3. removedQ' \in Seq(Ids)
    BY <1>1, <2>2, PublishType, Sizes DEF SensorReportsRemoval, TypeOK, DepthInv
  <2> QED BY <2>1, <2>2, <2>3 DEF TypeOK
<1>2. CASE SpuriousRemoval
  <2>1. UNCHANGED <<queue, positions, spawned, spawning, targetsMsg, reported, boxes, x, held,
                    speed, targetsNew, statesQ, sensed, failures, holds>>
    BY <1>2 DEF SpuriousRemoval, managerVars, advancerOnly
  <2>2. PICK b \in 1..sensed : removedQ' = <<b>>
    BY <1>2 DEF SpuriousRemoval
  <2>3. b \in Ids
    BY Sizes DEF TypeOK, Ids
  <2> QED BY <2>1, <2>2, <2>3 DEF TypeOK
<1>3. CASE HoldBelt
  <2>1. UNCHANGED <<queue, positions, spawned, spawning, targetsMsg, reported, boxes, x,
                    speed, targetsNew, statesQ, removedQ, sensed, failures>>
    BY <1>3 DEF HoldBelt, Advancer!OnHold, managerVars
  <2>2. held' \in BOOLEAN /\ holds' \in 0..MaxHolds
    BY <1>3, BeltAssumption DEF HoldBelt, Advancer!OnHold, TypeOK
  <2> QED BY <2>1, <2>2 DEF TypeOK
<1>4. CASE ReleaseBelt
  <2>1. UNCHANGED <<queue, positions, spawned, spawning, targetsMsg, reported, boxes, x,
                    speed, targetsNew, statesQ, removedQ, sensed, failures, holds>>
    BY <1>4 DEF ReleaseBelt, Advancer!OnHold, managerVars, linkVars
  <2>2. held' \in BOOLEAN
    BY <1>4 DEF ReleaseBelt, Advancer!OnHold
  <2> QED BY <2>1, <2>2 DEF TypeOK
<1>5. CASE ChangeSpeed
  <2>1. UNCHANGED <<queue, positions, spawned, spawning, targetsMsg, reported, boxes, x, held,
                    targetsNew, statesQ, removedQ, sensed, failures, holds>>
    BY <1>5 DEF ChangeSpeed, Advancer!OnSimSpeed, managerVars, linkVars
  <2>2. speed' \in Int
    BY <1>5, BeltAssumption DEF ChangeSpeed, Advancer!OnSimSpeed, TypeOK
  <2> QED BY <2>1, <2>2 DEF TypeOK
<1> QED BY <1>1, <1>2, <1>3, <1>4, <1>5

-----------------------------------------------------------------------------
(* Each step keeps the invariant.                                          *)

\* What only depends on the boxes and the queue.
LEMMA StillFrame ==
  ASSUME UNCHANGED <<queue, spawned, boxes, x>>
  PROVE  /\ Cleared' = Cleared
         /\ OnBelt' = OnBelt
         /\ AbsentInv <=> AbsentInv'
         /\ Spacing <=> Spacing'
<1>1. Cleared' = Cleared
  BY DEF Cleared
<1>2. OnBelt' = OnBelt
  BY DEF OnBelt, Advancer!IdsIn
<1>3. AbsentInv <=> AbsentInv'
  BY <1>2 DEF AbsentInv
<1>4. Spacing <=> Spacing'
  BY DEF Spacing
<1> QED BY <1>1, <1>2, <1>3, <1>4

LEMMA StillNews ==
  ASSUME UNCHANGED <<queue, spawned, boxes, x, positions, statesQ>>, NewsInv
  PROVE  NewsInv'
  BY StillFrame DEF NewsInv, Known

LEMMA StillBoxes ==
  ASSUME UNCHANGED <<queue, spawned, boxes, targetsMsg>>, targetsNew => targetsNew', BoxesInv
  PROVE  BoxesInv'
<1>1. Cleared' = Cleared
  BY DEF Cleared
<1> QED BY <1>1 DEF BoxesInv

LEMMA TickKeepsLine ==
  ASSUME TypeOK, LineInv, ManagerTick
  PROVE  LineInv'
<1>1. UNCHANGED <<queue, positions, spawned, targetsMsg, boxes, x, targetsNew, statesQ, removedQ,
                  sensed>>
  BY DEF ManagerTick, Tick, advancerOnly, linkVars
<1>2. PICK ready \in BOOLEAN : Tick(ready)
  BY DEF ManagerTick
<1>3. Cleared' = Cleared /\ OnBelt' = OnBelt
  BY <1>1, StillFrame
<1>4. Cleared \in 0..spawned /\ spawned \in Nat /\ Len(queue) \in Nat
  BY ClearedRange, QueueTypes DEF LineInv
<1>5. QueueInv'
  <2>1. spawning' => Len(queue) < NumBoxes /\ spawned < MaxBoxes
    BY <1>2 DEF Tick, MaySpawn, LineInv, QueueInv
  <2> QED BY <1>1, <1>3, <2>1 DEF LineInv, QueueInv
<1>6. BoxesInv' /\ AbsentInv' /\ Spacing' /\ NewsInv'
  BY <1>1, StillFrame, StillNews, StillBoxes DEF LineInv
<1>7. StartClearInv'
  <2> SUFFICES ASSUME NEW b \in Ids, Cleared < b, b <= spawned, b < spawned \/ spawning'
               PROVE  b \in OnBelt /\ x[b] >= Pitch - Eps
    BY <1>1, <1>3 DEF StartClearInv
  <2>1. CASE b < spawned \/ spawning
    BY <2>1 DEF LineInv, StartClearInv
  <2>2. CASE ~(b < spawned \/ spawning)
    <3>1. b = spawned /\ b \in Int
      BY <1>4, <2>2 DEF Ids
    <3>2. MaySpawn(ready)
      BY <1>2, <2>2 DEF Tick
    <3>3. queue # <<>>
      BY <1>4, <3>1, ClearedRange DEF LineInv
    <3>4. SpawnAreaClear
      BY <3>2, <3>3 DEF MaySpawn
    <3>5. Last(queue) = b
      <4>1. Len(queue) \in 1..Len(queue) /\ Len(queue) = spawned - Cleared
        BY <1>4, <3>1, ClearedRange DEF LineInv
      <4>2. queue[Len(queue)] = Cleared + Len(queue)
        BY <4>1 DEF LineInv, QueueInv
      <4> QED BY <1>4, <3>1, <4>1, <4>2 DEF Last
    <3>6. b \in DOMAIN positions /\ positions[b] - StartX >= Pitch - Eps
      BY <3>3, <3>4, <3>5 DEF SpawnAreaClear
    <3>7. b \in OnBelt /\ positions[b] <= x[b]
      BY <3>6 DEF LineInv, NewsInv, Known
    <3>8. positions[b] \in Int /\ x[b] \in Int
      BY <3>6, StateMsgFacts, Lengths DEF TypeOK, Positions, StartX
    <3> QED BY <3>6, <3>7, <3>8, Lengths DEF StartX
  <2> QED BY <2>1, <2>2
<1>8. ReportInv'
  <2> SUFFICES ASSUME reported' # NoBox PROVE ReportInv'
    BY DEF ReportInv
  <2>1. LeadAtPick /\ reported' = Head(queue)
    BY <1>2 DEF Tick
  <2>2. queue # <<>> /\ Head(queue) \in DOMAIN positions
        /\ Distance(positions[Head(queue)], PickX) < Eps
    BY <2>1 DEF LeadAtPick
  <2>3. reported' = Cleared + 1 /\ Cleared < spawned /\ Cleared + 1 \in Ids
    BY <2>1, <2>2, ClearedRange DEF LineInv
  <2>4. reported' \in OnBelt /\ positions[reported'] <= x[reported']
    BY <1>4, <2>1, <2>2, <2>3 DEF LineInv, NewsInv, Known
  <2>5. positions[reported'] \in Int /\ x[reported'] \in Int
    <3>1. positions \in StateMsg
      BY DEF TypeOK
    <3>2. positions[reported'] \in Positions
      BY <2>1, <2>2, <3>1, StateMsgFacts
    <3>3. positions[reported'] \in Int
      BY <3>2, Lengths DEF Positions, StartX
    <3>4. reported' \in Ids
      BY ONLY <2>3
    <3> QED BY <3>3, <3>4, PositionsAreInt
  <2>6. positions[reported'] > PickX - Eps
    BY <2>1, <2>2, <2>5, Lengths DEF Distance
  <2>7. x[reported'] > PickX - Eps
    BY <2>4, <2>5, <2>6, Lengths
  <2>8. sensed \in Nat /\ sensed <= Cleared + 1
    BY DEF LineInv, RemovalInv, TypeOK
  <2> QED BY <1>1, <1>3, <1>4, <2>3, <2>4, <2>7, <2>8 DEF ReportInv
<1>9. RemovalInv' /\ DepthInv'
  BY <1>1, <1>3 DEF LineInv, RemovalInv, DepthInv
<1> QED BY <1>5, <1>6, <1>7, <1>8, <1>9 DEF LineInv

LEMMA SpawnKeepsLine ==
  ASSUME TypeOK, LineInv, SpawnSucceeds
  PROVE  LineInv'
<1>1. /\ UNCHANGED <<positions, reported, boxes, x, statesQ, removedQ, sensed>>
      /\ spawning = TRUE /\ spawning' = FALSE /\ targetsNew' = TRUE
  BY DEF SpawnSucceeds, OnSpawned, advancerOnly, TypeOK
<1>2. spawned \in Nat /\ Len(queue) \in Nat /\ Cleared \in 0..spawned
  BY QueueTypes, ClearedRange DEF LineInv
<1>3. Len(queue) < NumBoxes /\ spawned < MaxBoxes /\ Len(queue) = spawned - Cleared
  BY <1>1, ClearedRange DEF LineInv, QueueInv
<1>4. /\ queue' = Append(queue, spawned + 1)
      /\ spawned' = spawned + 1
      /\ targetsMsg' = TargetsOf(queue')
  BY <1>2, Sizes DEF SpawnSucceeds, OnSpawned
<1>5. spawned + 1 \in Ids
  BY <1>2, <1>3, Sizes DEF Ids
<1>6. /\ Len(queue') = Len(queue) + 1
      /\ \A i \in 1..Len(queue) : queue'[i] = queue[i]
      /\ queue'[Len(queue) + 1] = spawned + 1
  BY <1>4, <1>5, AppendProperties DEF TypeOK
<1>7. Cleared' = Cleared /\ OnBelt' = OnBelt
  <2>1. Cleared' = Cleared
    BY <1>2, <1>4, <1>6 DEF Cleared
  <2> QED BY <1>1, <2>1 DEF OnBelt, Advancer!IdsIn
<1>8. QueueInv'
  <2>1. \A i \in 1..Len(queue') : queue'[i] = Cleared' + i
    <3> SUFFICES ASSUME NEW i \in 1..Len(queue') PROVE queue'[i] = Cleared' + i
      OBVIOUS
    <3>1. CASE i = Len(queue) + 1
      BY <1>2, <1>3, <1>6, <1>7, <3>1
    <3>2. CASE i # Len(queue) + 1
      <4>1. i \in 1..Len(queue)
        BY <1>2, <1>6, <3>2
      <4> QED BY <1>6, <1>7, <4>1 DEF LineInv, QueueInv
    <3> QED BY <3>1, <3>2
  <2>2. Len(queue') <= NumBoxes
    BY <1>2, <1>3, <1>6, Sizes
  <2> QED BY <1>1, <1>4, <2>1, <2>2 DEF QueueInv
<1>9. BoxesInv'
  <2>1. /\ Len(boxes) <= NumBoxes
        /\ \A i \in 1..Len(boxes) : boxes[i].id = boxes[1].id + (i - 1)
        /\ \A i \in 1..Len(boxes) : boxes[i].x = SlotX(i - 1)
    BY DEF LineInv, BoxesInv
  <2>2. ASSUME boxes # <<>>
        PROVE  boxes[1].id <= Cleared + 1 /\ boxes[1].id + (Len(boxes) - 1) <= spawned + 1
    <3>1. boxes[1].id <= Cleared + 1 /\ boxes[1].id + (Len(boxes) - 1) <= spawned
      BY <2>2 DEF LineInv, BoxesInv
    <3>2. boxes[1].id \in Int /\ Len(boxes) \in Nat
      <4>1. 1 \in 1..Len(boxes)
        BY <2>2, QueueTypes, EmptySeq DEF TypeOK
      <4> QED BY <4>1, QueueTypes DEF Ids
    <3> QED BY <1>2, <3>1, <3>2
  <2> QED BY <1>1, <1>4, <1>7, <2>1, <2>2 DEF BoxesInv
<1>10. AbsentInv' /\ Spacing'
  BY <1>1, <1>7 DEF LineInv, AbsentInv, Spacing
<1>11. NewsInv'
  BY <1>1, <1>7 DEF LineInv, NewsInv, Known
<1>12. StartClearInv'
  <2> SUFFICES ASSUME NEW b \in Ids, Cleared < b, b < spawned + 1
               PROVE  b \in OnBelt /\ x[b] >= Pitch - Eps
    BY <1>1, <1>4, <1>7 DEF StartClearInv
  <2>1. b <= spawned
    BY <1>2 DEF Ids
  <2> QED BY <1>1, <2>1 DEF LineInv, StartClearInv
<1>13. ReportInv'
  <2> SUFFICES ASSUME reported # NoBox PROVE ReportInv'
    BY <1>1 DEF ReportInv
  <2>1. reported \in Int /\ reported <= spawned
    BY DEF LineInv, ReportInv, TypeOK, Ids
  <2>2. reported <= spawned + 1
    BY <1>2, <2>1
  <2> QED BY <1>1, <1>4, <1>7, <2>2 DEF LineInv, ReportInv
<1>14. RemovalInv' /\ DepthInv'
  <2>1. sensed <= spawned + 1
    BY <1>2 DEF LineInv, RemovalInv, TypeOK
  <2> QED BY <1>1, <1>4, <1>7, <2>1 DEF LineInv, RemovalInv, DepthInv
<1> QED BY <1>8, <1>9, <1>10, <1>11, <1>12, <1>13, <1>14 DEF LineInv

LEMMA SpawnFailsKeepsLine ==
  ASSUME TypeOK, LineInv, SpawnFails
  PROVE  LineInv'
<1>1. /\ UNCHANGED <<queue, spawned, targetsMsg, positions, reported, boxes, x, targetsNew,
                     statesQ, removedQ, sensed>>
      /\ spawning' = FALSE
  BY DEF SpawnFails, OnSpawned, advancerOnly
<1>2. Cleared' = Cleared /\ OnBelt' = OnBelt
  BY <1>1, StillFrame
<1>3. QueueInv'
  BY <1>1, <1>2 DEF LineInv, QueueInv
<1>4. BoxesInv' /\ AbsentInv' /\ Spacing' /\ NewsInv'
  BY <1>1, StillFrame, StillNews, StillBoxes DEF LineInv
<1>5. StartClearInv'
  BY <1>1, <1>2 DEF LineInv, StartClearInv
<1>6. ReportInv' /\ RemovalInv' /\ DepthInv'
  BY <1>1, <1>2 DEF LineInv, ReportInv, RemovalInv, DepthInv
<1> QED BY <1>3, <1>4, <1>5, <1>6 DEF LineInv

LEMMA StatesKeepLine ==
  ASSUME TypeOK, LineInv, ReceiveStates
  PROVE  LineInv'
<1>1. /\ UNCHANGED <<queue, spawned, spawning, targetsMsg, reported, boxes, x, targetsNew,
                     removedQ, sensed>>
      /\ statesQ # <<>>
      /\ positions' = Head(statesQ)
      /\ statesQ' = Tail(statesQ)
  BY DEF ReceiveStates, OnStates, advancerOnly
<1>2. Cleared' = Cleared /\ OnBelt' = OnBelt
  BY <1>1, StillFrame
<1>3. QueueInv'
  BY <1>1, <1>2 DEF LineInv, QueueInv
<1>4. BoxesInv' /\ AbsentInv' /\ Spacing'
  BY <1>1, StillFrame, StillBoxes DEF LineInv
<1>5. /\ 1 \in 1..Len(statesQ)
      /\ Head(statesQ) = statesQ[1]
      /\ \A i \in 1..Len(Tail(statesQ)) : i + 1 \in 1..Len(statesQ)
                                          /\ Tail(statesQ)[i] = statesQ[i + 1]
  BY <1>1, DeliverElements DEF TypeOK
<1>6. NewsInv'
  <2>1. Known(Head(statesQ)) /\ \A i \in 1..Len(Tail(statesQ)) : Known(Tail(statesQ)[i])
    BY <1>5 DEF LineInv, NewsInv
  <2> QED BY <1>1, <1>2, <2>1 DEF NewsInv, Known
<1>7. StartClearInv'
  BY <1>1, <1>2 DEF LineInv, StartClearInv
<1>8. ReportInv' /\ RemovalInv'
  BY <1>1, <1>2 DEF LineInv, ReportInv, RemovalInv
<1>9. DepthInv'
  <2>1. Len(Tail(statesQ)) = Len(statesQ) - 1 /\ Len(statesQ) \in Nat
    BY <1>1, DeliverType, LenProperties DEF TypeOK
  <2> QED BY <1>1, <2>1, Sizes DEF LineInv, DepthInv
<1> QED BY <1>3, <1>4, <1>6, <1>7, <1>8, <1>9 DEF LineInv

\* The removal of the lead box moves the line up; of any other box it does nothing.
LEMMA RemovedEffect ==
  ASSUME TypeOK, LineInv, ReceiveRemoved
  PROVE  /\ UNCHANGED <<spawned, spawning, reported, boxes, x, statesQ, sensed>>
         /\ OnBelt' = OnBelt
         /\ \/ UNCHANGED <<queue, positions, targetsMsg, targetsNew>> /\ Cleared' = Cleared
            \/ /\ queue # <<>>
               /\ Head(removedQ) = Cleared + 1
               /\ queue' = Tail(queue)
               /\ positions' = [b \in DOMAIN positions \ {Cleared + 1} |-> positions[b]]
               /\ targetsMsg' = TargetsOf(queue')
               /\ targetsNew' = TRUE
               /\ Cleared' = Cleared + 1
<1>1. UNCHANGED <<spawned, spawning, reported, boxes, x, statesQ, sensed>>
  BY DEF ReceiveRemoved, OnRemoved, advancerOnly
<1>2. OnBelt' = OnBelt
  BY <1>1 DEF OnBelt, Advancer!IdsIn
<1>3. CASE queue # <<>> /\ Head(queue) = Head(removedQ)
  <2>1. Head(removedQ) = Cleared + 1
    BY <1>3, ClearedRange DEF LineInv
  <2>2. queue' = Tail(queue) /\ targetsMsg' = TargetsOf(queue')
    BY <1>3 DEF ReceiveRemoved, OnRemoved
  <2>3. positions' = [b \in DOMAIN positions \ {Cleared + 1} |-> positions[b]]
    BY <1>3, <2>1 DEF ReceiveRemoved, OnRemoved
  <2>4. Len(queue') = Len(queue) - 1 /\ Len(queue) \in Nat /\ spawned \in Nat
    BY <1>3, <2>2, DeliverType, QueueTypes DEF TypeOK
  <2>5. Cleared' = Cleared + 1
    BY <1>1, <2>4 DEF Cleared
  <2>6. queue' # queue
    BY <2>4
  <2>7. targetsNew' = TRUE
    BY <2>6 DEF ReceiveRemoved
  <2> QED BY <1>1, <1>2, <1>3, <2>1, <2>2, <2>3, <2>5, <2>7
<1>4. CASE ~(queue # <<>> /\ Head(queue) = Head(removedQ))
  <2>1. UNCHANGED <<queue, positions, targetsMsg>>
    BY <1>4 DEF ReceiveRemoved, OnRemoved
  <2>2. targetsNew' = targetsNew
    BY <2>1 DEF ReceiveRemoved, TypeOK
  <2>3. Cleared' = Cleared
    BY <1>1, <2>1 DEF Cleared
  <2> QED BY <1>1, <1>2, <2>1, <2>2, <2>3
<1> QED BY <1>3, <1>4

LEMMA RemovedKeepsLine ==
  ASSUME TypeOK, LineInv, ReceiveRemoved
  PROVE  LineInv'
<1>1. UNCHANGED <<spawned, spawning, reported, boxes, x, statesQ, sensed>> /\ OnBelt' = OnBelt
  BY RemovedEffect
<1>2. /\ Len(removedQ') = Len(removedQ) - 1
      /\ Len(removedQ) \in Nat
      /\ \A i \in 1..Len(removedQ') : removedQ'[i] <= sensed
  <2>1. removedQ # <<>> /\ removedQ' = Tail(removedQ) /\ removedQ \in Seq(Ids)
    BY DEF ReceiveRemoved, TypeOK
  <2> QED BY <2>1, DeliverType, DeliverElements, LenProperties DEF LineInv, RemovalInv
<1>3. DepthInv'
  BY <1>1, <1>2, Sizes DEF LineInv, DepthInv
<1>4. AbsentInv' /\ Spacing'
  BY <1>1 DEF LineInv, AbsentInv, Spacing
<1>5. CASE UNCHANGED <<queue, positions, targetsMsg, targetsNew>> /\ Cleared' = Cleared
  <2>1. QueueInv' /\ BoxesInv'
    BY <1>1, <1>5 DEF LineInv, QueueInv, BoxesInv
  <2>2. NewsInv' /\ StartClearInv'
    BY <1>1, <1>5 DEF LineInv, NewsInv, Known, StartClearInv
  <2>3. ReportInv' /\ RemovalInv'
    BY <1>1, <1>2, <1>5 DEF LineInv, ReportInv, RemovalInv
  <2> QED BY <1>3, <1>4, <2>1, <2>2, <2>3 DEF LineInv
<1>6. CASE /\ queue # <<>>
           /\ queue' = Tail(queue)
           /\ positions' = [b \in DOMAIN positions \ {Cleared + 1} |-> positions[b]]
           /\ targetsMsg' = TargetsOf(queue')
           /\ targetsNew' = TRUE
           /\ Cleared' = Cleared + 1
  <2>1. Cleared \in Nat /\ Cleared < spawned /\ spawned \in Nat
    BY <1>6, ClearedRange, QueueTypes DEF LineInv
  <2>2. QueueInv'
    <3>1. Len(queue') = Len(queue) - 1 /\ Len(queue) \in Nat
      BY <1>6, DeliverType, QueueTypes DEF TypeOK
    <3>2. \A i \in 1..Len(queue') : i + 1 \in 1..Len(queue) /\ queue'[i] = queue[i + 1]
      BY <1>6, DeliverElements DEF TypeOK
    <3>3. \A i \in 1..Len(queue') : queue'[i] = Cleared' + i
      BY <1>6, <2>1, <3>2 DEF LineInv, QueueInv
    <3>4. Len(queue') <= NumBoxes /\ (spawning => Len(queue') < NumBoxes /\ spawned < MaxBoxes)
      BY <3>1, Sizes DEF LineInv, QueueInv
    <3> QED BY <1>1, <1>6, <3>3, <3>4 DEF QueueInv
  <2>3. BoxesInv'
    <3>1. boxes # <<>> => boxes[1].id <= Cleared + 2
      <4> SUFFICES ASSUME boxes # <<>> PROVE boxes[1].id <= Cleared + 2
        OBVIOUS
      <4>1. boxes[1].id \in Int
        <5>1. 1 \in 1..Len(boxes)
          BY QueueTypes, EmptySeq DEF TypeOK
        <5> QED BY <5>1, QueueTypes DEF Ids
      <4> QED BY <2>1, <4>1 DEF LineInv, BoxesInv
    <3>2. Cleared' + 1 = Cleared + 2
      BY <1>6, <2>1
    <3> QED BY <1>1, <1>6, <3>1, <3>2 DEF LineInv, BoxesInv
  <2>4. NewsInv'
    <3>1. \A b \in Ids : b > Cleared + 1 => b > Cleared
      BY <2>1 DEF Ids
    <3>2. ASSUME NEW msg \in StateMsg, Known(msg)
          PROVE  \A b \in DOMAIN msg : b > Cleared + 1 => b \in OnBelt /\ msg[b] <= x[b]
      <4>1. DOMAIN msg \subseteq Ids
        BY StateMsgFacts
      <4> QED BY <3>1, <3>2, <4>1 DEF Known
    <3>3. /\ \A b \in DOMAIN positions : b > Cleared + 1 => b \in OnBelt /\ positions[b] <= x[b]
          /\ \A i \in 1..Len(statesQ) :
               \A b \in DOMAIN statesQ[i] :
                 b > Cleared + 1 => b \in OnBelt /\ statesQ[i][b] <= x[b]
      <4>1. positions \in StateMsg /\ \A i \in 1..Len(statesQ) : statesQ[i] \in StateMsg
        BY ElementOfSeq DEF TypeOK
      <4>2. Known(positions) /\ \A i \in 1..Len(statesQ) : Known(statesQ[i])
        BY DEF LineInv, NewsInv
      <4> QED BY <3>2, <4>1, <4>2
    <3>4. Known(positions)'
      BY <1>1, <1>6, <3>3 DEF Known
    <3>5. \A i \in 1..Len(statesQ') : Known(statesQ[i])'
      BY <1>1, <1>6, <3>3 DEF Known
    <3> QED BY <3>4, <3>5 DEF NewsInv
  <2>5. StartClearInv'
    <3> SUFFICES ASSUME NEW b \in Ids, Cleared + 1 < b, b <= spawned, b < spawned \/ spawning
                 PROVE  b \in OnBelt /\ x[b] >= Pitch - Eps
      BY <1>1, <1>6 DEF StartClearInv
    <3>1. Cleared < b
      BY <2>1 DEF Ids
    <3> QED BY <3>1 DEF LineInv, StartClearInv
  <2>6. ReportInv'
    <3> SUFFICES ASSUME reported # NoBox PROVE ReportInv'
      BY <1>1 DEF ReportInv
    <3>1. reported \in Int
      BY DEF TypeOK, Ids
    <3>2. reported <= Cleared + 2 /\ (reported \notin OnBelt => reported <= Cleared + 1)
      BY <2>1, <3>1 DEF LineInv, ReportInv
    <3> QED BY <1>1, <1>6, <2>1, <3>2 DEF LineInv, ReportInv
  <2>7. RemovalInv'
    <3>1. sensed <= Cleared + 2
      BY <2>1 DEF LineInv, RemovalInv, TypeOK
    <3> QED BY <1>1, <1>2, <1>6, <2>1, <3>1 DEF LineInv, RemovalInv
  <2> QED BY <1>3, <1>4, <2>2, <2>3, <2>4, <2>5, <2>6, <2>7 DEF LineInv
<1> QED BY <1>5, <1>6, RemovedEffect

\* A box either stays where it is or stops short of its target and of the box
\* ahead, wherever that one has gone.
LEMMA AdvancedBounds ==
  ASSUME TypeOK, NEW after \in [1..Len(boxes) -> Positions], Advancer!StepOf(after),
         NEW i \in 1..Len(boxes)
  PROVE  /\ after[i] \in Int
         /\ x[boxes[i].id] <= after[i]
         /\ \/ after[i] = x[boxes[i].id]
            \/ /\ after[i] <= boxes[i].x
               /\ i > 1 => after[i] <= after[i - 1] - Pitch
<1> DEFINE old == x[boxes[i].id]
<1> DEFINE most == Advancer!Allowed(i, after)
<1> DEFINE new == Advancer!Least(old + speed, most)
<1>1. Len(boxes) \in Nat /\ boxes[i].id \in Ids /\ boxes[i].x \in Int
  BY QueueTypes DEF TargetMsg
<1>2. old \in Int /\ speed \in Int
  BY <1>1, PositionsAreInt DEF TypeOK
<1>3. \A j \in 1..Len(boxes) : after[j] \in Int
  BY Lengths DEF Positions, StartX
<1>4. most \in Int /\ most <= boxes[i].x /\ (i > 1 => most <= after[i - 1] - Pitch)
  <2>1. CASE i = 1
    BY <1>1, <2>1 DEF Advancer!Allowed
  <2>2. CASE i # 1
    <3>1. i - 1 \in 1..Len(boxes) /\ i > 1
      BY <1>1, <2>2
    <3>2. after[i - 1] - Pitch \in Int
      BY <1>3, <3>1, Lengths
    <3>3. most = Advancer!Least(boxes[i].x, after[i - 1] - Pitch)
      BY <2>2 DEF Advancer!Allowed
    <3> HIDE DEF most
    <3> QED BY <1>1, <3>1, <3>2, <3>3 DEF Advancer!Least
  <2> QED BY <2>1, <2>2
<1>5. after[i] = IF new > old + Eps THEN new ELSE old
  BY DEF Advancer!StepOf, Advancer!Advanced
<1> HIDE DEF most, old
<1>6. new \in Int /\ new <= most
  BY <1>2, <1>4 DEF Advancer!Least
<1> HIDE DEF new
<1>7. old <= after[i] /\ (after[i] = old \/ after[i] = new)
  BY <1>2, <1>5, <1>6, Lengths
<1>8. after[i] = new => after[i] <= boxes[i].x
  BY <1>1, <1>4, <1>6
<1>9. after[i] = new /\ i > 1 => after[i] <= after[i - 1] - Pitch
  <2> SUFFICES ASSUME after[i] = new, i > 1 PROVE after[i] <= after[i - 1] - Pitch
    OBVIOUS
  <2>1. after[i - 1] \in Int
    BY <1>1, <1>3
  <2> QED BY <1>4, <1>6, <2>1, Lengths
<1>10. after[i] \in Int
  BY <1>3
<1> QED BY <1>7, <1>8, <1>9, <1>10 DEF old

\* One tick of the advancer: boxes only go forward, and keep their distance.
LEMMA StepEffect ==
  ASSUME TypeOK, LineInv, AdvancerStep
  PROVE  /\ UNCHANGED <<queue, positions, spawned, spawning, targetsMsg, reported, boxes, held,
                        targetsNew, removedQ, sensed>>
         /\ \A b \in Ids : x[b] <= x'[b]
         /\ \A b \in Ids : b \notin OnBelt => x'[b] = x[b]
         /\ held => x' = x
         /\ Spacing'
<1>1. UNCHANGED <<queue, positions, spawned, spawning, targetsMsg, reported, boxes, held,
                  targetsNew, removedQ, sensed>>
  BY DEF AdvancerStep, Advancer!Step, managerVars
<1>2. \A b \in Ids : x[b] \in Int
  BY PositionsAreInt
<1>3. CASE held
  <2>1. x' = x
    BY <1>3 DEF AdvancerStep, Advancer!Step
  <2> QED BY <1>1, <1>2, <2>1 DEF LineInv, Spacing
<1>4. CASE ~held
  <2>1. PICK after \in [1..Len(boxes) -> Positions] :
          /\ Advancer!StepOf(after)
          /\ x' = [b \in Ids |->
                     IF b \in OnBelt
                     THEN after[CHOOSE i \in 1..Len(boxes) : boxes[i].id = b]
                     ELSE x[b]]
    BY <1>4 DEF AdvancerStep, Advancer!Step, Advancer!Positions, Positions, Advancer!StartX,
                StartX, OnBelt
  <2>2. \A i \in 1..Len(boxes) : x'[boxes[i].id] = after[i]
    <3> SUFFICES ASSUME NEW i \in 1..Len(boxes) PROVE x'[boxes[i].id] = after[i]
      OBVIOUS
    <3>1. boxes[i].id \in OnBelt /\ boxes[i].id \in Ids
      BY OnBeltFacts DEF LineInv
    <3>2. (CHOOSE j \in 1..Len(boxes) : boxes[j].id = boxes[i].id) = i
      BY OnBeltFacts DEF LineInv
    <3> QED BY <2>1, <3>1, <3>2
  <2>3. \A b \in Ids : b \notin OnBelt => x'[b] = x[b]
    BY <2>1
  <2>4. \A b \in Ids : x[b] <= x'[b]
    <3> SUFFICES ASSUME NEW b \in Ids PROVE x[b] <= x'[b]
      OBVIOUS
    <3>1. CASE b \notin OnBelt
      BY <1>2, <2>3, <3>1
    <3>2. CASE b \in OnBelt
      <4>1. PICK i \in 1..Len(boxes) : boxes[i].id = b
        BY <3>2, OnBeltFacts DEF LineInv
      <4>2. x[boxes[i].id] <= after[i]
        BY <2>1, AdvancedBounds
      <4> QED BY <2>2, <4>1, <4>2
    <3> QED BY <3>1, <3>2
  <2>5. Len(boxes) \in Nat /\ \A i \in 1..Len(boxes) : x[boxes[i].id] \in Int /\ boxes[i].x \in Int
    BY <1>2, QueueTypes DEF TargetMsg
  <2>6. \A i \in 1..Len(boxes) : after[i] <= boxes[i].x
    <3> SUFFICES ASSUME NEW i \in 1..Len(boxes) PROVE after[i] <= boxes[i].x
      OBVIOUS
    <3>1. x[boxes[i].id] <= boxes[i].x
      BY DEF LineInv, Spacing
    <3>2. after[i] = x[boxes[i].id] \/ after[i] <= boxes[i].x
      BY <2>1, AdvancedBounds
    <3> QED BY <3>1, <3>2
  <2>7. \A i \in 2..Len(boxes) : after[i - 1] - after[i] >= Pitch - Eps
    <3> SUFFICES ASSUME NEW i \in 2..Len(boxes) PROVE after[i - 1] - after[i] >= Pitch - Eps
      OBVIOUS
    <3>1. i \in 1..Len(boxes) /\ i - 1 \in 1..Len(boxes) /\ i > 1
      BY <2>5
    <3>2. after[i] \in Int /\ after[i - 1] \in Int /\ x[boxes[i - 1].id] <= after[i - 1]
      BY <2>1, <3>1, AdvancedBounds
    <3>3. after[i] = x[boxes[i].id] \/ after[i] <= after[i - 1] - Pitch
      BY <2>1, <3>1, AdvancedBounds
    <3>4. x[boxes[i - 1].id] - x[boxes[i].id] >= Pitch - Eps
      BY DEF LineInv, Spacing
    <3>5. x[boxes[i].id] \in Int /\ x[boxes[i - 1].id] \in Int
      BY <2>5, <3>1
    <3> QED BY ONLY <3>2, <3>3, <3>4, <3>5, Lengths
  <2>8. Spacing'
    <3>1. \A i \in 2..Len(boxes) : i \in 1..Len(boxes) /\ i - 1 \in 1..Len(boxes)
      BY <2>5
    <3> QED BY <1>1, <2>2, <2>6, <2>7, <3>1 DEF Spacing
  <2> QED BY <1>1, <1>4, <2>3, <2>4, <2>8
<1> QED BY <1>3, <1>4

\* The boxes the advancer knows of are consecutive: between the first one and
\* a later one it knows all.
LEMMA BoxBetween ==
  ASSUME TypeOK, BoxesInv, NEW b \in OnBelt, NEW a \in Int, Cleared < a, a <= b
  PROVE  \E i \in 1..Len(boxes) : boxes[i].id = a
<1>1. PICK j \in 1..Len(boxes) : boxes[j].id = b
  BY OnBeltFacts
<1>2. Len(boxes) \in Nat /\ Cleared \in Int /\ 1 \in 1..Len(boxes) /\ boxes # <<>>
  BY <1>1, QueueTypes, EmptySeq
<1>3. boxes[1].id \in Int /\ boxes[1].id <= Cleared + 1
  BY <1>2, QueueTypes DEF BoxesInv, Ids
<1>4. b = boxes[1].id + (j - 1)
  BY <1>1 DEF BoxesInv
<1>5. a - boxes[1].id + 1 \in 1..Len(boxes)
  BY <1>2, <1>3, <1>4
<1>6. boxes[a - boxes[1].id + 1].id = boxes[1].id + ((a - boxes[1].id + 1) - 1)
  BY <1>5 DEF BoxesInv
<1>7. boxes[a - boxes[1].id + 1].id = a
  BY <1>3, <1>6
<1> QED BY <1>5, <1>7

\* New targets: the boxes that stay keep their places, the others of the queue
\* appear at the start.
LEMMA TargetsEffect ==
  ASSUME TypeOK, LineInv, ReceiveTargets
  PROVE  /\ UNCHANGED <<queue, positions, spawned, spawning, targetsMsg, reported, held, statesQ,
                        removedQ, sensed>>
         /\ boxes' = targetsMsg /\ targetsNew' = FALSE
         /\ OnBelt' \subseteq Ids
         /\ \A b \in Ids : b \in OnBelt' <=> Cleared < b /\ b <= spawned
         /\ \A b \in Ids : x'[b] = IF b \in OnBelt' /\ b \in OnBelt THEN x[b] ELSE StartX
<1>1. /\ UNCHANGED <<queue, positions, spawned, spawning, targetsMsg, reported, held, statesQ,
                     removedQ, sensed>>
      /\ boxes' = targetsMsg /\ targetsNew' = FALSE
  BY DEF ReceiveTargets, Advancer!OnTargets, managerVars
<1>2. OnBelt' = Advancer!IdsIn(targetsMsg)
  BY <1>1 DEF OnBelt, Advancer!IdsIn
<1>3. \A b \in Ids : b \in OnBelt' <=> Cleared < b /\ b <= spawned
  BY <1>2, TargetFacts DEF LineInv
<1>4. \A b \in Ids : x'[b] = IF b \in OnBelt' /\ b \in OnBelt THEN x[b] ELSE StartX
  BY <1>2 DEF ReceiveTargets, Advancer!OnTargets, OnBelt, Advancer!StartX, StartX
<1>5. OnBelt' \subseteq Ids
  <2>1. \A i \in 1..Len(targetsMsg) : targetsMsg[i] \in TargetMsg
    BY ElementOfSeq DEF TypeOK
  <2> QED BY <1>2, <2>1 DEF Advancer!IdsIn, TargetMsg
<1> QED BY <1>1, <1>3, <1>4, <1>5

LEMMA TargetsSpacing ==
  ASSUME TypeOK, LineInv, ReceiveTargets
  PROVE  Spacing'
<1>1. /\ boxes' = targetsMsg
      /\ \A b \in Ids : b \in OnBelt' <=> Cleared < b /\ b <= spawned
      /\ \A b \in Ids : x'[b] = IF b \in OnBelt' /\ b \in OnBelt THEN x[b] ELSE StartX
  BY TargetsEffect
<1>2. Len(targetsMsg) = Len(queue)
  BY TargetFacts DEF LineInv
<1>3. /\ \A i \in 1..Len(queue) : targetsMsg[i].id = Cleared + i
      /\ \A i \in 1..Len(queue) : targetsMsg[i].x = SlotX(i - 1)
  BY TargetFacts DEF LineInv
<1>4. /\ Len(queue) \in Nat /\ Cleared \in Nat /\ spawned \in 0..MaxBoxes
      /\ Len(queue) = spawned - Cleared /\ Len(queue) <= NumBoxes
  BY QueueTypes, ClearedRange DEF LineInv, QueueInv, TypeOK
<1>5. \A i \in 1..Len(queue) : /\ Cleared + i \in Ids
                               /\ Cleared < Cleared + i
                               /\ Cleared + i <= spawned
  BY <1>4, Sizes DEF Ids
<1>6. \A b \in Ids : x[b] \in Int /\ x[b] >= 0
  BY Lengths DEF TypeOK, Positions, StartX
<1>7. ASSUME NEW p \in Ids, NEW q \in Ids, q = p + 1, Cleared < p, q <= spawned
      PROVE  x'[p] - x'[q] >= Pitch - Eps
  <2>1. p \in Int /\ q \in Int /\ Cleared < q /\ p < spawned /\ p <= q
    BY <1>4, <1>7 DEF Ids
  <2>2. p \in OnBelt' /\ q \in OnBelt'
    BY <1>1, <1>4, <1>7, <2>1
  <2>3. x[p] \in Int /\ x[q] \in Int
    BY <1>6
  <2>4. CASE q \in OnBelt
    <3>1. PICK j \in 1..Len(boxes) : boxes[j].id = q
      BY <2>4, OnBeltFacts DEF LineInv
    <3>2. PICK k \in 1..Len(boxes) : boxes[k].id = p
      BY <1>7, <2>1, <2>4, BoxBetween DEF LineInv
    <3>3. p \in OnBelt
      BY <3>2, OnBeltFacts DEF LineInv
    <3>4. Len(boxes) \in Nat /\ boxes[1].id \in Int
      <4>1. 1 \in 1..Len(boxes)
        BY <3>1, QueueTypes
      <4> QED BY <4>1, QueueTypes DEF Ids
    <3>5. k = j - 1 /\ j \in 2..Len(boxes)
      <4>1. boxes[j].id = boxes[1].id + (j - 1) /\ boxes[k].id = boxes[1].id + (k - 1)
        BY DEF LineInv, BoxesInv
      <4>2. q = boxes[1].id + (j - 1) /\ p = boxes[1].id + (k - 1)
        BY <3>1, <3>2, <4>1
      <4> QED BY ONLY <1>7, <2>1, <3>4, <4>2, j \in 1..Len(boxes), k \in 1..Len(boxes)
    <3>6. x[p] - x[q] >= Pitch - Eps
      BY <3>1, <3>2, <3>5 DEF LineInv, Spacing
    <3>7. x'[p] = x[p] /\ x'[q] = x[q]
      BY <1>1, <2>2, <2>4, <3>3
    <3> QED BY ONLY <2>3, <3>6, <3>7, Lengths
  <2>5. CASE q \notin OnBelt
    <3>1. p \in OnBelt /\ x[p] >= Pitch - Eps
      BY <1>4, <1>7, <2>1 DEF LineInv, StartClearInv
    <3>2. x'[p] = x[p] /\ x'[q] = 0
      BY <1>1, <2>2, <2>5, <3>1 DEF StartX
    <3> QED BY <2>3, <3>1, <3>2, Lengths
  <2> QED BY <2>4, <2>5
<1>8. ASSUME NEW i \in 1..Len(queue)
      PROVE  x'[Cleared + i] <= SlotX(i - 1)
  <2> DEFINE b == Cleared + i
  <2>1. i - 1 \in Nat /\ i - 1 < NumBoxes
    BY <1>4, Sizes
  <2>2. b \in Ids /\ b \in OnBelt' /\ b \in Int
    BY <1>1, <1>4, <1>5
  <2>3. CASE b \in OnBelt
    <3>1. PICK j \in 1..Len(boxes) : boxes[j].id = b
      BY <2>3, OnBeltFacts DEF LineInv
    <3>2. Len(boxes) \in Nat /\ boxes[1].id \in Int /\ boxes[1].id <= Cleared + 1
      <4>1. 1 \in 1..Len(boxes) /\ boxes # <<>>
        BY <3>1, QueueTypes, EmptySeq
      <4> QED BY <4>1, QueueTypes DEF Ids, LineInv, BoxesInv
    <3>3. boxes[j].id = boxes[1].id + (j - 1) /\ boxes[j].x = SlotX(j - 1)
      BY DEF LineInv, BoxesInv
    <3>4. j - 1 \in Nat /\ i - 1 <= j - 1
      BY <1>4, <3>1, <3>2, <3>3
    <3>5. SlotX(j - 1) <= SlotX(i - 1) /\ SlotX(j - 1) \in Int /\ SlotX(i - 1) \in Int
      BY <2>1, <3>4, SlotOrder, SlotType
    <3>6. x[b] <= SlotX(j - 1)
      BY <3>1, <3>3 DEF LineInv, Spacing
    <3>7. x'[b] = x[b] /\ x[b] \in Int
      BY <1>1, <1>6, <2>2, <2>3
    <3> QED BY <3>5, <3>6, <3>7
  <2>4. CASE b \notin OnBelt
    BY <1>1, <2>1, <2>2, <2>4, SlotOnBelt
  <2> QED BY <2>3, <2>4
<1>9. ASSUME NEW i \in 2..Len(queue)
      PROVE  x'[targetsMsg[i - 1].id] - x'[targetsMsg[i].id] >= Pitch - Eps
  <2>1. i - 1 \in 1..Len(queue) /\ i \in 1..Len(queue)
    BY <1>4
  <2>2. /\ targetsMsg[i - 1].id = Cleared + (i - 1) /\ targetsMsg[i].id = Cleared + i
        /\ targetsMsg[i].id = targetsMsg[i - 1].id + 1
    <3>1. targetsMsg[i - 1].id = Cleared + (i - 1) /\ targetsMsg[i].id = Cleared + i
      BY <1>3, <2>1
    <3>2. Cleared + i = Cleared + (i - 1) + 1
      BY <1>4
    <3> QED BY ONLY <3>1, <3>2
  <2>3. /\ targetsMsg[i - 1].id \in Ids /\ targetsMsg[i].id \in Ids
        /\ Cleared < targetsMsg[i - 1].id /\ targetsMsg[i].id <= spawned
    BY <1>5, <2>1, <2>2
  <2> QED BY <1>7, <2>2, <2>3
<1> QED BY <1>1, <1>2, <1>3, <1>8, <1>9 DEF Spacing

\* Whatever moves boxes forward, and takes none from the queue off the belt,
\* leaves what the manager believes, and reported, as true as before.
LEMMA ForwardKeepsNews ==
  ASSUME TypeOK, LineInv,
         UNCHANGED <<queue, spawned, spawning, positions, reported, sensed>>,
         TypeOK',
         \A b \in Ids : b \in OnBelt /\ Cleared < b => b \in OnBelt',
         \A b \in Ids : b \in OnBelt' /\ b \notin OnBelt => Cleared < b,
         \A b \in Ids : b \in OnBelt' /\ b \in OnBelt => x[b] <= x'[b]
  PROVE  /\ Cleared' = Cleared
         /\ \A msg \in StateMsg : Known(msg) => \A b \in DOMAIN msg :
                                    b > Cleared => b \in OnBelt' /\ msg[b] <= x'[b]
         /\ StartClearInv'
         /\ ReportInv'
<1>1. Cleared' = Cleared
  BY DEF Cleared
<1>2. \A b \in Ids : x[b] \in Int /\ x'[b] \in Int /\ b \in Int
  <2>1. x' \in [Ids -> Positions]
    BY DEF TypeOK
  <2>2. \A b \in Ids : x[b] \in Int /\ x'[b] \in Int
    BY <2>1, PositionsAreInt, NewPositionsAreInt
  <2> QED BY <2>2 DEF Ids
<1>3. spawned \in Int /\ Cleared \in Int
  BY QueueTypes
<1>4. ASSUME NEW msg \in StateMsg, Known(msg), NEW b \in DOMAIN msg, b > Cleared
      PROVE  b \in OnBelt' /\ msg[b] <= x'[b]
  <2>1. b \in Ids /\ msg[b] \in Int
    BY StateMsgFacts, Lengths DEF Positions, StartX
  <2>2. b \in OnBelt /\ msg[b] <= x[b]
    BY <1>4 DEF Known
  <2>3. b \in OnBelt' /\ x[b] <= x'[b]
    BY <1>2, <1>3, <1>4, <2>1, <2>2
  <2> QED BY <1>2, <2>1, <2>2, <2>3
<1>5. StartClearInv'
  <2> SUFFICES ASSUME NEW b \in Ids, Cleared < b, b <= spawned, b < spawned \/ spawning
               PROVE  b \in OnBelt' /\ x'[b] >= Pitch - Eps
    <3>1. spawned' = spawned /\ spawning' = spawning
      OBVIOUS
    <3> QED BY <1>1, <3>1 DEF StartClearInv
  <2>1. b \in OnBelt /\ x[b] >= Pitch - Eps
    BY DEF LineInv, StartClearInv
  <2>2. b \in OnBelt' /\ x[b] <= x'[b]
    BY <2>1
  <2> QED BY <1>2, <2>1, <2>2, Lengths
<1>6. ReportInv'
  <2> SUFFICES ASSUME reported # NoBox PROVE ReportInv'
    BY DEF ReportInv
  <2>1. reported \in Ids
    BY DEF TypeOK
  <2>2. /\ sensed <= reported /\ reported <= Cleared + 1 /\ reported <= spawned
        /\ reported \in OnBelt => x[reported] > PickX - Eps
        /\ reported \notin OnBelt => reported <= Cleared
    BY DEF LineInv, ReportInv
  <2>3. ASSUME reported \in OnBelt' PROVE x'[reported] > PickX - Eps
    <3>1. reported \in OnBelt
      <4> SUFFICES ASSUME reported \notin OnBelt PROVE FALSE
        OBVIOUS
      <4>1. reported <= Cleared /\ Cleared < reported
        BY <2>1, <2>2, <2>3
      <4> QED BY <1>2, <1>3, <2>1, <4>1
    <3>2. x[reported] <= x'[reported]
      BY <2>1, <2>3, <3>1
    <3> QED BY <1>2, <2>1, <2>2, <3>1, <3>2, Lengths
  <2>4. ASSUME reported \notin OnBelt' PROVE reported <= Cleared
    BY <1>2, <1>3, <2>1, <2>2, <2>4
  <2> QED BY <1>1, <2>2, <2>3, <2>4 DEF ReportInv
<1> QED BY <1>1, <1>4, <1>5, <1>6

LEMMA TargetsKeepLine ==
  ASSUME TypeOK, LineInv, ReceiveTargets, TypeOK'
  PROVE  LineInv'
<1>1. /\ UNCHANGED <<queue, positions, spawned, spawning, targetsMsg, reported, held, statesQ,
                     removedQ, sensed>>
      /\ boxes' = targetsMsg /\ targetsNew' = FALSE
  BY TargetsEffect
<1>2. OnBelt' \subseteq Ids /\ \A b \in Ids : b \in OnBelt' <=> Cleared < b /\ b <= spawned
  BY TargetsEffect
<1>3. \A b \in Ids : x'[b] = IF b \in OnBelt' /\ b \in OnBelt THEN x[b] ELSE StartX
  BY TargetsEffect
<1>4. \A b \in Ids : x[b] \in Int
  BY PositionsAreInt
<1>5. \A b \in OnBelt : b <= spawned
  BY OnBeltFacts DEF LineInv
<1>6. /\ Cleared' = Cleared
      /\ \A msg \in StateMsg : Known(msg) => \A b \in DOMAIN msg :
                                 b > Cleared => b \in OnBelt' /\ msg[b] <= x'[b]
      /\ StartClearInv'
      /\ ReportInv'
  <2>1. \A b \in Ids : b \in OnBelt /\ Cleared < b => b \in OnBelt'
    BY <1>2, <1>5
  <2>2. \A b \in Ids : b \in OnBelt' /\ b \notin OnBelt => Cleared < b
    BY <1>2
  <2>3. \A b \in Ids : b \in OnBelt' /\ b \in OnBelt => x[b] <= x'[b]
    BY <1>3, <1>4
  <2> QED BY <1>1, <2>1, <2>2, <2>3, ForwardKeepsNews
<1>7. QueueInv'
  BY <1>1, <1>6 DEF LineInv, QueueInv
<1>8. BoxesInv'
  <2>1. /\ Len(targetsMsg) = Len(queue)
        /\ \A i \in 1..Len(queue) : targetsMsg[i].id = Cleared + i
        /\ \A i \in 1..Len(queue) : targetsMsg[i].x = SlotX(i - 1)
    BY TargetFacts DEF LineInv
  <2>2. Cleared \in Nat /\ Len(queue) \in Nat /\ Len(queue) = spawned - Cleared /\ spawned \in Nat
    BY QueueTypes, ClearedRange DEF LineInv
  <2>3. \A i \in 1..Len(targetsMsg) : targetsMsg[i].id = targetsMsg[1].id + (i - 1)
    <3> SUFFICES ASSUME NEW i \in 1..Len(queue)
                 PROVE  targetsMsg[i].id = targetsMsg[1].id + (i - 1)
      BY <2>1
    <3>1. 1 \in 1..Len(queue)
      BY <2>2
    <3>2. targetsMsg[i].id = Cleared + i /\ targetsMsg[1].id = Cleared + 1
      BY <2>1, <3>1
    <3> QED BY <2>2, <3>2
  <2>4. targetsMsg # <<>> => /\ targetsMsg[1].id <= Cleared + 1
                             /\ targetsMsg[1].id + (Len(targetsMsg) - 1) <= spawned
    <3> SUFFICES ASSUME targetsMsg # <<>>
                 PROVE  /\ targetsMsg[1].id <= Cleared + 1
                        /\ targetsMsg[1].id + (Len(targetsMsg) - 1) <= spawned
      OBVIOUS
    <3>1. 1 \in 1..Len(queue)
      <4>1. targetsMsg \in Seq(TargetMsg)
        BY DEF TypeOK
      <4>2. Len(targetsMsg) \in Nat \ {0}
        BY <4>1, EmptySeq
      <4> QED BY <2>1, <4>2
    <3>2. targetsMsg[1].id = Cleared + 1
      BY <2>1, <3>1
    <3> QED BY <2>1, <2>2, <3>2
  <2>5. Len(targetsMsg) <= NumBoxes
    BY <2>1 DEF LineInv, QueueInv
  <2> QED BY <1>1, <1>6, <2>1, <2>3, <2>4, <2>5 DEF BoxesInv
<1>9. AbsentInv'
  BY <1>3 DEF AbsentInv
<1>10. Spacing'
  BY TargetsSpacing
<1>11. NewsInv'
  <2>1. positions \in StateMsg /\ \A i \in 1..Len(statesQ) : statesQ[i] \in StateMsg
    BY ElementOfSeq DEF TypeOK
  <2>2. Known(positions) /\ \A i \in 1..Len(statesQ) : Known(statesQ[i])
    BY DEF LineInv, NewsInv
  <2>3. Known(positions)'
    BY <1>1, <1>6, <2>1, <2>2 DEF Known
  <2>4. \A i \in 1..Len(statesQ') : Known(statesQ[i])'
    BY <1>1, <1>6, <2>1, <2>2 DEF Known
  <2> QED BY <2>3, <2>4 DEF NewsInv
<1>12. RemovalInv' /\ DepthInv'
  BY <1>1, <1>6 DEF LineInv, RemovalInv, DepthInv
<1> QED BY <1>6, <1>7, <1>8, <1>9, <1>10, <1>11, <1>12 DEF LineInv

LEMMA StepKeepsLine ==
  ASSUME TypeOK, LineInv, AdvancerStep, TypeOK'
  PROVE  LineInv'
<1>1. /\ UNCHANGED <<queue, positions, spawned, spawning, targetsMsg, reported, boxes, held,
                     targetsNew, removedQ, sensed>>
      /\ \A b \in Ids : x[b] <= x'[b]
      /\ \A b \in Ids : b \notin OnBelt => x'[b] = x[b]
      /\ Spacing'
  BY StepEffect
<1>2. OnBelt' = OnBelt
  BY <1>1 DEF OnBelt, Advancer!IdsIn
<1>3. /\ Cleared' = Cleared
      /\ \A msg \in StateMsg : Known(msg) => \A b \in DOMAIN msg :
                                 b > Cleared => b \in OnBelt' /\ msg[b] <= x'[b]
      /\ StartClearInv'
      /\ ReportInv'
  BY <1>1, <1>2, ForwardKeepsNews
<1>4. QueueInv'
  BY <1>1, <1>3 DEF LineInv, QueueInv
<1>5. BoxesInv'
  BY <1>1, <1>3 DEF LineInv, BoxesInv
<1>6. AbsentInv'
  BY <1>1, <1>2 DEF LineInv, AbsentInv
<1>7. RemovalInv'
  BY <1>1, <1>3 DEF LineInv, RemovalInv
<1>8. Advancer!States' \in StateMsg /\ Len(statesQ') <= Depth
  BY StatesPublished DEF LineInv
<1>9. DepthInv'
  BY <1>1, <1>8 DEF LineInv, DepthInv
<1>10. NewsInv'
  <2>1. positions \in StateMsg /\ \A i \in 1..Len(statesQ) : statesQ[i] \in StateMsg
    BY ElementOfSeq DEF TypeOK
  <2>2. Known(positions) /\ \A i \in 1..Len(statesQ) : Known(statesQ[i])
    BY DEF LineInv, NewsInv
  <2>3. Known(positions)'
    BY <1>1, <1>3, <2>1, <2>2 DEF Known
  <2>4. statesQ \in Seq(StateMsg) /\ Len(statesQ) <= Depth
        /\ statesQ' = Publish(statesQ, Advancer!States', Depth)
    BY DEF TypeOK, LineInv, DepthInv, AdvancerStep
  <2>5. Len(statesQ') \in 1..Depth /\ statesQ'[Len(statesQ')] = Advancer!States'
    BY <1>8, <2>4, PublishElements, Sizes
  <2>6. PICK k \in {0, 1} : \A i \in 1..Len(statesQ') - 1 :
          i + k \in 1..Len(statesQ) /\ statesQ'[i] = statesQ[i + k]
    BY <1>8, <2>4, PublishElements, Sizes
  <2>7. \A b \in DOMAIN Advancer!States' : b \in OnBelt' /\ Advancer!States'[b] <= x'[b]
    <3>1. Advancer!States' = [b \in OnBelt' |-> x'[b]]
      BY DEF Advancer!States, OnBelt
    <3>2. \A b \in OnBelt' : x'[b] \in Int
      <4>1. OnBelt \subseteq Ids
        BY OnBeltFacts DEF LineInv
      <4>2. x' \in [Ids -> Positions]
        BY DEF TypeOK
      <4> QED BY <1>2, <4>1, <4>2, NewPositionsAreInt
    <3> QED BY <3>1, <3>2
  <2>8. ASSUME NEW i \in 1..Len(statesQ')
        PROVE  \A b \in DOMAIN statesQ'[i] : b > Cleared => b \in OnBelt' /\ statesQ'[i][b] <= x'[b]
    <3>1. CASE i = Len(statesQ')
      BY <2>5, <2>7, <3>1
    <3>2. CASE i # Len(statesQ')
      <4>1. i \in 1..Len(statesQ') - 1
        BY <2>5, <3>2
      <4>2. i + k \in 1..Len(statesQ) /\ statesQ'[i] = statesQ[i + k]
        BY <2>6, <4>1
      <4> QED BY <1>3, <2>1, <2>2, <4>2
    <3> QED BY <3>1, <3>2
  <2>9. \A i \in 1..Len(statesQ') : Known(statesQ[i])'
    BY <1>3, <2>8 DEF Known
  <2> QED BY <2>3, <2>9 DEF NewsInv
<1> QED BY <1>1, <1>3, <1>4, <1>5, <1>6, <1>7, <1>9, <1>10 DEF LineInv

LEMMA EnvironmentKeepsLine ==
  ASSUME TypeOK, LineInv,
         SensorReportsRemoval \/ SpuriousRemoval \/ HoldBelt \/ ReleaseBelt \/ ChangeSpeed
  PROVE  LineInv'
<1>1. UNCHANGED <<queue, positions, spawned, spawning, targetsMsg, reported, boxes, x,
                  targetsNew, statesQ>>
  BY DEF SensorReportsRemoval, SpuriousRemoval, HoldBelt, ReleaseBelt, ChangeSpeed, managerVars,
         advancerOnly, linkVars, Advancer!OnHold, Advancer!OnSimSpeed
<1>2. Cleared' = Cleared /\ OnBelt' = OnBelt
  BY <1>1, StillFrame
<1>3. QueueInv'
  BY <1>1, <1>2 DEF LineInv, QueueInv
<1>4. BoxesInv' /\ AbsentInv' /\ Spacing' /\ NewsInv'
  BY <1>1, StillFrame, StillNews, StillBoxes DEF LineInv
<1>5. StartClearInv'
  BY <1>1, <1>2 DEF LineInv, StartClearInv
<1>6. CASE SensorReportsRemoval
  <2>1. reported # NoBox /\ reported \in Ids /\ sensed' = reported
        /\ removedQ' = Publish(removedQ, reported, Depth)
    BY <1>6 DEF SensorReportsRemoval, TypeOK
  <2>2. sensed <= reported /\ reported <= Cleared + 1 /\ reported <= spawned
    BY <2>1 DEF LineInv, ReportInv
  <2>3. sensed \in Nat /\ reported \in Nat
    BY <2>1 DEF TypeOK, Ids
  <2>4. removedQ \in Seq(Ids) /\ Len(removedQ) <= Depth
    BY DEF TypeOK, LineInv, DepthInv
  <2>5. Len(removedQ') \in 1..Depth /\ removedQ'[Len(removedQ')] = reported
    BY <2>1, <2>4, PublishElements, Sizes
  <2>6. PICK k \in {0, 1} : \A i \in 1..Len(removedQ') - 1 :
          i + k \in 1..Len(removedQ) /\ removedQ'[i] = removedQ[i + k]
    BY <2>1, <2>4, PublishElements, Sizes
  <2>7. ASSUME NEW i \in 1..Len(removedQ') PROVE removedQ'[i] <= reported
    <3>1. CASE i = Len(removedQ')
      BY <2>3, <2>5, <3>1
    <3>2. CASE i # Len(removedQ')
      <4>1. i \in 1..Len(removedQ') - 1
        BY <2>5, <3>2
      <4>2. i + k \in 1..Len(removedQ) /\ removedQ'[i] = removedQ[i + k]
        BY <2>6, <4>1
      <4>3. removedQ[i + k] \in Ids
        BY ONLY <2>4, <4>2, ElementOfSeq
      <4>4. removedQ[i + k] \in Int
        BY <4>3 DEF Ids
      <4>5. removedQ[i + k] <= sensed
        BY <4>2 DEF LineInv, RemovalInv
      <4> QED BY ONLY <2>2, <2>3, <4>2, <4>4, <4>5
    <3> QED BY <3>1, <3>2
  <2>8. RemovalInv'
    BY <1>1, <1>2, <2>1, <2>2, <2>7 DEF RemovalInv
  <2>9. DepthInv'
    BY <1>1, <2>5, Sizes DEF LineInv, DepthInv
  <2>10. ReportInv'
    BY <1>1, <1>2, <2>1, <2>3 DEF LineInv, ReportInv
  <2> QED BY <1>2, <1>3, <1>4, <1>5, <2>8, <2>9, <2>10 DEF LineInv
<1>7. CASE SpuriousRemoval
  <2>1. sensed' = sensed
    BY <1>7 DEF SpuriousRemoval
  <2>2. PICK b \in 1..sensed : removedQ' = <<b>>
    BY <1>7 DEF SpuriousRemoval
  <2>3. Len(removedQ') = 1 /\ \A i \in 1..Len(removedQ') : removedQ'[i] <= sensed
    BY <2>2 DEF TypeOK
  <2>4. RemovalInv' /\ DepthInv'
    BY <1>1, <1>2, <2>1, <2>3, Sizes DEF LineInv, RemovalInv, DepthInv
  <2>5. ReportInv'
    BY <1>1, <1>2, <2>1 DEF LineInv, ReportInv
  <2> QED BY <1>2, <1>3, <1>4, <1>5, <2>4, <2>5 DEF LineInv
<1>8. CASE HoldBelt \/ ReleaseBelt \/ ChangeSpeed
  <2>1. UNCHANGED <<sensed, removedQ>>
    BY <1>8 DEF HoldBelt, ReleaseBelt, ChangeSpeed, linkVars
  <2>2. RemovalInv' /\ DepthInv' /\ ReportInv'
    BY <1>1, <1>2, <2>1 DEF LineInv, RemovalInv, DepthInv, ReportInv
  <2> QED BY <1>2, <1>3, <1>4, <1>5, <2>2 DEF LineInv
<1> QED BY <1>6, <1>7, <1>8

LEMMA LineNext == TypeOK /\ LineInv /\ [Next]_vars => TypeOK' /\ LineInv'
<1> SUFFICES ASSUME TypeOK, LineInv, [Next]_vars
             PROVE  TypeOK' /\ LineInv'
  OBVIOUS
<1>1. CASE ManagerTick
  BY <1>1, TickType, TickKeepsLine
<1>2. CASE SpawnSucceeds
  <2>1. spawned < MaxBoxes
    BY <1>2 DEF SpawnSucceeds, LineInv, QueueInv
  <2> QED BY <1>2, <2>1, SpawnType, SpawnKeepsLine
<1>3. CASE SpawnFails
  BY <1>3, SpawnFailsType, SpawnFailsKeepsLine
<1>4. CASE ReceiveRemoved
  BY <1>4, RemovedType, RemovedKeepsLine
<1>5. CASE ReceiveStates
  BY <1>5, StatesType, StatesKeepLine
<1>6. CASE ReceiveTargets
  BY <1>6, TargetsReceivedType, TargetsKeepLine
<1>7. CASE AdvancerStep
  <2>1. BoxesInv /\ DepthInv
    BY DEF LineInv
  <2> QED BY <1>7, <2>1, StepType, StepKeepsLine
<1>8. CASE SensorReportsRemoval \/ SpuriousRemoval \/ HoldBelt \/ ReleaseBelt \/ ChangeSpeed
  <2>1. ReportInv /\ DepthInv
    BY DEF LineInv
  <2> QED BY <1>8, <2>1, EnvironmentType, EnvironmentKeepsLine
<1>9. CASE UNCHANGED vars
  <2>1. UNCHANGED <<queue, positions, spawned, spawning, targetsMsg, reported, boxes, x, held,
                    speed, targetsNew, statesQ, removedQ, sensed, failures, holds>>
    BY <1>9 DEF vars, managerVars, advancerOnly, linkVars
  <2>2. TypeOK'
    BY <2>1 DEF TypeOK
  <2>3. Cleared' = Cleared /\ OnBelt' = OnBelt
    BY <2>1, StillFrame
  <2>4. QueueInv' /\ StartClearInv'
    BY <2>1, <2>3 DEF LineInv, QueueInv, StartClearInv
  <2>5. BoxesInv' /\ AbsentInv' /\ Spacing' /\ NewsInv'
    BY <2>1, StillFrame, StillNews, StillBoxes DEF LineInv
  <2>6. ReportInv' /\ RemovalInv' /\ DepthInv'
    BY <2>1, <2>3 DEF LineInv, ReportInv, RemovalInv, DepthInv
  <2> QED BY <2>2, <2>4, <2>5, <2>6 DEF LineInv
<1> QED BY <1>1, <1>2, <1>3, <1>4, <1>5, <1>6, <1>7, <1>8, <1>9 DEF Next

LEMMA LineAlways == Spec => [](TypeOK /\ LineInv)
<1>1. Init => TypeOK /\ LineInv
  BY LineInit
<1> QED BY <1>1, LineNext, PTL DEF Spec

-----------------------------------------------------------------------------
(* The theorems.                                                           *)

\* Manager and advancer keep one line of boxes, whatever crosses on the way:
\* the latched targets are the queue, the advancer's list is what it was last
\* told of it, it lacks no queued box but perhaps the newest, what it still has
\* besides are the boxes removed in front, and neither list exceeds num_boxes.
THEOREM SameLineAlways == Spec => []SameLine
<1>1. TypeOK /\ LineInv => SameLine
  BY LineImplies
<1> QED BY <1>1, LineAlways, PTL

\* Boxes never come closer than a pitch (up to the tolerance) and never run
\* past their slots, although the manager spawns on old positions and the
\* advancer may learn of several new boxes at once.
THEOREM SpacingAlways == Spec => []Spacing
<1>1. TypeOK /\ LineInv => Spacing
  BY LineImplies
<1> QED BY <1>1, LineAlways, PTL

\* What conveyor/box_at_pick names is at the pick point or was taken off the
\* belt, however old the states are the manager heard.
THEOREM ReportIsTrue == Spec => []ReportedIsAtPick
<1>1. TypeOK /\ LineInv => ReportedIsAtPick
  BY LineImplies
<1> QED BY <1>1, LineAlways, PTL

\* No step takes a box back that stays on the belt, and none moves one on a
\* held belt.
THEOREM ForwardOnly == Spec => OnlyForward
<1> DEFINE Forward == \A b \in Advancer!IdsIn(boxes) \cap Advancer!IdsIn(boxes') :
                        IF held THEN x'[b] = x[b] ELSE x'[b] >= x[b]
<1>1. TypeOK /\ LineInv /\ [Next]_vars => [Forward]_vars
  <2> SUFFICES ASSUME TypeOK, LineInv, Next PROVE Forward
    OBVIOUS
  <2>1. Advancer!IdsIn(boxes) = OnBelt /\ Advancer!IdsIn(boxes') = OnBelt'
    BY DEF OnBelt, Advancer!IdsIn
  <2>2. OnBelt \subseteq Ids /\ \A b \in Ids : x[b] \in Int
    BY OnBeltFacts, PositionsAreInt DEF LineInv
  <2>3. CASE x' = x
    BY <2>1, <2>2, <2>3
  <2>4. CASE ReceiveTargets
    <3>1. \A b \in Ids : b \in OnBelt' /\ b \in OnBelt => x'[b] = x[b]
      BY <2>4, TargetsEffect
    <3> QED BY <2>1, <2>2, <3>1
  <2>5. CASE AdvancerStep
    <3>1. \A b \in Ids : x[b] <= x'[b]
      BY <2>5, StepEffect
    <3>2. held => x' = x
      BY <2>5, StepEffect
    <3>3. \A b \in Ids : x'[b] \in Int
      <4>1. x' \in [Ids -> Positions]
        BY <2>5, StatesPublished DEF LineInv
      <4> QED BY <4>1, Lengths DEF Positions, StartX
    <3> QED BY <2>1, <2>2, <3>1, <3>2, <3>3
  <2>6. ASSUME ~ReceiveTargets, ~AdvancerStep PROVE x' = x
    BY <2>6 DEF Next, ManagerTick, SpawnSucceeds, SpawnFails, ReceiveRemoved, ReceiveStates,
                SensorReportsRemoval, SpuriousRemoval, HoldBelt, ReleaseBelt, ChangeSpeed,
                advancerOnly, Advancer!OnHold, Advancer!OnSimSpeed
  <2> QED BY <2>3, <2>4, <2>5, <2>6
<1>2. Spec => [][TypeOK /\ LineInv /\ [Next]_vars]_vars
  BY LineAlways, PTL DEF Spec
<1>3. [TypeOK /\ LineInv /\ [Next]_vars]_vars => [Forward]_vars
  BY <1>1
<1> QED BY <1>2, <1>3, PTL DEF OnlyForward

-----------------------------------------------------------------------------
(* The refinement: the line delivers what PickPoint promises.              *)

\* The tolerance of the comparisons (a micrometre) is no longer than a box and
\* its gap, so that the next box is not at the pick point along with the lead.
TolerancePassesNoBox == Eps <= Pitch

AtPick == queue # <<>> /\ x[Cleared + 1] > PickX - Eps
TakenAway == queue # <<>> /\ sensed = Cleared + 1

pickVars == <<Cleared, AtPick, TakenAway>>

LEMMA PickStutters ==
  ASSUME UNCHANGED <<queue, spawned, x, sensed>>
  PROVE  UNCHANGED pickVars
  BY DEF pickVars, Cleared, AtPick, TakenAway

\* The box behind the lead stops short of the pick point, however near.
LEMMA SecondIsNotAtPick ==
  ASSUME TolerancePassesNoBox, TypeOK, LineInv, Cleared + 2 \in Ids, Cleared + 2 <= spawned
  PROVE  x[Cleared + 2] <= PickX - Eps
<1> DEFINE b == Cleared + 2
<1>1. Cleared \in Nat /\ Len(queue) \in Nat /\ Len(queue) = spawned - Cleared /\ spawned \in Nat
  BY QueueTypes, ClearedRange DEF LineInv
<1>2. x[b] \in Int /\ Pitch \in Nat /\ Eps \in Nat /\ PickX \in Nat
  BY PositionsAreInt, Lengths
<1>3. CASE b \in OnBelt
  <2>1. PICK j \in 1..Len(boxes) : boxes[j].id = b
    BY <1>3, OnBeltFacts DEF LineInv
  <2>2. Len(boxes) \in Nat /\ boxes[1].id \in Int /\ boxes[1].id <= Cleared + 1
    <3>1. 1 \in 1..Len(boxes) /\ boxes # <<>>
      BY <2>1, QueueTypes, EmptySeq
    <3> QED BY <3>1, QueueTypes DEF Ids, LineInv, BoxesInv
  <2>3. b = boxes[1].id + (j - 1) /\ boxes[j].x = SlotX(j - 1) /\ x[b] <= boxes[j].x
    BY <2>1 DEF LineInv, BoxesInv, Spacing
  <2>4. j - 1 \in Nat /\ 0 < j - 1
    BY <1>1, <2>1, <2>2, <2>3
  <2>5. SlotX(j - 1) <= PickX - Pitch /\ SlotX(j - 1) \in Int
    BY <2>4, SecondSlot, SlotType
  <2> HIDE DEF b
  <2>6. x[b] <= PickX - Eps
    BY <1>2, <2>3, <2>5 DEF TolerancePassesNoBox
  <2> QED BY <2>6 DEF b
<1>4. CASE b \notin OnBelt
  <2>1. x[b] = 0
    BY <1>4 DEF LineInv, AbsentInv, StartX
  <2>2. 1 < NumBoxes
    BY <1>1, Sizes DEF LineInv, QueueInv
  <2>3. 0 <= SlotX(1) /\ SlotX(1) <= PickX - Pitch /\ SlotX(1) \in Int
    BY <2>2, SlotOnBelt, SecondSlot, SlotType DEF StartX
  <2> QED BY <1>2, <2>1, <2>3 DEF TolerancePassesNoBox
<1> QED BY <1>3, <1>4

LEMMA SpawnRefines ==
  ASSUME TypeOK, LineInv, SpawnSucceeds
  PROVE  Pick!Arrive \/ UNCHANGED pickVars
<1>1. UNCHANGED <<x, sensed>> /\ spawning
  BY DEF SpawnSucceeds, OnSpawned, advancerOnly
<1>2. spawned \in Nat /\ Len(queue) \in Nat /\ Cleared \in 0..spawned /\ spawned < MaxBoxes
  BY <1>1, QueueTypes, ClearedRange DEF LineInv, QueueInv
<1>3. queue' = Append(queue, spawned + 1) /\ spawned' = spawned + 1
  BY <1>2, Sizes DEF SpawnSucceeds, OnSpawned
<1>4. Len(queue') = Len(queue) + 1 /\ queue' # <<>>
  <2>1. spawned + 1 \in Ids
    BY <1>2, Sizes DEF Ids
  <2>2. queue \in Seq(Ids)
    BY DEF TypeOK
  <2> QED BY <1>3, <2>1, <2>2, AppendProperties
<1>5. Cleared' = Cleared
  BY <1>2, <1>3, <1>4 DEF Cleared
<1>6. CASE queue = <<>>
  <2>1. ~AtPick /\ ~TakenAway /\ Cleared = spawned
    BY <1>6, ClearedRange DEF AtPick, TakenAway, LineInv
  <2>2. sensed \in Nat /\ sensed <= spawned
    BY DEF TypeOK, LineInv, RemovalInv
  <2>3. ~TakenAway'
    BY <1>1, <1>2, <1>5, <2>1, <2>2 DEF TakenAway
  <2>4. CASE AtPick'
    BY <1>2, <1>5, <2>1, <2>3, <2>4 DEF Pick!Arrive, AtPick, TakenAway
  <2>5. CASE ~AtPick'
    BY <1>5, <2>1, <2>3, <2>5 DEF pickVars, AtPick, TakenAway
  <2> QED BY <2>4, <2>5
<1>7. CASE queue # <<>>
  BY <1>1, <1>4, <1>5, <1>7 DEF pickVars, AtPick, TakenAway
<1> QED BY <1>6, <1>7

LEMMA RemovedRefines ==
  ASSUME TolerancePassesNoBox, TypeOK, LineInv, ReceiveRemoved
  PROVE  Pick!Clear \/ UNCHANGED pickVars
<1>1. UNCHANGED <<spawned, x, sensed>>
  BY RemovedEffect
<1>2. CASE queue' = queue
  BY <1>1, <1>2, PickStutters
<1>3. CASE queue' # queue
  <2>1. queue # <<>> /\ Head(removedQ) = Cleared + 1 /\ Cleared' = Cleared + 1
        /\ queue' = Tail(queue)
    BY <1>3, RemovedEffect
  <2>2. Cleared \in Nat /\ sensed \in Nat /\ sensed <= Cleared + 1 /\ spawned \in Nat
    BY QueueTypes, ClearedRange DEF LineInv, RemovalInv, TypeOK
  <2>3. Cleared + 1 <= sensed
    <3>1. removedQ # <<>> /\ removedQ \in Seq(Ids)
      BY DEF ReceiveRemoved, TypeOK
    <3> QED BY <2>1, <3>1, DeliverElements DEF LineInv, RemovalInv
  <2>4. TakenAway /\ ~TakenAway'
    BY <1>1, <2>1, <2>2, <2>3 DEF TakenAway
  <2>5. ~AtPick'
    <3> SUFFICES ASSUME queue' # <<>> PROVE ~(x[Cleared + 2] > PickX - Eps)
      <4>1. Cleared' + 1 = Cleared + 2
        BY <2>1, <2>2
      <4> QED BY <1>1, <4>1 DEF AtPick
    <3>1. Len(queue') = Len(queue) - 1 /\ Len(queue) = spawned - Cleared /\ queue' \in Seq(Ids)
      BY <2>1, DeliverType, ClearedRange DEF TypeOK, LineInv
    <3>2. Len(queue') \in Nat \ {0}
      BY <3>1, EmptySeq
    <3>3. Cleared + 2 <= spawned /\ Cleared + 2 \in Ids
      BY <2>2, <3>1, <3>2, Sizes DEF TypeOK, Ids
    <3>4. x[Cleared + 2] <= PickX - Eps /\ x[Cleared + 2] \in Int
      BY <3>3, SecondIsNotAtPick, PositionsAreInt
    <3> QED BY <3>4, Lengths
  <2> QED BY <2>1, <2>4, <2>5 DEF Pick!Clear, AtPick, TakenAway
<1> QED BY <1>2, <1>3

\* Boxes that move forward may bring the lead to the pick point, and a lead
\* that is there stays there.
LEMMA MoveRefines ==
  ASSUME TypeOK, LineInv, TypeOK', UNCHANGED <<queue, spawned, sensed>>,
         queue # <<>> => x[Cleared + 1] <= x'[Cleared + 1]
  PROVE  Pick!Arrive \/ UNCHANGED pickVars
<1>1. Cleared' = Cleared /\ TakenAway' = TakenAway
  BY DEF Cleared, TakenAway
<1>2. CASE queue = <<>>
  BY <1>1, <1>2 DEF pickVars, AtPick
<1>3. CASE queue # <<>>
  <2>0. QueueInv /\ spawned \in 0..MaxBoxes
    BY DEF LineInv, TypeOK
  <2>6. Cleared \in 0..spawned /\ Len(queue) = spawned - Cleared /\ Cleared + 1 \in Ids
        /\ 1 \in 1..Len(queue)
    BY <1>3, <2>0, ClearedRange
  <2>1. Cleared + 1 \in Ids /\ Cleared < spawned /\ spawned \in 0..MaxBoxes /\ Cleared \in Nat
    <3>1. Len(queue) >= 1
      BY <2>6, QueueTypes
    <3> QED BY <2>0, <2>6, <3>1, Sizes
  <2>2. x[Cleared + 1] \in Int /\ x'[Cleared + 1] \in Int
    BY <2>1, Lengths DEF TypeOK, Positions, StartX
  <2>3. AtPick => AtPick'
    BY <1>1, <1>3, <2>2, Lengths DEF AtPick
  <2>4. CASE AtPick' = AtPick
    BY <1>1, <2>4 DEF pickVars
  <2>5. CASE ~AtPick /\ AtPick'
    <3>1. Cleared < MaxBoxes
      BY <2>1, Sizes
    <3> QED BY <1>1, <2>5, <3>1 DEF Pick!Arrive, AtPick, TakenAway
  <2> QED BY <2>3, <2>4, <2>5 DEF AtPick
<1> QED BY <1>2, <1>3

LEMMA SensorRefines ==
  ASSUME TypeOK, LineInv, SensorReportsRemoval
  PROVE  Pick!Take \/ UNCHANGED pickVars
<1>1. /\ UNCHANGED <<queue, spawned, x>>
      /\ reported # NoBox /\ reported # sensed /\ sensed' = reported
  BY DEF SensorReportsRemoval, managerVars, advancerOnly
<1>2. Cleared' = Cleared /\ AtPick' = AtPick
  BY <1>1 DEF Cleared, AtPick
<1>3. /\ sensed <= reported /\ reported <= Cleared + 1 /\ reported <= spawned
      /\ reported \in OnBelt => x[reported] > PickX - Eps
      /\ reported \notin OnBelt => reported <= Cleared
  BY <1>1 DEF LineInv, ReportInv
<1>4. /\ sensed \in Nat /\ reported \in Nat /\ Cleared \in Nat /\ spawned \in Nat
      /\ queue = <<>> => Cleared = spawned
  BY <1>1, QueueTypes, ClearedRange DEF TypeOK, LineInv, Ids
<1>5. ~TakenAway
  BY <1>1, <1>3, <1>4 DEF TakenAway
<1>6. CASE reported = Cleared + 1
  <2>1. queue # <<>>
    BY <1>3, <1>4, <1>6
  <2>2. reported \in OnBelt
    BY <1>3, <1>4, <1>6
  <2>3. AtPick
    BY <1>3, <1>6, <2>1, <2>2 DEF AtPick
  <2>4. TakenAway'
    BY <1>1, <1>2, <1>6, <2>1 DEF TakenAway
  <2> QED BY <1>2, <1>5, <2>3, <2>4 DEF Pick!Take, AtPick, TakenAway
<1>7. CASE reported # Cleared + 1
  <2>1. ~TakenAway'
    BY <1>1, <1>2, <1>7 DEF TakenAway
  <2> QED BY <1>2, <1>5, <2>1 DEF pickVars, TakenAway
<1> QED BY <1>6, <1>7

LEMMA LineRefines ==
  TolerancePassesNoBox /\ TypeOK /\ TypeOK' /\ LineInv /\ [Next]_vars => [Pick!Next]_pickVars
<1> SUFFICES ASSUME TolerancePassesNoBox, TypeOK, TypeOK', LineInv, [Next]_vars
             PROVE  Pick!Next \/ UNCHANGED pickVars
  OBVIOUS
<1>1. CASE SpawnSucceeds
  BY <1>1, SpawnRefines DEF Pick!Next
<1>2. CASE ReceiveRemoved
  BY <1>2, RemovedRefines DEF Pick!Next
<1>3. CASE ReceiveTargets
  <2>1. UNCHANGED <<queue, spawned, sensed>>
    BY <1>3, TargetsEffect
  <2>2. queue # <<>> => x[Cleared + 1] <= x'[Cleared + 1]
    <3> SUFFICES ASSUME queue # <<>> PROVE x[Cleared + 1] <= x'[Cleared + 1]
      OBVIOUS
    <3>1. Cleared + 1 \in Ids /\ Cleared < spawned /\ spawned \in Nat /\ Cleared \in Nat
      BY QueueTypes, ClearedRange DEF LineInv
    <3>2. Cleared + 1 \in OnBelt'
      BY <1>3, <3>1, TargetsEffect
    <3>3. x'[Cleared + 1] = IF Cleared + 1 \in OnBelt THEN x[Cleared + 1] ELSE StartX
      BY <1>3, <3>1, <3>2, TargetsEffect
    <3>4. Cleared + 1 \notin OnBelt => x[Cleared + 1] = StartX
      BY <3>1 DEF LineInv, AbsentInv
    <3>5. x[Cleared + 1] \in Int
      BY <3>1, PositionsAreInt
    <3> QED BY <3>3, <3>4, <3>5
  <2> QED BY <2>1, <2>2, MoveRefines DEF Pick!Next
<1>4. CASE AdvancerStep
  <2>1. UNCHANGED <<queue, spawned, sensed>> /\ \A b \in Ids : x[b] <= x'[b]
    BY <1>4, StepEffect
  <2>2. queue # <<>> => Cleared + 1 \in Ids
    BY ClearedRange DEF LineInv
  <2> QED BY <2>1, <2>2, MoveRefines DEF Pick!Next
<1>5. CASE SensorReportsRemoval
  BY <1>5, SensorRefines DEF Pick!Next
<1>6. CASE ManagerTick \/ ReceiveStates \/ UNCHANGED vars
  <2>1. UNCHANGED <<queue, spawned, x, sensed>>
    BY <1>6 DEF ManagerTick, Tick, ReceiveStates, OnStates, vars, managerVars, advancerOnly,
                linkVars
  <2> QED BY <2>1, PickStutters
<1>7. CASE SpawnFails \/ SpuriousRemoval \/ HoldBelt \/ ReleaseBelt \/ ChangeSpeed
  <2>1. UNCHANGED <<queue, spawned, x, sensed>>
    BY <1>7 DEF SpawnFails, OnSpawned, SpuriousRemoval, HoldBelt, ReleaseBelt, ChangeSpeed,
                managerVars, advancerOnly, linkVars, Advancer!OnHold, Advancer!OnSimSpeed
  <2> QED BY <2>1, PickStutters
<1> QED BY <1>1, <1>2, <1>3, <1>4, <1>5, <1>6, <1>7 DEF Next

\* Manager and advancer implement the contract of the pick point, for every
\* belt whose boxes are longer than the tolerance: a box comes only when the
\* one before was taken and cleared, and stays until it is taken.
THEOREM BeltRefinesPickPoint == TolerancePassesNoBox /\ Spec => PickSpec
<1>1. Init => Pick!Init
  <2> SUFFICES ASSUME Init PROVE Pick!Init
    OBVIOUS
  <2>1. queue = <<>> /\ spawned \in {0} /\ Len(queue) \in {0}
    BY EmptySeq DEF Init, ManagerInit
  <2>2. Cleared = 0
    BY ONLY <2>1 DEF Cleared
  <2> QED BY <2>1, <2>2 DEF Pick!Init
<1>2. TolerancePassesNoBox /\ TypeOK /\ TypeOK' /\ LineInv /\ [Next]_vars => [Pick!Next]_pickVars
  BY LineRefines
<1> SUFFICES ASSUME TolerancePassesNoBox PROVE Spec => PickSpec
  OBVIOUS
<1> QED BY <1>1, <1>2, LineAlways, PTL DEF Spec, PickSpec, Pick!Spec, pickVars, AtPick, TakenAway
=============================================================================
