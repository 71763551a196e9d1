---------------------------- MODULE PalletPlanner ----------------------------
(***************************************************************************)
(* pallet_planner (src/src/palletizer/src/pallet_planner.cpp): decides     *)
(* where each box goes, one pending target at a time.  The node is spun by *)
(* a single-threaded executor, so every callback below is one atomic step. *)
(* Handlers take the incoming message as a parameter; PalletCell connects  *)
(* them to the topics.                                                     *)
(*                                                                         *)
(* Abstracted: poses, footprints, quaternions and log output.  A pick pose *)
(* is the same point for every box, so only its freshness matters.         *)
(***************************************************************************)
EXTENDS Integers, FiniteSets, Topics

CONSTANTS
  Boxes,            \* box ids that can be reported at the pick point
  NoBox,            \* the empty id ""
  NoTarget,         \* pending_ without a value
  Rows, Cols, Layers,
  Depth,            \* history depth of the topics (10 in the code)
  MaxPalletSends,   \* how often the pallet object is sent (3 in the code)
  FramesAgree       \* conveyor frame_id equals the planner's frame_id

ASSUME GridAssumption ==
  /\ Rows \in Nat \ {0}
  /\ Cols \in Nat \ {0}
  /\ Layers \in Nat \ {0}

ASSUME PlannerAssumption ==
  /\ NoBox \notin Boxes
  /\ NoTarget \notin [box : Boxes, slot : Nat]
  /\ Depth \in Nat \ {0}
  /\ MaxPalletSends \in Nat
  /\ FramesAgree \in BOOLEAN

VARIABLES
  nextSlot,      \* next_slot_
  pending,       \* pending_
  atPickId,      \* at_pick_id_
  lastPlacedId,  \* last_placed_id_
  failedIds,     \* failed_ids_
  poseFresh,     \* now - pose_time_ <= pose_timeout_
  palletSends,   \* pallet_sends_
  status,        \* last sample of the latched topic pallet/status
  targetQ        \* pallet/target, as queued at the executor

plannerVars == <<nextSlot, pending, atPickId, lastPlacedId, failedIds,
                 poseFresh, palletSends, status, targetQ>>

PerLayer == Rows * Cols
Capacity == PerLayer * Layers

\* Mutation of CellOf: rows counted for columns.
CellOfSwapped(slot) ==
  [layer |-> slot \div PerLayer,
   row   |-> (slot % PerLayer) \div Cols,
   col   |-> (slot % PerLayer) % Rows]

\* The grid cell of a slot: row by row, then layer by layer.
CellOf(slot) ==
  [layer |-> slot \div PerLayer,
   row   |-> (slot % PerLayer) \div Cols,
   col   |-> (slot % PerLayer) % Cols]

Target == [box : Boxes, slot : 0..Capacity - 1]

PalletStatus == [placed : 0..Capacity, layer : 0..Layers - 1, full : BOOLEAN,
                 box : Boxes \cup {NoBox}]

StatusOf(slot, target) ==
  [placed |-> slot,
   layer  |-> IF slot \div PerLayer < Layers - 1 THEN slot \div PerLayer ELSE Layers - 1,
   full   |-> slot >= Capacity,
   box    |-> IF target = NoTarget THEN NoBox ELSE target.box]

PlannerInit ==
  /\ nextSlot = 0
  /\ pending = NoTarget
  /\ atPickId = NoBox
  /\ lastPlacedId = NoBox
  /\ failedIds = {}
  /\ poseFresh = FALSE
  /\ palletSends = 0
  /\ status = StatusOf(0, NoTarget)
  /\ targetQ = <<>>

-----------------------------------------------------------------------------
\* Mutation of Assignable: a failed box is tried again.
AssignableAfterFailure(target) ==
  /\ target = NoTarget
  /\ atPickId' \notin {NoBox, lastPlacedId'}
  /\ nextSlot' < Capacity
  /\ poseFresh'
  /\ FramesAgree

\* The early returns of tryAssign(), on the values the calling handler left.
Assignable(target) ==
  /\ target = NoTarget
  /\ atPickId' # NoBox
  /\ atPickId' # lastPlacedId'
  /\ atPickId' \notin failedIds'
  /\ nextSlot' < Capacity
  /\ poseFresh'
  /\ FramesAgree

\* tryAssign(): every handler that calls it does so last.  `target' is
\* pending_ at the time of the call, `shown' the latched status by then.
TryAssign(target, shown) ==
  IF Assignable(target)
  THEN /\ pending' = [box |-> atPickId', slot |-> nextSlot']
       /\ targetQ' = Publish(targetQ, pending', Depth)
       /\ status' = StatusOf(nextSlot', pending')
  ELSE /\ pending' = target
       /\ status' = shown
       /\ UNCHANGED targetQ

\* conveyor/box_at_pick
OnAtPick(id) ==
  /\ atPickId' = id
  /\ UNCHANGED <<nextSlot, lastPlacedId, failedIds, poseFresh, palletSends>>
  /\ TryAssign(pending, status)

\* conveyor/box_pick_pose
OnPickPose ==
  /\ poseFresh' = TRUE
  /\ UNCHANGED <<nextSlot, atPickId, lastPlacedId, failedIds, palletSends>>
  /\ TryAssign(pending, status)

\* The steady clock runs past pose_time_ + pose_timeout_.
PoseExpires ==
  /\ poseFresh
  /\ poseFresh' = FALSE
  /\ UNCHANGED <<nextSlot, pending, atPickId, lastPlacedId, failedIds,
                 palletSends, status, targetQ>>

IsPending(r) == IF pending = NoTarget THEN FALSE ELSE r.box = pending.box

\* Mutation of Credit: a failed cycle uses up its slot, too.
CreditAlways(r) ==
  /\ nextSlot' = nextSlot + 1
  /\ lastPlacedId' = IF r.success THEN r.box ELSE lastPlacedId
  /\ failedIds' = IF r.success THEN failedIds ELSE failedIds \cup {r.box}

\* Only success uses up the slot; a box that failed is remembered.
Credit(r) ==
  IF r.success
  THEN /\ lastPlacedId' = r.box
       /\ nextSlot' = nextSlot + 1
       /\ UNCHANGED failedIds
  ELSE /\ failedIds' = failedIds \cup {r.box}
       /\ UNCHANGED <<lastPlacedId, nextSlot>>

\* pallet/place_result; a result for another box than the pending one is ignored.
OnResult(r) ==
  /\ UNCHANGED <<atPickId, poseFresh, palletSends>>
  /\ \/ /\ IsPending(r)
        /\ Credit(r)
        /\ TryAssign(NoTarget, StatusOf(nextSlot', NoTarget))
     \/ /\ ~IsPending(r)
        /\ UNCHANGED <<nextSlot, pending, lastPlacedId, failedIds, status, targetQ>>

\* ~/reset: start a new pallet.
Reset ==
  /\ nextSlot' = 0
  /\ pending' = NoTarget
  /\ failedIds' = {}
  /\ lastPlacedId' = NoBox
  /\ status' = StatusOf(0, NoTarget)
  /\ UNCHANGED <<atPickId, poseFresh, palletSends, targetQ>>

\* Mutations of Tick: the pallet object is sent forever; targets are sent once.
TickUnbounded(sceneUp) ==
  /\ targetQ' = IF pending # NoTarget THEN Publish(targetQ, pending, Depth) ELSE targetQ
  /\ palletSends' = IF sceneUp THEN palletSends + 1 ELSE palletSends
  /\ UNCHANGED <<nextSlot, pending, atPickId, lastPlacedId, failedIds, poseFresh, status>>
TickSilent(sceneUp) ==
  /\ palletSends' = IF sceneUp /\ palletSends < MaxPalletSends
                    THEN palletSends + 1 ELSE palletSends
  /\ UNCHANGED <<nextSlot, pending, atPickId, lastPlacedId, failedIds, poseFresh,
                 status, targetQ>>

\* The 1 s timer: re-send the pending target, and the pallet object while
\* move_group listens (sceneUp), a few times.
Tick(sceneUp) ==
  /\ targetQ' = IF pending # NoTarget THEN Publish(targetQ, pending, Depth) ELSE targetQ
  /\ palletSends' = IF sceneUp /\ palletSends < MaxPalletSends
                    THEN palletSends + 1 ELSE palletSends
  /\ UNCHANGED <<nextSlot, pending, atPickId, lastPlacedId, failedIds, poseFresh, status>>

-----------------------------------------------------------------------------
(* What the planner keeps true whatever it is fed.                         *)

PlannerTypeOK ==
  /\ nextSlot \in 0..Capacity
  /\ pending \in Target \cup {NoTarget}
  /\ atPickId \in Boxes \cup {NoBox}
  /\ lastPlacedId \in Boxes \cup {NoBox}
  /\ failedIds \subseteq Boxes
  /\ poseFresh \in BOOLEAN
  /\ palletSends \in 0..MaxPalletSends
  /\ status \in PalletStatus
  /\ targetQ \in Seq(Target)
  /\ Len(targetQ) <= Depth
=============================================================================
