--------------------------- MODULE PalletExecutor ---------------------------
(***************************************************************************)
(* palletizer_node (src/src/palletizer/src/palletizer_node.cpp): executes  *)
(* the targets the planner sends.  Two threads share next_, busy_id_ and   *)
(* done_id_ under mtx_: the spinner, which runs the target callback        *)
(* (OnTarget), and run(), whose control flow is the program counter pc.    *)
(* Each action of run() reaches from one point where the other thread, the *)
(* planner or the belt can interfere to the next.                          *)
(*                                                                         *)
(* The arm and MoveIt are external: a motion succeeds or fails, attaching  *)
(* takes the named box from wherever the scene has it, detaching leaves it *)
(* at the place pose.  where[b] is that physical position.                 *)
(***************************************************************************)
EXTENDS Integers, Topics

CONSTANTS Boxes, NoBox, NoTarget, Depth

VARIABLES
  pc,       \* where run() stands, or "down" when the process is not running
  next,     \* next_
  busyId,   \* busy_id_
  doneId,   \* done_id_
  current,  \* the local t of run()
  ok,       \* the local ok of run()
  hold,     \* last sample of the latched topic conveyor/hold
  resultQ,  \* pallet/place_result, as queued at the planner
  where     \* position of every box: Upstream, AtPick, InGripper, Unloaded or a slot

Unloaded  == -4
Upstream  == -3
AtPick    == -2
InGripper == -1

Carrying == {"carry", "retreat", "release"}
InCycle  == {"held"} \cup Carrying

ExecutorInit ==
  /\ pc = "down"
  /\ next = NoTarget
  /\ busyId = NoBox
  /\ doneId = NoBox
  /\ current = NoTarget
  /\ ok = FALSE
  /\ hold = FALSE
  /\ resultQ = <<>>
  /\ where = [b \in Boxes |-> Upstream]

-----------------------------------------------------------------------------
\* Mutation of OnTarget: the box handled last is not remembered.
OnTargetForgetful(t) ==
  /\ pc # "down"
  /\ next' = IF t.box = busyId THEN next ELSE t
  /\ UNCHANGED <<pc, busyId, doneId, current, ok, hold, resultQ, where>>

\* The target callback: a re-sent target of the box being handled, or of the
\* last one handled, is dropped.
OnTarget(t) ==
  /\ pc # "down"
  /\ next' = IF t.box = busyId \/ t.box = doneId THEN next ELSE t
  /\ UNCHANGED <<pc, busyId, doneId, current, ok, hold, resultQ, where>>

\* A new process: the members are fresh, the subscription exists.
Start ==
  /\ pc = "down"
  /\ pc' = "start"
  /\ next' = NoTarget
  /\ busyId' = NoBox
  /\ doneId' = NoBox
  /\ current' = NoTarget
  /\ ok' = FALSE
  /\ UNCHANGED <<hold, resultQ, where>>

\* run() begins by releasing the belt.
ReleaseAtStart ==
  /\ pc = "start"
  /\ pc' = "waiting"
  /\ hold' = FALSE
  /\ UNCHANGED <<next, busyId, doneId, current, ok, resultQ, where>>

\* waitForTarget(), under the lock.
TakeTarget ==
  /\ pc = "waiting"
  /\ next # NoTarget
  /\ pc' = "taken"
  /\ current' = next
  /\ busyId' = next.box
  /\ next' = NoTarget
  /\ UNCHANGED <<doneId, ok, hold, resultQ, where>>

\* setHold(true)
HoldBelt ==
  /\ pc = "taken"
  /\ pc' = "held"
  /\ hold' = TRUE
  /\ UNCHANGED <<next, busyId, doneId, current, ok, resultQ, where>>

\* pre-grasp and descent reached the box: attachObject()
Grasp ==
  /\ pc = "held"
  /\ pc' = "carry"
  /\ where' = [where EXCEPT ![current.box] = InGripper]
  /\ UNCHANGED <<next, busyId, doneId, current, ok, hold, resultQ>>

\* lift, pre-place and descent succeeded: detachObject() leaves the box there
PutDown ==
  /\ pc = "carry"
  /\ pc' = "retreat"
  /\ where' = [where EXCEPT ![current.box] = current.slot]
  /\ UNCHANGED <<next, busyId, doneId, current, ok, hold, resultQ>>

\* the retreat succeeded, so pickAndPlace() returns true
Retreat ==
  /\ pc = "retreat"
  /\ pc' = "release"
  /\ ok' = TRUE
  /\ UNCHANGED <<next, busyId, doneId, current, hold, resultQ, where>>

\* Mutation of MotionFails: the belt is released after a failed cycle, too.
MotionFailsReleasing ==
  /\ pc \in {"held", "carry", "retreat"}
  /\ pc' = "release"
  /\ ok' = FALSE
  /\ UNCHANGED <<next, busyId, doneId, current, hold, resultQ, where>>

\* Planning or execution of some segment failed: pickAndPlace() returns false
\* from the segment it was in; the box stays where that segment left it and
\* the belt stays held.
MotionFails ==
  /\ pc \in {"held", "carry", "retreat"}
  /\ pc' = "publish"
  /\ ok' = FALSE
  /\ UNCHANGED <<next, busyId, doneId, current, hold, resultQ, where>>

\* setHold(false), only on success
ReleaseBelt ==
  /\ pc = "release"
  /\ pc' = "publish"
  /\ hold' = FALSE
  /\ UNCHANGED <<next, busyId, doneId, current, ok, resultQ, where>>

PublishResult ==
  /\ pc = "publish"
  /\ pc' = "settle"
  /\ resultQ' = Publish(resultQ, [box |-> current.box, slot |-> current.slot, success |-> ok], Depth)
  /\ UNCHANGED <<next, busyId, doneId, current, ok, hold, where>>

\* Mutation of Settle: run() goes on after a failed cycle.
SettleAndGoOn ==
  /\ pc = "settle"
  /\ pc' = "waiting"
  /\ busyId' = NoBox
  /\ doneId' = current.box
  /\ UNCHANGED <<next, current, ok, hold, resultQ, where>>

\* busy_id_ and done_id_ change hands under the lock, after the result is out.
\* A failed cycle ends run() and the process.
Settle ==
  /\ pc = "settle"
  /\ pc' = IF ok THEN "waiting" ELSE "halted"
  /\ busyId' = NoBox
  /\ doneId' = current.box
  /\ UNCHANGED <<next, current, ok, hold, resultQ, where>>

\* The process is killed in the middle of whatever it does.
Crash ==
  /\ pc \notin {"down", "halted"}
  /\ pc' = "down"
  /\ UNCHANGED <<next, busyId, doneId, current, ok, hold, where>>

\* The operator clears a process that stopped after a failed cycle.
Exit ==
  /\ pc = "halted"
  /\ pc' = "down"
  /\ UNCHANGED <<next, busyId, doneId, current, ok, hold, resultQ, where>>

\* run(), as long as every motion succeeds.
RunStep ==
  \/ ReleaseAtStart \/ TakeTarget \/ HoldBelt \/ Grasp \/ PutDown
  \/ Retreat \/ ReleaseBelt \/ PublishResult \/ Settle

-----------------------------------------------------------------------------
ExecutorTypeOK(Targets, Slots) ==
  /\ pc \in {"down", "start", "waiting", "taken", "held", "carry", "retreat",
             "release", "publish", "settle", "halted"}
  /\ next \in Targets \cup {NoTarget}
  /\ busyId \in Boxes \cup {NoBox}
  /\ doneId \in Boxes \cup {NoBox}
  /\ current \in Targets \cup {NoTarget}
  /\ ok \in BOOLEAN
  /\ hold \in BOOLEAN
  /\ resultQ \in Seq([box : Boxes, slot : Slots, success : BOOLEAN])
  /\ Len(resultQ) <= Depth
  /\ where \in [Boxes -> {Unloaded, Upstream, AtPick, InGripper} \cup Slots]
=============================================================================
