--------------------------- MODULE ProximitySensor ---------------------------
(***************************************************************************)
(* proximity_sensor (src/src/conveyor_sim/src/proximity_sensor.cpp): a     *)
(* virtual photo-eye that asks move_group where the box reported at the    *)
(* pick point is and reports its removal.  Single-threaded; every callback *)
(* is one atomic step, but a scene request is answered asynchronously.     *)
(*                                                                         *)
(* Abstracted: an answer says "near" (a world object within clear_dist of  *)
(* the pick point) or "away" (anything else); distances are left out.      *)
(***************************************************************************)
EXTENDS Topics

CONSTANTS
  NoBox,      \* the empty id
  NoRequest,  \* no scene request is pending
  Debounce,   \* debounce_cycles
  Depth

VARIABLES
  watched,      \* watched_
  lastRemoved,  \* last_removed_
  seen,         \* seen_at_pick_
  clearCount,   \* clear_count_
  request,      \* the pending scene request with its answer, or NoRequest
  removedQ      \* conveyor/box_removed, as queued at conveyor_manager

sensorVars == <<watched, lastRemoved, seen, clearCount, request, removedQ>>

SensorInit ==
  /\ watched = NoBox
  /\ lastRemoved = NoBox
  /\ seen = FALSE
  /\ clearCount = 0
  /\ request = NoRequest
  /\ removedQ = <<>>

\* A new process with fresh members; what it has published is still under way.
Restart ==
  /\ watched' = NoBox
  /\ lastRemoved' = NoBox
  /\ seen' = FALSE
  /\ clearCount' = 0
  /\ request' = NoRequest
  /\ UNCHANGED removedQ

\* Mutations of OnAtPick: what was seen of the last box is kept for the next;
\* a box that is watched already starts over.
OnAtPickKeepsSeen(id) ==
  /\ IF id \in {NoBox, watched, lastRemoved}
     THEN UNCHANGED <<watched, clearCount>>
     ELSE watched' = id /\ clearCount' = 0
  /\ UNCHANGED <<seen, lastRemoved, request, removedQ>>
OnAtPickStartsOver(id) ==
  /\ IF id \in {NoBox, lastRemoved}
     THEN UNCHANGED <<watched, seen, clearCount>>
     ELSE watched' = id /\ seen' = FALSE /\ clearCount' = 0
  /\ UNCHANGED <<lastRemoved, request, removedQ>>

\* conveyor/box_at_pick: a new id is watched from scratch.
OnAtPick(id) ==
  /\ IF id \in {NoBox, watched, lastRemoved}
     THEN UNCHANGED <<watched, seen, clearCount>>
     ELSE /\ watched' = id
          /\ seen' = FALSE
          /\ clearCount' = 0
  /\ UNCHANGED <<lastRemoved, request, removedQ>>

\* The timer, with /get_planning_scene up: one request at a time.
CheckScene ==
  /\ watched # NoBox
  /\ request = NoRequest
  /\ request' = [id |-> watched, answer |-> "none"]
  /\ UNCHANGED <<watched, lastRemoved, seen, clearCount, removedQ>>

\* Mutation of ClearReadings: a reading that shows the box does not start over.
ClearReadingsInTotal(near) == clearCount + (IF near THEN 0 ELSE 1)

\* Clear readings in a row, this one included.
ClearReadings(near) == IF near THEN 0 ELSE clearCount + 1

IsClear(readings) == readings >= Debounce

ReportRemoved ==
  /\ removedQ' = Publish(removedQ, watched, Depth)
  /\ lastRemoved' = watched
  /\ watched' = NoBox
  /\ clearCount' = 0

\* onScene() with the answer of a request for box id.
OnScene(id, near) ==
  \/ /\ id # watched
     /\ UNCHANGED <<watched, lastRemoved, seen, clearCount, removedQ>>
  \/ /\ id = watched
     /\ ~seen
     /\ seen' = near
     /\ UNCHANGED <<watched, lastRemoved, clearCount, removedQ>>
  \/ /\ id = watched
     /\ seen
     /\ IF IsClear(ClearReadings(near))
        THEN ReportRemoved
        ELSE /\ clearCount' = ClearReadings(near)
             /\ UNCHANGED <<removedQ, lastRemoved, watched>>
     /\ UNCHANGED seen

\* The answer is here.
ReceiveScene ==
  /\ request # NoRequest
  /\ request.answer # "none"
  /\ request' = NoRequest
  /\ OnScene(request.id, request.answer = "near")
=============================================================================
