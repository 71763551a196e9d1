---------------------------- MODULE SceneGateway ----------------------------
(***************************************************************************)
(* scene_gateway (src/src/conveyor_sim/src/scene_gateway.cpp): the only    *)
(* node that writes boxes into MoveIt's planning scene.  A multi-threaded  *)
(* executor runs two groups of callbacks side by side:                     *)
(*   service_group_:   add_object and the timer that adds the belt; either *)
(*                     blocks in publishCollisionObject until move_group   *)
(*                     replies or GatewayTimeout has passed (svc # "idle") *)
(*   state_sub_group:  box_states, box_color and box_removed               *)
(* What they share is guarded by scope_mutex_, so each locked section is   *)
(* one step.                                                               *)
(*                                                                         *)
(* Abstracted: shapes, poses beyond x, the validity checks of add_object   *)
(* (box_spawner only ever sends one ADD), log output.                      *)
(***************************************************************************)
EXTENDS Integers, Topics

CONSTANTS
  Ids,
  NoColor,         \* box_color_ without a value
  StartX,          \* where an ADD puts a box
  Eps,             \* kEps
  GatewayTimeout,  \* how long publishCollisionObject waits (5 s in the code)
  Belt,            \* the id "conveyor_belt"
  SceneDepth       \* history depth of /planning_scene at move_group

VARIABLES
  beltSpawned,   \* belt_spwaned_ (and init_timer_ is cancelled)
  svc,           \* what service_group_ is blocked in: "idle", "belt" or "add"
  waited,        \* seconds waited for move_group
  adding,        \* id of the add_object request in service
  colorAtAdd,    \* color_at_add
  inScene,       \* boxes_in_scene: x by id
  boxColor,      \* box_color_
  colorPending,  \* color_pending_
  applyQ,        \* requests at move_group's /apply_planning_scene
  reply,         \* move_group's answer to the awaited request, or "none"
  sceneQ         \* /planning_scene, as queued at move_group

gatewayVars == <<beltSpawned, svc, waited, adding, colorAtAdd, inScene, boxColor,
                 colorPending, applyQ, reply, sceneQ>>

GatewayInit ==
  /\ beltSpawned = FALSE
  /\ svc = "idle"
  /\ waited = 0
  /\ adding = Belt
  /\ colorAtAdd = NoColor
  /\ inScene = [b \in {} |-> StartX]
  /\ boxColor = NoColor
  /\ colorPending = {}
  /\ applyQ = <<>>
  /\ reply = "none"
  /\ sceneQ = <<>>

\* Send a request to move_group and wait for its reply.
Ask(id, color) ==
  /\ adding' = id
  /\ waited' = 0
  /\ reply' = "none"
  /\ applyQ' = Append(applyQ, [id |-> id, color |-> color, awaited |-> TRUE])

-----------------------------------------------------------------------------
(* service_group_                                                          *)

\* addBelt(): every 500 ms until it worked once.
AddBelt ==
  /\ svc = "idle"
  /\ ~beltSpawned
  /\ svc' = "belt"
  /\ Ask(Belt, NoColor)
  /\ UNCHANGED <<beltSpawned, colorAtAdd, inScene, boxColor, colorPending, sceneQ>>

Accepts(sceneReady) == sceneReady /\ beltSpawned

\* onAddObject() up to the wait: the current color goes into the request.
BeginAdd(id) ==
  /\ svc = "idle"
  /\ svc' = "add"
  /\ colorAtAdd' = boxColor
  /\ Ask(id, boxColor)
  /\ UNCHANGED <<beltSpawned, inScene, boxColor, colorPending, sceneQ>>

\* Mutation of EndWait: a color change during the wait is forgotten.
EndWaitForgetful(confirmed) ==
  /\ svc # "idle"
  /\ svc' = "idle"
  /\ waited' = 0
  /\ reply' = "none"
  /\ beltSpawned' = (beltSpawned \/ (svc = "belt" /\ confirmed))
  /\ inScene' = IF svc = "add" /\ confirmed
                THEN [b \in DOMAIN inScene \cup {adding} |->
                        IF b = adding THEN StartX ELSE inScene[b]]
                ELSE inScene
  /\ UNCHANGED <<adding, colorAtAdd, boxColor, colorPending, sceneQ>>

\* The wait ended with the given outcome; updateObjectPositions() registers a
\* confirmed box, and marks it for a repaint if the color changed meanwhile.
EndWait(confirmed) ==
  /\ svc # "idle"
  /\ svc' = "idle"
  /\ waited' = 0
  /\ reply' = "none"
  /\ beltSpawned' = (beltSpawned \/ (svc = "belt" /\ confirmed))
  /\ IF svc = "add" /\ confirmed
     THEN /\ inScene' = [b \in DOMAIN inScene \cup {adding} |->
                           IF b = adding THEN StartX ELSE inScene[b]]
          /\ colorPending' = IF boxColor # NoColor /\ boxColor # colorAtAdd
                             THEN colorPending \cup {adding} ELSE colorPending
     ELSE UNCHANGED <<inScene, colorPending>>
  /\ UNCHANGED <<adding, colorAtAdd, boxColor, sceneQ>>

\* Mutation of Confirmed: any answer counts as a success.
Answered == reply # "none"

\* What publishCollisionObject returns.
Confirmed == reply = "success"

ReplyArrives ==
  /\ reply # "none"
  /\ EndWait(Confirmed)
  /\ UNCHANGED applyQ

\* remove_pending_request(): a late answer will find nobody.
GatewayTimesOut ==
  /\ reply = "none"
  /\ waited = GatewayTimeout
  /\ EndWait(FALSE)
  /\ applyQ' = [i \in 1..Len(applyQ) |-> [applyQ[i] EXCEPT !.awaited = FALSE]]

-----------------------------------------------------------------------------
(* state_sub_group                                                         *)

Apart(a, b) == IF a < b THEN b - a ELSE a - b

\* conveyor/box_states: boxes that moved and boxes to repaint go into one diff.
OnBoxStates(states) ==
  LET known   == DOMAIN states \cap DOMAIN inScene
      repaint == known \cap colorPending
      moved   == {b \in known : Apart(states[b], inScene[b]) > Eps}
      touched == moved \cup repaint
  IN /\ colorPending' = colorPending \ repaint
     /\ inScene' = [b \in DOMAIN inScene |-> IF b \in touched THEN states[b] ELSE inScene[b]]
     /\ sceneQ' = IF touched = {} THEN sceneQ
                  ELSE Publish(sceneQ,
                         [move  |-> [b \in touched |-> states[b]],
                          paint |-> [b \in {c \in repaint : boxColor # NoColor} |-> boxColor]],
                         SceneDepth)
     /\ UNCHANGED <<beltSpawned, svc, waited, adding, colorAtAdd, boxColor, applyQ, reply>>

\* conveyor/box_color: every known box is repainted with the next states.
OnBoxColor(color) ==
  /\ boxColor' = color
  /\ colorPending' = colorPending \cup DOMAIN inScene
  /\ UNCHANGED <<beltSpawned, svc, waited, adding, colorAtAdd, inScene, applyQ, reply, sceneQ>>

\* conveyor/box_removed: stop moving and painting the box.
OnBoxRemoved(id) ==
  /\ inScene' = [b \in DOMAIN inScene \ {id} |-> inScene[b]]
  /\ colorPending' = colorPending \ {id}
  /\ UNCHANGED <<beltSpawned, svc, waited, adding, colorAtAdd, boxColor, applyQ, reply, sceneQ>>
=============================================================================
