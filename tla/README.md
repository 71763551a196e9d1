# A TLA+ model of fairino-universe

This directory holds a verification development for the ROS 2 packages of this
repository: TLA+ modules that model the programs, TLC configurations that check
them on small instances, and proofs checked by TLAPS.

## 1. The system

Two groups of programs carry the logic of the repository.

**The palletizing demo** (`conveyor_sim`, `palletizer`, and the messages in
`conveyor_interfaces` and `palletizer_msgs`): seven ROS 2 nodes that simulate a
conveyor belt in MoveIt's planning scene and let the arm put its boxes on a pallet.

**The robot drivers** (`fairino_hardware_v3_9_5`, `fairino_universe/scripts`): the
command server, the ros2_control hardware interface, the receivers of the
controller's state streams, and relays between planning scenes.

### 1.1 Components

| component | state | operations | what makes it correct |
|---|---|---|---|
| `conveyor_manager` | queue of boxes, last known positions, spawn in progress | timer (spawn, publish lead box), spawn response, `box_removed`, `box_states` | order and capacity of the belt; a box is spawned on a clear belt start only; what is reported at the pick point is there |
| `box_advancer` | boxes with targets and positions, hold, speed | `box_targets`, `hold`, `sim_speed`, timer | spacing; no box passes its slot; no box moves back; a held belt stands |
| `box_spawner` | number of the next box | `spawn_box` (blocks on `scene_gateway`, 6 s) | a number is used up by a confirmed box only |
| `scene_gateway` | boxes known to be in the scene, color, boxes to repaint | `add_object` and the belt timer (block on move_group, 5 s), `box_states`, `box_color`, `box_removed` | a MOVE never overtakes its ADD; no color change is lost; no box jumps back |
| `proximity_sensor` | watched box, seen flag, clear readings, pending request | `box_at_pick`, timer, answer of `/get_planning_scene` | only a box that the arm took is reported, once; each one is |
| `pallet_planner` | next slot, pending target, lead box, last placed and failed boxes | `box_at_pick`, `box_pick_pose`, `place_result`, timer, `~/reset` | one box per cell, no hole in the pattern, one target at a time |
| `palletizer_node` | next target, busy and last box, the cycle | `target` callback (spinner thread), `run()` (main thread) | no box grabbed twice; belt held while the arm is out; result for every cycle |
| `fairino_hardware` command server | joint and Cartesian point stores, function table, state snapshot | remote commands, state and ping callbacks | a command is dispatched with the arguments it named; points are stored and read back |
| hardware interface | SDK instance, joint states and commands, lifecycle | `on_activate`, `on_deactivate`, `read`, `write`, called in cycles | the arm is never sent far from where it is |
| state feedback of the command server | connection of the SDK, messages on `nonrt_state_data` | constructor, 10 ms state timer, ping timer | what a subscriber hears tells whether the link is there, and where the arm is when it is |
| CNDE receiver | UDP socket, shared memory, named semaphore | handshake, receive timer, readers | readers see whole states; the memory follows the arm |
| 8083 listener and forwarder | receive buffer, socket, running flag | frame parser, reconnection, `stop()` from another thread | what is published is what was sent; `stop()` ends the thread; silence after destruction |
| `rt_state_data` | socket, receive buffer, latest frame | reader thread, 50 Hz timer | the twin ends up where the arm is |
| planning scene relay, environment loaders | latched scene | republish, one request | - |
| launch files, `rt_state_data_SDK`, `sim_trajectory_pub`, `sim_joint_publisher` (deprecated, its `main()` commented out) | - | - | - |
| `mtc_pick_place`, `moveit_demos`, robot descriptions, MoveIt configurations, vendored SDK | - | - | external or without state |

### 1.2 How they interact

```
 conveyor_manager --spawn_box--> box_spawner --add_object--> scene_gateway --apply_planning_scene--> move_group
   |    ^    ^                                                  ^    |                                 |   ^
 targets|    |box_removed                              box_states|    +-------- /planning_scene --------+   |
   v    |    |                                                  |                                          |
 box_advancer --box_states--------------------------------------+                                          |
   ^         +--- proximity_sensor <--box_at_pick-- conveyor_manager    (asks move_group for the scene) ---+
 hold                                                     | box_at_pick, box_pick_pose
   |                                                      v
 palletizer_node <--------- pallet/target ---------- pallet_planner
        |  ^--- MoveIt                                    ^
        +------------- pallet/place_result ---------------+
```

```
                          robot controller
   ServoJ |     | SDK state, ping | UDP frames   | TCP 8083          | TCP 20004
 hardware interface   command server   CNDE receiver   8083 listener     rt_state_data
   ^ ros2_control      | nonrt_state_data  | shared memory | joint_states    | digital twin
                       v                   v               v                 v
                  subscribers          readers
```

Every arrow of the first picture is a ROS topic or service: a queue with a keep-last
history, or a latched sample. The programs of the second share only the controller. Nodes
are started separately and may die separately.

### 1.3 What is hard

The code is full of retries and re-sends, and their counterparts: flags that
must recognise what was done before. Targets are re-sent every second until the
result arrives; the lead box is announced until its removal was noticed; ADDs
are repeated with the same number after a timeout while move_group may still
execute the first one; scene answers come when the question is stale. The drivers
face streams that begin in the middle of a frame, networks that go and come, a
semaphore that outlives its processes, and threads that are stopped while they
connect. The hazards with their lines are in `PROJECT.json`, with the properties that watch
them.

## 2. Plan

1. The palletizing cell (done): `PalletPlanner`, `PalletExecutor`, their
   composition `PalletCell`, and the abstract `PalletLoading`.
2. The conveyor (done): `ConveyorManager` and `BoxAdvancer` in `BeltLine`;
   `SceneGateway` and `BoxSpawner` in `SceneSync`; `ProximitySensor` in `PickZone`.
3. Proofs of the palletizing demo (done). Of the cell: types, agreement of planner
   and executor, consumption of slots, no second grasp, the belt held around the
   arm, one box per cell, the pattern without holes, and the refinement of
   `PalletLoading`. Of the belt: order and capacity, spacing, honest reports, forward
   only, and the refinement of `PickPoint`. Of the pick point: true removals,
   published once, and the same refinement. Of the planning scene: no MOVE before its
   ADD, confirmed numbers, no jump back, no color lost.
4. The drivers (done): the command server's commands (`CommandTable`,
   `CommandServer`), with the stored points, the places of the parameters and the
   bounds of stray memory proved; the programs at the robot controller
   (`HardwareInterface`, `StateFeedback`, `SharedState`, `StatusListener`,
   `TwinReader`, composed in `RobotLinks`), with all their safety properties proved.
5. The conveyor from end to end: both sides of the pick point implement
   `PickPoint` (`BeltLine` and `PickZone`, checked and proved). Left: the same of the
   belt that `PalletCell` assumes.


## 3. The modules

Conventions. A node's callbacks are actions that take the message as a
parameter (`OnTarget(t)`, `OnHold(on)`); a composing module holds the topics and
connects them. Nodes spun by one thread have atomic callbacks; where the code
blocks in a callback (`scene_gateway`, `box_spawner`) or has a second thread
(`palletizer_node`) the handler is split at the points where others can
interfere. Definitions keep the names of the code (`next_slot_` is `nextSlot`).
A "Mutation of ..." next to a definition is a plausible bug in the same code; it
is not part of any specification.

`Topics`: `Publish(queue, message, depth)`, a keep-last history: a full queue
loses its oldest sample. A latched topic is a variable with the last sample.

**The cell.** `PalletPlanner` is pallet_planner.cpp: every callback that may
assign a target ends in `TryAssign`, as in the code. A pick pose is only fresh or
stale (the pick point is fixed). `PalletExecutor` is palletizer_node.cpp: `pc` is
where `run()` stands, `OnTarget` is the callback of the spinner thread, which may
come between any two steps of `run()`. A motion succeeds (`Grasp`, `PutDown`,
`Retreat`) or fails (`MotionFails`, from any segment); `where` is where each box
physically is. `PalletCell` composes the two and reduces the belt to what they
see of it: a lead box that arrives, is named at the pick point until somebody
has noticed that it is gone (`BoxCleared`), then the next one. The executor may
be killed (`ExecutorCrashes`), stopped by a failed cycle and restarted
(`RestartAfterFailure`), the pallet unloaded (`UnloadAndReset`).
`PalletLoading` is the abstract promise: boxes are taken one at a time, in belt
order, and each goes onto the next place. `PalletCell` implements it with
`stack` = the boxes in the slots in slot order and `gripper` = the box whose
`where` is the gripper.

**The belt.** `ConveyorManager` and `BoxAdvancer` are the two nodes,
`ConveyorGeometry` the parameters both read, `BeltLine` their composition.
Positions are integers; `StartX`, `SlotX` and `Positions` follow from `Pitch` and
`PickX` as in `conveyor_common.hpp`. The targets are latched (`targetsMsg` with
the flag `targetsNew`), the states queued. Environment: spawning succeeds with
the next number or fails, the sensor reports the removal of the reported box, a
removal may be repeated late, the belt is held and released, `sim_speed` changes.

**The scene.** `SceneGateway` and `BoxSpawner` are the two nodes, `SceneSync`
composes them with move_group, which serves the service `/apply_planning_scene`
(`applyQ`) and the topic `/planning_scene` (`sceneQ`) in no common order.
`svc` is what the gateway's blocking callback waits for; `Second` is the clock of
the two timeouts. A request that was given up stays in `applyQ` and is executed
late.

**The pick point.** `ProximitySensor` is the node, `PickZone` puts it between
the manager's lead box, a planning scene that lags behind the belt
(`SceneCatchesUp`), the arm, and readings that miss a box (`SceneIsRead`). The
asynchronous answer carries the box it was asked for; the sensor may restart.

**What the parts promise each other.** `PickPoint` is the contract at the end of the
belt: boxes come one at a time, the arm takes the one that lies there, and only
then is it cleared and the next one comes. `BeltLine` (its manager and advancer)
and `PickZone` (its manager and sensor) each implement it with environment
actions in place of the other programs, so that what one assumes is what the other
does. The belt of `PalletCell` is its `Arrive` and `Clear` (`BoxArrives`,
`BoxCleared`).

**The robot's links.** Five programs keep connections to the controller, in
processes of their own: `HardwareInterface` (ros2_control), `StateFeedback` (two
timers of the command server and the subscriber of their topic), `SharedState`
(CNDE receiver and a reader), `StatusListener` (both threads of the 8083
publisher) and `TwinReader` (`rt_state_data`). `RobotLinks` is their composition
with one arm and one network. They share nothing else, so a behaviour picks one
`link` and follows it; the state graph is the sum of the five, not their product,
and every property says of which link it speaks, or speaks of all.
*Hardware:* a cycle is `Read`, `Update` (the controllers) and `Write`; an SDK call
that fails is a parameter, and what the code does with the error is in the
action. `NullCall` is `read()` through the pointer `on_deactivate()` let go.
*Feedback:* `PingTimer` and `PingAnswered` are the two ends of one callback; the
state timer, in the same callback group, waits. Nothing the repository starts
subscribes to `nonrt_state_data`; `heard` is the last message of any program that does
(external). *Shared memory:* a copy has two
halves, the semaphore and the memory survive `KillWriter`, and the controller
streams to the socket that asked last. *Listener:* every access of a thread to
`_running` and `_sock` is a step, as `destroy_node()` runs in the other thread;
`RecvChunk` cuts the stream anywhere, and the frames hold bytes that look like
headers. *Twin:* one frame per `recv()`, the rest waits in `_buffer`; a connection
may end with an error or without a word (`SilentCut`). `network` says whether the
controller accepts connections: an attempt made while it does not fails and leaves
everything as it was.

**The command server.** `CommandTable` lists what each of the 531 ordinary
handlers of command_server.cpp takes from its argument list before its one SDK
call: numbers, strings, buffers, in order. Its operators follow the file, a group
of neighbouring handlers each, as pairs of a name and the kinds it takes; `Handlers`
is all of them and `Table` the same as a function of the name, the map the server looks
a command up in. `CommandServer` is the service: a handler is one
step (`Handle`), because the service and the timers share a mutually exclusive
callback group and SDK calls are synchronous; the answer leaves in the next
(`Answer`). `Parse` converts a list: a word where a number belongs throws, which
the server answers with -1; a list that ends too early is read beyond its end.
That is undefined: with libstdc++ the null string found there makes either the
constructor of `std::string` throw (answered with -1) or `strtol` crash, and the
end iterator of a motion crashes; `Outcomes` allows a refusal, a call with stray
arguments and the death of the process. Names that go through a char array keep, as in
the code, whatever lay behind them: no handler that copies an element of the list
clears or terminates its array, so any of them may be `Smeared`, and a name longer
than its array (`Overruns`) overwrites the stack, again `"wild"`. Two handlers (`ScriptLoad`,
`GetTrajectoryStartPose`) copy the whole string if it fits, terminate it, and hand on an
unset array otherwise (the kind `Name`). `Define` and `Get` are
`JNTPoint`/`CARTPoint` and `GET`, `Move` the five motions to stored points,
`ForwardToSDK` every other command, with the node parameters the handler puts
around the arguments; `Fixed` are the two constants `MoveGripper` passes in place of
parameters it appended and never reads. What the SDK was made to do is in `call`. After a death the
node is started again with empty stores. `defined` is a history variable: what
clients were told is stored.

## 4. What is checked

| run | instance | shows |
|---|---|---|
| `cell_nominal` | 4 boxes, 1x2x2 pallet, queues of 2, one motion failure | one box per cell, no holes, each box stands on another, one box in the gripper (`SoundLoading`); planner and executor work on the same target; `PalletLoading` is implemented |
| `cell_restart` | 4 boxes, 1x2x2, queues of 1, 2 failures, 2 restarts | no box grabbed twice, belt held around the arm, a slot is consumed only by its own result |
| `cell_recovery` | 4 boxes, 1x2x1, one kill anywhere, one unloading | one box per cell; both pallets get filled and counted (liveness) |
| `cell_retreat` | 2 boxes, one failure | violated: see findings |
| `cell_reset` | 3 boxes, one reset at any time | violated: see findings |
| `belt` | 3 boxes on the belt, 4 in all, slots 2 apart, queues of 2, speeds 0, 2, 4, one failed spawn, one hold | one line of boxes in queue, targets and advancer; spacing and slots; honest reports; forward only and not when held; `PickPoint` is implemented; every box arrives (liveness) |
| `scene` | 2 boxes, timeouts 1 and 2, one refusal, one color change, up to 3 requests at move_group | MOVE after ADD, numbers used once, no color change lost, no box jumps back |
| `commands` | every command with its arguments, one less, one more, one wrong, one name too long; up to 2 points in each store, two point values, indices 0 to 4 | clients and server agree on the points; motions go to the named points; parameters reach their places, but for two that are ignored; stray memory is touched only by short requests, names too long, a `GET` of no point and `GetWeldingBreakOffState`, and by names in unterminated arrays |
| `commands_arc` | arcs between stored points | violated: see findings |
| `commands_documented` | points, and motions as the manual writes them | violated: see findings |
| `zone` | 3 boxes, debounce 3, 2 missed readings, 2 restarts | removals are true and published once; `PickPoint` is implemented; the zone clears (liveness) |
| `links` | 4 poses, steps of 1; 2 attempts to connect, 2 outages, 1 lost ping; 1 lost datagram, 2 kills, 2 looks; 3 frames of 4 data bytes; 2 moves under the twin, 2 outages or errors, 1 silent end | the arm is not jerked; what is heard tells the state of the link; readers see whole states and the memory follows the arm; the listener stays in step, ends on `stop()` and is silent afterwards; the twin follows |

**Why these bounds.** The rules of the cell compare a box with its predecessor
(`last_placed_id_`, `done_id_`) or with the pending one, and slots with the next
one; four boxes on two layers give a first, a last, an inner box and a change of
layer. `Depth` (10 in the code) is 1 or 2, so that queues do overflow. On the
belt three boxes are a lead, an inner and a last one; the fourth shows that
numbers go on after a removal. Lengths on the belt are even multiples of the
tolerance `Eps`: a box that would stop at exactly `Eps` before its slot is an
artefact of the integers. In the scene the second box exists while the first is
repeated, and the timeouts keep the order of the code (5 s < 6 s). Debounce is
the code's default of 3 with up to 2 misses, the most a debounce of 3 tolerates.

In `links`, `Budget` bounds what the environment does to each link. Four poses are
the least with a jump of more than one step between two others and the zeros of a
fresh plugin. Two kills let the writer and the reader each die, or the writer
twice, before, in and after its copy, and a third process find what the first
left; two looks let a reader come back. The first of the three frames of the listener
holds a false header and a false length, the second ends in half a header, and a
connection begins with a frame or behind its header; three frames give a frame
lost to resynchronisation, a connection broken in the middle and one after it.
`InboxSize` (2) and `WireSize` (4: two frames) let frames arrive together, and
`MaxBacklog` (3) a frame and a half wait in `_buffer`, which nothing in the code limits.

Two points in a store give a first and a last one, an overwriting and an
appending definition and an index beyond the end; the arguments of an ordinary
command are the numbers 1, 2, 3, ..., so that exchanged arguments are told apart.

**Fairness.** Weak fairness but for one action: timers fire, queued callbacks run,
threads are scheduled, services that are up answer, the arm takes what is
reported at the pick point. In `links` the SDK notices what happens to its
connection and reconnects, the controller streams, and a killed server is started again;
nothing makes the network return, an attempt to connect succeed, an arm move or
anybody call `stop()`. `StateTimer`
is strongly fair: its timer is due most of the time the ping timer leaves the callback
group, and it comes first there, as it was created first; the ping callback disables it again
and again, but cannot overtake it for ever.
Motion failures, crashes, restarts, resets, spawn failures, holds and
missed readings are never fair; their number is bounded by a constant. A held
belt is released in `belt` (`palletizer_node` releases it after every cycle that
succeeds). The planner's freshness timeout is not fair and the pose is refreshed
by every report.

**Assumptions about the environment**, each a constant or an operator:
`ResetsWhenAsked` (the operator unloads after the "Pallet full" warning, with the
arm at rest; without it `cell_reset` shows what happens), `SensorKeepsUp` (the
removal of a box is processed before the arm puts it down: milliseconds against
seconds), `Blind` (a sensor that never was shown a box cannot see it leave; then
the belt stands), `SceneDepth` (no diff is dropped by a busy move_group). Of the links:
the controllers of ros2_control sample at most `MaxStep` away from the last command, or from the
reported state when a trajectory starts; the controller streams frames of 104
bytes only to a socket whose configuration it took, shorter ones otherwise (a
longer one would be cut by `recvfrom()` and pass); the arm is not moved by others while
ros2_control streams positions, but is found at any pose when it activates; sums of a
frame stay below 2^16.

**What the properties of `links` except**, and why: `ArmNotJerked` a cycle after `read()` or
`write()` swallowed an SDK error (both only drop it) and a sixth joint that is
not finite (the range of the check ends before it); `ShmFollows` a process that died
with the semaphore (`orphaned`) and a lost datagram (`handshakeLost`), which nobody
repairs; `FeedbackTellsTheLink` a constructor that gave up; `TwinFollows` an end of the
connection without a word (the socket has no timeout) and, in its premise, a
controller that does not accept connections for good in the end;
`QuietWhenDestroyed` and `StopEnds` a `stop()` that comes before `run()` has set
`_running`, which is lost. Each of them but the network is a weakness of the
code; each property shows that there is no other.

### Findings

The runs that expect a violation:

- `cell_retreat`: the retreat after detaching may fail. The cycle is reported as
  failed and the planner says "Slot %u stays free", although the box is in it.
- `cell_reset`: a reset during a cycle; the result for the old slot consumes
  slot 0 of the new pallet, because results are matched by box only.
- `commands_arc`: for two joint points `MoveC` reads them into variables of an
  inner block, and sends the untouched outer ones to the controller as joints.
- `commands_documented`: the manual's `MoveL(CART1,10)` (also `MoveC(JNT1,JNT2,10)`
  and `SplinePTP(JNT2,10)`) lacks `tool` and `user`, which the handlers read from
  the end iterator.

Observed on the way, without a run of its own: `box_spawner.cpp:72` says that the 6 s wait
lets the 5 s timeout of `scene_gateway` report first; a request that queues behind
the belt timer's own wait of 5 s makes the spawner give up first (it retries with the
same number, and the properties of `scene` hold). A deactivated hardware interface
crashes in its next `read()` (`NullCall`). `MoveGripper` reads the parameters
`gripper_maxtime` and `gripper_block`, which the yaml file offers as settings, and
passes 30000 and 1 instead (`command_server.cpp:1151`); `ParametersInSlots` says so of
these two. Names are copied into arrays of 30 to 256 bytes without a bound or a
terminator. `sim_joint_publisher`, were it started, would forward the zeros of an error
message as a pose and drop the flag that marks them (`SimJointPublisher.py:39-60`). Diffs
and removals are published once, so a `move_group` that drops one from its queue, or a
manager that starts later, never learns of it.

## 5. What is proved

Every safety invariant and every action property that a passing run checks is
also a theorem, for every value of the constants that satisfies the assumptions
stated in the modules and, where it says so, a named hypothesis about what the
environment does. So are the refinements of `PalletLoading` and of `PickPoint`.
Each proof has the same form: an inductive invariant that TLC found to hold on
the run first, one lemma per action, and a last step in temporal logic.

`TopicTheorems` has the facts all of them need: what keep-last queues hold after
`Publish` and after a delivery, quotient and remainder, and that a nonempty set
of naturals has a least element.

### The cell

`PalletCellProofs` proves

    THEOREM TypeCorrect == Spec => []TypeOK
    THEOREM BeltHeld    == Spec => []HeldWhileArmWorks

for every pallet, number of boxes, queue depth and number of failures, crashes,
restarts and resets. `TypeOK` is not inductive: `next_slot_` stays within the
pallet only because a pending target is always for the next slot, which
`tryAssign()` hands out only below the capacity; and `run()` reads the local `t`
only where `waitForTarget()` has filled it. `TypeInv` adds these two facts and is
proved action by action. `BeltHeld` needs in addition that the release after a
cycle is reached by good cycles only.

Three properties of the handover between planner and executor follow, each for
every constant that satisfies

    Undisturbed == MaxCrashes = 0 /\ MaxResets = 0

(nobody kills the executor and nobody unloads a pallet; motions may fail and the
executor may be restarted after a failed cycle, any number of times):

    THEOREM Agreement     == Undisturbed /\ Spec => []AgreeOnTarget      (PalletCellProofs)
    THEOREM Consumption   == Undisturbed /\ Spec => ConsumedByItsResult  (PalletCellProofs)
    THEOREM NoDoubleGrasp == Undisturbed /\ Spec => []GraspedOnce        (LoadingProofs)

None of these is inductive, because a target may be in the queue, in the
executor's `next_`, in the cycle and (as a result) on its way back, several
times over. `Handover` states where copies can be. During a cycle only copies of
its target are under way (`BusyInv`), so a re-sent target changes nothing.
Between cycles the queue holds copies of the last target before copies of the
pending one (`QueueInv`), the same for `next_` (`NextInv`), and a result
under way is the one of the pending target (`ResultInv`); whatever was finished is in
`lastPlaced` or `failed` of the planner, so it is not assigned again, and is
`done` for the executor, so its old copies are skipped (`StartInv`).
`NoDoubleGrasp` needs the belt as well: reports are queued in belt order
(`OrderInv`), so a newly pending box has not been in the gripper (`PendingInv`),
and only boxes that have been pending are used (`GraspInv`). The assumption is
needed: `cell_reset` shows a reset during a cycle that breaks `Consumption`, and a
killed executor forgets `done_id_`, its only protection against a re-sent target.

The pallet itself needs other invariants. `LoadingProofs` proves, under

    Unattended == Undisturbed /\ MaxRestarts = 0

(the executor waits for its operator after a failed cycle, and here none comes: the loading
ends in whatever state the failure left),

    THEOREM PalletInOrder  == Unattended /\ Spec => []SoundLoading
    THEOREM LoadingRefined == Unattended /\ Spec => LoadingSpec

The first is a safety property: what stands on the pallet at any time is right, nothing is
said to be reached. `PatternInv` relates what stands on the pallet to what the planner has
counted: the filled slots are those below `next_slot_`, one more while the last box put down is
not yet confirmed (`Unconfirmed`), and higher slots hold later boxes. It rests on what
a result says of its cycle (`OutcomeInv`), on the gripper holding the box of the
cycle or nothing (`GripperInv`) and on where a box that was never grabbed can be
(`FreshInv`). That a box stands on another is arithmetic of the grid (`CellBelow`).
For the refinement a grasp maps to `Take`, a put-down to `Put`, and everything else,
failures included, to a stutter. Restarts are excluded because of
what `cell_retreat` shows: after a failed retreat the slot counts as free with a box in
it, and a restarted executor would be sent there again.

When the executor may be killed, a pattern without holes is out of question, but no two
boxes collide:

    Repeatable == MaxFailures = 0 /\ (MaxResets = 0 \/ ResetsWhenAsked)
    THEOREM CellsNotShared == Repeatable /\ Spec => []OneBoxPerCell     (PalletCellProofs)

A killed executor forgets what it did and may repeat a cycle that was credited long ago, so the
invariant is about claims: every target that can still be acted upon (`Live`) and
every box on the pallet claims its slot, no two claims are for the same slot, and
only the pending target claims the next one (`ClaimInv`). A repeated cycle
puts its box into the slot it had.

### The belt

`BeltLineProofs` proves, for every geometry, number of boxes, set of speeds, queue depth
and number of failed spawns and holds,

    THEOREM SameLineAlways == Spec => []SameLine
    THEOREM SpacingAlways  == Spec => []Spacing
    THEOREM ReportIsTrue   == Spec => []ReportedIsAtPick
    THEOREM ForwardOnly    == Spec => OnlyForward
    THEOREM BeltRefinesPickPoint == TolerancePassesNoBox /\ Spec => PickSpec

`SameLine` relates the two nodes: the latched targets are those of the manager's queue,
the advancer has every queued box but perhaps the newest, in the same order and with
the target of its place in the line, may still have boxes already removed, in front, and
has exactly the queue once it was told (`OneLine`). The manager decides on old news:
positions it was told and targets the advancer may not have received. `LineInv` says why
that is sound. Queue and latched targets are one and
the same (`QueueInv`), and the advancer's boxes are the targets of an earlier queue
(`BoxesInv`), so its boxes stop at the slots of that queue or behind; a position told of a
box still queued is behind where the box is (`NewsInv`), so a belt start that
looks clear is clear, and all queued boxes but the newest have left it
(`StartClearInv`); a report names the lead box or one already removed (`ReportInv`,
`RemovalInv`). The refinement needs `TolerancePassesNoBox == Eps <= Pitch`: `kEps`
is 1e-6 m and boxes are decimetres apart; with a tolerance wider than a pitch the box
behind the lead would count as at the pick point with it.

### The command server

`CommandServerProofs` proves, for every set of well-formed requests and every
bound on the stores,

    THEOREM TypeCorrect == Spec => []TypeOK
    THEOREM StoresKnown == Spec => []ClientsKnowTheStore
    THEOREM NamedPoints == Spec => []MovesToNamedPoint
    THEOREM StrayBounded     == Spec => []StrayHasACause
    THEOREM ParametersPlaced == Spec => []ParametersInSlots

While an answer is under way the server is ahead of its clients by the point the
answer announces, so the invariant `KnownInv` compares the stores with `Learn`,
what clients will know after the answer. Every handler but `Store` leaves
the stores alone (`HandleCases`); `Store` adds exactly the point it announces
(`WithPointFacts`). A motion then finds its points where its clients think they
are (`NamedArguments`, `MotionReaches`). These three hold whatever the
ordinary commands take.

The last two are about the table, whose handlers are gone through group by group
(`HandlersRegular`, `TableFacts`): each takes a list of known kinds, and a command with
node parameters takes numbers, as many as its slots need. A handler that finds every place
of its kinds filled (`FullPlaces`) reads nothing beyond its list, and one whose names are
short writes nothing beyond its arrays, so stray memory implies a list that was too short,
a name that was too long, or one of the commands the property names; what follows a name
in an unterminated array is stray at all times, and stays in the places of such names
(`CopiesName`). The parameters stand in their slots when the client gave all the other
arguments, and the constants of `MoveGripper` in the two behind (`SlotsFilled`).

### The robot's links

`RobotLinksProofs` proves, for any poses, steps, frames, budgets and links that satisfy
`LinksAssumption`,

    THEOREM TypeCorrect      == Spec => []TypeOK
    THEOREM NoJerk           == Spec => ArmNotJerked
    THEOREM SnapshotsWhole   == Spec => []WholeSnapshots
    THEOREM Quiet            == Spec => QuietWhenDestroyed
    THEOREM StaysInStep      == FramesTellThemselves /\ Spec => []InStep

each from an inductive invariant of its link. `ServoInv`: while the plugin is active
and the last `write()` succeeded, the command is where the arm is until the controllers
move it, after a good `read()` the state is there too, and so before `write()` the
command is within a step of the arm; an inactive plugin has no SDK instance, so it moves
nothing. `SharedInv`: the semaphore never exceeds one and the writer and the
reader never hold it together; the halves of the memory differ only while the semaphore
is taken and no reader holds it, so after a death in the middle of a copy the
memory stays torn and unread. `ListenerInv`: after
`stop()` has looked at `_sock`, an open socket is one connected since, whose
loop ends at `_running`; so the thread cuts off no frame after the destruction.

`StaysInStep` is about resynchronisation: whatever was cut off the front, `buf` and
`stream` together are the stream of the sent frames without its first `Gone` bytes
(`StreamInv`), and what was published since the connection began are consecutive frames
(`PublishedInv`), up to the `Gone`-th byte (`BetweenFrames`). A header found inside a
frame must not lead to another alignment, so the theorem has the hypothesis that the
frames tell themselves: behind each false header stands a false length or a false
checksum, or every connection begins with a whole frame. The frames of `links`, with their
false header, meet the first alternative. A payload that imitates a whole frame with its
checksum would be published; the code cannot tell. `TypeCorrect` needs a `_buffer` that
can hold at least one frame (`MaxBacklog` above 0).

### The pick point and the planning scene

`PickZoneProofs` proves, for any number of boxes and restarts and any queue depth, under

    Debounced == MaxMisses < Debounce

(the scene fails to show a box that is there fewer times in a row than the sensor
waits for),

    THEOREM Sound       == Debounced /\ Spec => []SoundSensor
    THEOREM PickRefined == Debounced /\ Spec => PickSpec

The invariant says that only the lead box waits at the pick point and only it is shown
there (`PlaceInv`), that a box was seen, or is about to be, only while it was there and
before its removal was published (`SeenInv`), and that while it is there each clear
reading counted is one of the answers in a row that missed it (`CountInv`). So the
count cannot reach `Debounce` before the arm took the box, and a restart, which forgets
what was seen, must see a box again before it can report it. For the refinement every step
maps to Arrive, Take or Clear, or leaves the abstract state alone; `cleared` counts
the boxes that came and that the manager no longer holds as its lead.

`SceneSyncProofs` proves, for any number of boxes, colors, refusals, any timeouts and
any depth of the queues,

    THEOREM TypeCorrect      == Spec => []TypeOK
    THEOREM NeverMovedFirst  == Spec => []MoveAfterAdd
    THEOREM NumbersConfirmed == Spec => []SpawnedIsConfirmed
    THEOREM NeverBack        == SensorKeepsUp /\ Spec => NoJumpBack
    THEOREM ColorsArrive     == Spec /\ []KeepsUp => []ColorNotLost

The argument: whoever waits waits for the last request of its queue, and all requests are
for the next number (`AskInv`), so when move_group's success arrives no older ADD is left
to be executed late (`ReplyInv`) and the box is there when its number is handed out; only
then does it travel (`WorldInv`). From the belt over `conveyor/box_states`, the gateway's
`boxes_in_scene` and `/planning_scene` to the scene the positions of a box only get
older (`OrderInv`), and keep-last queues drop the oldest, so no MOVE goes back.
`SensorKeepsUp` is needed for a box on the pallet, which is an object of the world again
and would follow a MOVE still queued (`PalletInv`).

`ColorInv` says that a known box not marked for repainting will show the color the gateway
has: the last diff under way that paints it does, or the scene does if there is none, and
every ADD of it still to be executed carries that color. `KeepsUp == Len(sceneQ) <
SceneDepth` says that move_group takes the diffs before its queue is full: a full
keep-last queue would drop the oldest diff with its paint, and the gateway publishes a
paint once. In `scene` the queue never fills.

### What is only model-checked

Liveness, which is out of reach of the provers: `PalletFills`, `EveryBoxArrives`,
`ZoneClears`, `FeedbackTellsTheLink`, `ShmFollows`, `TwinFollows` and
`StopEnds`. The refinements of `PickPoint` and `PalletLoading` are of safety
specifications. Each theorem with a hypothesis says nothing where the hypothesis does
not hold; the runs `cell_retreat` and `cell_reset` show what happens there.

## 6. What is not modelled

Poses, quaternions, footprints, trajectories and colors as data; log output;
`palletizer/speed` (scales one trajectory); parameters and launch files. Of the command
server: the text of numbers and answers, the width numbers are cut to (an index of 2^32 +
1 is 1, a byte of 256 is 0), what the SDK returns, the fields of the state message beside
the pose and the flag, what the locals of a getter hold when its SDK call fails (they are
not initialised), how far the SDK reads in the array of `SetAxleLuaGripperFunc`, and its
destructor. Of the CNDE receiver: that the shared memory cannot be opened (it exits) or the
semaphore not (it logs that and goes on without). Of the hardware interface: the torque mode,
which nothing selects. Of the listener: back-off times and the watchdog, which only logs.
Time: how long a lost ping delays `StopMotion` or how far the twin lags is not expressed.
The planning scene relay passes on what it is handed; whether a late subscriber gets a
whole scene or a diff depends on when move_group publishes which, and nothing in the
repository says so. The environment loaders, `rt_state_data_SDK` and `sim_trajectory_pub`
run in a straight line, as do the launch files. `sim_joint_publisher` is marked deprecated
and its `main()` is commented out (`SimJointPublisher.py:12`, 79-80); it is one callback.
`mtc_pick_place` and `moveit_demos` call MoveIt in a straight line and keep no state. The
controller SDK is a vendored binary.
Descriptions and MoveIt configurations are data.
