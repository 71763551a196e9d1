-------------------------- MODULE HardwareInterface --------------------------
(***************************************************************************)
(* FairinoHardwareInterface (src/src/fairino_hardware_v3_9_5/src/          *)
(* fairino_hardware_interface.cpp): the ros2_control plugin that streams   *)
(* joint positions to the arm.  Its methods are called by the controller   *)
(* manager (external) from one thread, in cycles of read(), the update of  *)
(* the controllers and write().                                            *)
(*                                                                         *)
(* Abstracted: the six joints are one pose, a number in Poses; 0 is the    *)
(* pose "all joints 0".  Which commands are not finite is a set: "checked" *)
(* stands for one of the joints write() looks at, "last" for the sixth.    *)
(* Units and the torque mode, which nothing selects, are left out.         *)
(***************************************************************************)
EXTENDS Integers

CONSTANTS Poses

VARIABLES
  life,         \* lifecycle state of the component, as the manager keeps it
  robot,        \* _ptr_robot points to an SDK instance
  state,        \* _jnt_position_state
  command,      \* _jnt_position_command
  notFinite,    \* which commands are not finite
  phase,        \* what the manager's cycle does next
  arm,          \* the pose of the arm
  readFailed,   \* history: the read() of this cycle failed
  servoFailed   \* history: the last ServoJ was refused, or its command was not finite

HardwareInit ==
  /\ life = "unconfigured"
  /\ robot = FALSE
  /\ state = 0
  /\ command = 0
  /\ notFinite = {}
  /\ phase = "read"
  /\ readFailed = FALSE
  /\ servoFailed = FALSE

-----------------------------------------------------------------------------
\* Mutation of Activate: the command is not brought to where the arm is.
ActivateUnsynced(rpcOk, poseOk) ==
  /\ life \in {"unconfigured", "inactive"}
  /\ phase = "read"
  /\ robot' = TRUE
  /\ state' = 0
  /\ command' = 0
  /\ notFinite' = {}
  /\ life' = IF rpcOk /\ poseOk THEN "active" ELSE "finalized"
  /\ readFailed' = FALSE
  /\ servoFailed' = FALSE
  /\ UNCHANGED <<phase, arm>>

\* on_activate(): a new SDK instance, everything zero, then the command follows
\* the arm; without connection or without its pose the component fails.
Activate(rpcOk, poseOk) ==
  /\ life \in {"unconfigured", "inactive"}
  /\ phase = "read"
  /\ robot' = TRUE
  /\ state' = 0
  /\ notFinite' = {}
  /\ command' = IF rpcOk /\ poseOk THEN arm ELSE 0
  /\ life' = IF rpcOk /\ poseOk THEN "active" ELSE "finalized"
  /\ readFailed' = FALSE
  /\ servoFailed' = FALSE
  /\ UNCHANGED <<phase, arm>>

\* on_deactivate(): the instance is let go, the component stays inactive.
Deactivate ==
  /\ life = "active"
  /\ phase = "read"
  /\ life' = "inactive"
  /\ robot' = FALSE
  /\ UNCHANGED <<state, command, notFinite, phase, arm, readFailed, servoFailed>>

\* The manager reads and writes active and inactive components alike.
Cycling == life \in {"inactive", "active"}

\* read(), and write() after it, use _ptr_robot without a look at it.
NullCall ==
  /\ Cycling
  /\ ~robot
  /\ phase = "read"
  /\ life' = "crashed"
  /\ UNCHANGED <<robot, state, command, notFinite, phase, arm, readFailed, servoFailed>>

\* read(): an error leaves the old positions and is not reported (line 173).
Read(ok) ==
  /\ Cycling
  /\ robot
  /\ phase = "read"
  /\ state' = IF ok THEN arm ELSE state
  /\ readFailed' = ~ok
  /\ phase' = "update"
  /\ UNCHANGED <<life, robot, command, notFinite, arm, servoFailed>>

\* The check of write(): the range of any_of ends before the sixth joint.
Finite == "checked" \notin notFinite

\* write(): a refused ServoJ is logged, an infinite command ends the component.
Write(accepted) ==
  /\ Cycling
  /\ robot
  /\ phase = "write"
  /\ \/ /\ ~Finite
        /\ life' = "finalized"
        /\ UNCHANGED <<arm, servoFailed>>
     \/ /\ Finite
        /\ \/ ~accepted /\ UNCHANGED arm
           \/ accepted /\ notFinite = {} /\ arm' = command
           \/ accepted /\ notFinite # {} /\ arm' \in Poses  \* what the SDK makes of it
        /\ servoFailed' = (~accepted \/ notFinite # {})
        /\ UNCHANGED life
  /\ phase' = "read"
  /\ UNCHANGED <<robot, state, command, notFinite, readFailed>>

-----------------------------------------------------------------------------
(* The controllers (external): the next sample is at most Step away from   *)
(* the last one, or from the reported state when a trajectory starts.      *)

Near(a, b, step) == a - b <= step /\ b - a <= step

Update(step) ==
  /\ Cycling
  /\ phase = "update"
  /\ phase' = "write"
  /\ IF life = "active"
     THEN /\ command' \in {c \in Poses : Near(c, command, step) \/ Near(c, state, step)}
          /\ notFinite' \in {{}, {"checked"}, {"last"}}
     ELSE UNCHANGED <<command, notFinite>>
  /\ UNCHANGED <<life, robot, state, arm, readFailed, servoFailed>>
=============================================================================
