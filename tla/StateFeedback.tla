---------------------------- MODULE StateFeedback ----------------------------
(***************************************************************************)
(* The state feedback of fr_command_server (src/src/                       *)
(* fairino_hardware_v3_9_5/src/command_server.cpp): the constructor        *)
(* connects the SDK, then two timers publish nonrt_state_data, one with    *)
(* what the SDK knows of the arm, one when the controller does not answer  *)
(* a ping.  Nothing in the repository that is started subscribes to it;    *)
(* the subscriber below is any program that goes by the last message.      *)
(*                                                                         *)
(* Both timers are in the node's default callback group: they exclude each *)
(* other, also while the ping is waited for.  Abstracted: the state of the *)
(* controller is the pose of the arm, and Blank the zeros of an empty      *)
(* message.  The SDK (external) holds the last state it received and finds *)
(* out about a broken connection, and mends it, in its own time.           *)
(***************************************************************************)
EXTENDS Naturals, Topics

CONSTANTS
  Blank,         \* the pose of a message that was not filled in
  ConnectRetry,  \* _connect_retry_SDK
  Depth          \* of the subscription; the publisher keeps one sample

VARIABLES
  server,     \* the process: "connecting", "idle", "pinging" or "exited"
  tries,      \* connect_count
  sdkPose,    \* the last state the SDK received
  sdkUp,      \* the SDK takes its connection for good
  stateQ,     \* nonrt_state_data, as queued at a subscriber
  heard       \* the last message the subscriber took, its pose and reconnect_flag

feedbackVars == <<server, tries, sdkPose, sdkUp, stateQ, heard>>

FeedbackInit(arm) ==
  /\ server = "connecting"
  /\ tries = 0
  /\ sdkPose = arm
  /\ sdkUp = FALSE
  /\ stateQ = <<>>
  /\ heard = [pose |-> arm, flag |-> 0]

-----------------------------------------------------------------------------
\* The loop around RPC() in the constructor.
Connect(up, arm) ==
  /\ server = "connecting"
  /\ IF up
     THEN /\ server' = "idle"
          /\ sdkUp' = TRUE
          /\ sdkPose' = arm
          /\ UNCHANGED tries
     ELSE /\ tries' = tries + 1
          /\ server' = IF tries + 1 = ConnectRetry THEN "exited" ELSE server
          /\ UNCHANGED <<sdkUp, sdkPose>>
  /\ UNCHANGED <<stateQ, heard>>

\* _state_publisher->publish()
Send(pose, isDown) ==
  stateQ' = Publish(stateQ, [pose |-> pose, flag |-> isDown], Depth)

\* Mutation of StateTimer: an empty message goes out without the flag.
StateTimerUnflagged ==
  /\ server = "idle"
  /\ IF sdkUp THEN Send(sdkPose, 0) ELSE Send(Blank, 0)
  /\ UNCHANGED <<server, tries, sdkPose, sdkUp, heard>>

\* _state_recv_callback()
StateTimer ==
  /\ server = "idle"
  /\ IF sdkUp THEN Send(sdkPose, 0) ELSE Send(Blank, 1)
  /\ UNCHANGED <<server, tries, sdkPose, sdkUp, heard>>

\* _ping_recv_callback() waits for ping; nothing else of the node runs.
PingTimer ==
  /\ server = "idle"
  /\ server' = "pinging"
  /\ UNCHANGED <<tries, sdkPose, sdkUp, stateQ, heard>>

\* The rest of _ping_recv_callback(); sdkUp is what GetSDKComState() says then.
PingAnswered(answered) ==
  /\ server = "pinging"
  /\ server' = "idle"
  /\ IF answered /\ sdkUp THEN UNCHANGED stateQ ELSE Send(Blank, 1)
  /\ UNCHANGED <<tries, sdkPose, sdkUp, heard>>

\* A subscriber takes the next message (external).
Hear ==
  /\ stateQ # <<>>
  /\ heard' = Head(stateQ)
  /\ stateQ' = Tail(stateQ)
  /\ UNCHANGED <<server, tries, sdkPose, sdkUp>>

-----------------------------------------------------------------------------
(* The SDK (external), with reconnection switched on.                      *)

SdkReceives(arm) ==
  /\ server \in {"idle", "pinging"}
  /\ ~sdkUp \/ sdkPose # arm
  /\ sdkUp' = TRUE
  /\ sdkPose' = arm
  /\ UNCHANGED <<server, tries, stateQ, heard>>

SdkNotices ==
  /\ sdkUp
  /\ sdkUp' = FALSE
  /\ UNCHANGED <<server, tries, sdkPose, stateQ, heard>>
=============================================================================
