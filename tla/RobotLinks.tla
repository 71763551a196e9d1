------------------------------ MODULE RobotLinks ------------------------------
(***************************************************************************)
(* The programs that talk to the robot controller, each over a connection  *)
(* of its own: the ros2_control plugin (HardwareInterface, "servo"), the   *)
(* state feedback of the command server (StateFeedback, "feedback"), its   *)
(* UDP receiver with the shared memory (SharedState, "shared"), the        *)
(* listener of port 8083 (StatusListener, "status") and the reader that    *)
(* feeds the digital twin (TwinReader, "twin").  They run in different     *)
(* processes or nodes and share nothing but the controller: so a behaviour *)
(* follows one of them, chosen by `link', through everything the arm and   *)
(* the network may do, and the others stand still.                         *)
(*                                                                         *)
(* Budget bounds how often the arm is moved by others, the network goes    *)
(* down, a datagram or a ping is lost, a process is killed, and a reader   *)
(* looks into the shared memory (frames come every 5 ms, readers rarely).  *)
(***************************************************************************)
EXTENDS Integers, SequencesExt

CONSTANTS
  Poses, MaxStep,
  Blank, ConnectRetry, Depth,
  NoSem, NoOne, InboxSize,
  DataLen, Payloads, Cuts,
  NoData, WireSize, MaxBacklog,
  Links,   \* the connections to follow
  Budget

ASSUME LinksAssumption ==
  /\ Poses \subseteq Nat
  /\ 0 \in Poses
  /\ MaxStep \in Nat
  /\ Blank \notin Poses
  /\ {NoSem, NoOne, NoData} \cap Nat = {}
  /\ {ConnectRetry, Depth, MaxBacklog} \subseteq Nat \ {0}
  /\ {InboxSize, WireSize, DataLen} \subseteq Nat
  /\ Payloads \in Seq(Seq(Nat))
  /\ \A k \in DOMAIN Payloads : Len(Payloads[k]) = DataLen
  /\ Cuts \subseteq 0 .. DataLen + 4
  /\ Links \subseteq {"servo", "feedback", "shared", "status", "twin"}
  /\ Budget \in [Links -> [{"move", "outage", "loss", "kill", "look"} -> Nat]]

VARIABLES
  link, arm, network, budget,
  life, robot, state, command, notFinite, phase, readFailed, servoFailed,
  server, tries, sdkPose, sdkUp, stateQ, heard,
  thread, socket, inbox, frame, sem, shm, reader, snapshot,
  streamsTo, configured, handshakeLost, orphaned,
  run, running, sock, buf, stop, stream, peerGone, first, aligned, sent, published,
  twin, wire, rest, latest, shown

Servo == INSTANCE HardwareInterface
Feedback == INSTANCE StateFeedback
Shared == INSTANCE SharedState
Status == INSTANCE StatusListener
Twin == INSTANCE TwinReader

servoVars == <<life, robot, state, command, notFinite, phase, readFailed, servoFailed>>
feedbackVars == <<server, tries, sdkPose, sdkUp, stateQ, heard>>
sharedVars == <<thread, socket, inbox, frame, sem, shm, reader, snapshot,
                streamsTo, configured, handshakeLost, orphaned>>
statusVars == <<run, running, sock, buf, stop, stream, peerGone, first, aligned, sent, published>>
twinVars == <<twin, wire, rest, latest, shown>>
controllerVars == <<link, arm, network, budget>>
vars == <<controllerVars, servoVars, feedbackVars, sharedVars, statusVars, twinVars>>

Init ==
  /\ link \in Links
  /\ arm \in Poses
  /\ link # "servo" => arm = 0
  /\ network \in BOOLEAN
  /\ link \notin {"feedback", "twin"} => network
  /\ budget = Budget[link]
  /\ Servo!HardwareInit
  /\ Feedback!FeedbackInit(arm)
  /\ Shared!SharedInit
  /\ link # "shared" => ~configured
  /\ Status!ListenerInit
  /\ Twin!TwinInit

Spend(what) ==
  /\ budget[what] > 0
  /\ budget' = [budget EXCEPT ![what] = @ - 1]
  /\ UNCHANGED link

Free == UNCHANGED <<link, budget>>

-----------------------------------------------------------------------------
(* The controller and the network.                                         *)

\* By hand or by another program, not while ros2_control streams positions.
MoveArm ==
  /\ link \in {"feedback", "shared", "twin"}
  /\ arm' \in Poses \ {arm}
  /\ Spend("move")
  /\ UNCHANGED <<network, servoVars, feedbackVars, sharedVars, statusVars, twinVars>>

\* The controller can be reached and accepts connections, or it does not.
NetworkFails ==
  /\ link \in {"feedback", "twin"}
  /\ network
  /\ Spend("outage")
  /\ network' = FALSE
  /\ UNCHANGED <<arm, servoVars, feedbackVars, sharedVars, statusVars, twinVars>>

NetworkReturns ==
  /\ link \in {"feedback", "twin"}
  /\ ~network
  /\ network' = TRUE
  /\ Free
  /\ UNCHANGED <<arm, servoVars, feedbackVars, sharedVars, statusVars, twinVars>>

-----------------------------------------------------------------------------
(* ros2_control.                                                           *)

ServoStep ==
  /\ link = "servo"
  /\ \/ \E rpcOk, poseOk \in BOOLEAN : Servo!Activate(rpcOk, poseOk)
     \/ Servo!Deactivate
     \/ Servo!NullCall
     \/ \E ok \in BOOLEAN : Servo!Read(ok)
     \/ Servo!Update(MaxStep)
     \/ \E accepted \in BOOLEAN : Servo!Write(accepted)
  /\ Free
  /\ UNCHANGED <<network, feedbackVars, sharedVars, statusVars, twinVars>>

-----------------------------------------------------------------------------
(* fr_command_server and a subscriber of its state.                        *)

FeedbackOnly ==
  /\ link = "feedback"
  /\ UNCHANGED <<arm, network, servoVars, sharedVars, statusVars, twinVars>>

ConnectServer  == Feedback!Connect(network, arm) /\ Free /\ FeedbackOnly
StateTimer     == Feedback!StateTimer /\ Free /\ FeedbackOnly
PingTimer      == Feedback!PingTimer /\ Free /\ FeedbackOnly
PingAnswered   == Feedback!PingAnswered(network) /\ Free /\ FeedbackOnly
PingLost       == Feedback!PingAnswered(FALSE) /\ Spend("loss") /\ FeedbackOnly
Hear           == Feedback!Hear /\ Free /\ FeedbackOnly
SdkReceives    == network /\ Feedback!SdkReceives(arm) /\ Free /\ FeedbackOnly
SdkNotices     == ~network /\ Feedback!SdkNotices /\ Free /\ FeedbackOnly

FeedbackStep ==
  \/ ConnectServer \/ StateTimer \/ PingTimer \/ PingAnswered \/ PingLost \/ Hear
  \/ SdkReceives \/ SdkNotices

-----------------------------------------------------------------------------
(* CNDE_recv_thread and a reader of the shared memory.                     *)

SharedOnly ==
  /\ link = "shared"
  /\ UNCHANGED <<arm, network, servoVars, feedbackVars, statusVars, twinVars>>

\* The requests of the constructor; one may be lost.
Handshake ==
  /\ \E arrives \in BOOLEAN :
       /\ IF arrives THEN Free ELSE Spend("loss")
       /\ \/ Shared!SendStop(arrives)
          \/ Shared!SendConfig(arrives)
          \/ Shared!SendStart(arrives)
  /\ SharedOnly

OpenShared == Shared!OpenShared /\ Free /\ SharedOnly
Receive    == Shared!Receive /\ Free /\ SharedOnly
Copy       == Shared!Copy /\ Free /\ SharedOnly
PostWriter == Shared!PostWriter /\ Free /\ SharedOnly
StartWriter == Shared!StartWriter /\ Free /\ SharedOnly
SendFrame  == Shared!SendFrame(arm) /\ Free /\ SharedOnly
WaitReader == Shared!WaitReader /\ Spend("look") /\ SharedOnly
ReadHalf   == Shared!ReadHalf /\ Free /\ SharedOnly
PostReader == Shared!PostReader /\ Free /\ SharedOnly
Kill       == (Shared!KillWriter \/ Shared!KillReader) /\ Spend("kill") /\ SharedOnly

WriterStep ==
  Handshake \/ OpenShared \/ Receive \/ Copy \/ PostWriter \/ StartWriter

SharedStep ==
  WriterStep \/ SendFrame \/ WaitReader \/ ReadHalf \/ PostReader \/ Kill

-----------------------------------------------------------------------------
(* fairino_8083_status_publisher.                                          *)

StatusOnly ==
  /\ link = "status"
  /\ Free
  /\ UNCHANGED <<arm, network, servoVars, feedbackVars, sharedVars, twinVars>>

ListenerThread == Status!ThreadStep /\ StatusOnly
StopListener   == Status!StopStep /\ StatusOnly
PushFrame      == Status!PushFrame /\ StatusOnly
PeerCloses     == Status!PeerCloses /\ StatusOnly

StatusStep == ListenerThread \/ StopListener \/ PushFrame \/ PeerCloses

-----------------------------------------------------------------------------
(* rt_state_data.                                                          *)

TwinOnly ==
  /\ link = "twin"
  /\ UNCHANGED <<arm, network, servoVars, feedbackVars, sharedVars, statusVars>>

TwinConnects  == Twin!ConnectSocket(network) /\ Free /\ TwinOnly
ParseFrame    == Twin!ParseFrame /\ Free /\ TwinOnly
PublishLatest == Twin!PublishLatest /\ Free /\ TwinOnly
PushState     == network /\ Twin!PushState(arm) /\ Free /\ TwinOnly

\* An outage may show as an error; the controller may also close a connection.
TwinError ==
  /\ Twin!SocketError(network)
  /\ IF network THEN Spend("outage") ELSE Free
  /\ TwinOnly

SilentCut     == Twin!SilentCut /\ Spend("loss") /\ TwinOnly

TwinStep ==
  TwinConnects \/ TwinError \/ ParseFrame \/ PublishLatest \/ PushState \/ SilentCut

-----------------------------------------------------------------------------
Next ==
  \/ MoveArm \/ NetworkFails \/ NetworkReturns
  \/ ServoStep \/ FeedbackStep \/ SharedStep \/ StatusStep \/ TwinStep

Spec == Init /\ [][Next]_vars

\* Timers fire, threads are scheduled, the SDK notices what happens to its
\* connection, the controller streams, and a killed server is started again.
\* SF: a due state timer is served before the ping timer, which is created
\* after it, so the two take turns although a ping may keep both waiting.
\* Nothing says that the network comes back, that an attempt to connect ever
\* succeeds (one made without the network changes nothing), or that anybody
\* calls stop().
\* A behaviour follows one link: fairness to a disjunction of actions of
\* different links, or of different states of one thread, is fairness to each.
ThreadSteps ==
  \/ ConnectServer \/ PingAnswered
  \/ WriterStep
  \/ ListenerThread
  \/ TwinConnects

Fairness ==
  /\ WF_vars(ThreadSteps)
  /\ SF_vars(StateTimer)
  /\ WF_vars(PingTimer \/ ReadHalf \/ PostReader \/ ParseFrame)
  /\ WF_vars(Hear \/ SendFrame \/ PublishLatest)
  /\ WF_vars(SdkReceives \/ PushState)
  /\ WF_vars(SdkNotices)

FairSpec == Spec /\ Fairness

-----------------------------------------------------------------------------
(* Properties.                                                             *)

TypeOK ==
  /\ arm \in Poses
  /\ life \in {"unconfigured", "inactive", "active", "finalized", "crashed"}
  /\ {state, command} \subseteq Poses
  /\ notFinite \subseteq {"checked", "last"}
  /\ phase \in {"read", "update", "write"}
  /\ server \in {"connecting", "idle", "pinging", "exited"}
  /\ tries \in 0..ConnectRetry
  /\ sdkPose \in Poses
  /\ stateQ \in Seq([pose : Poses \cup {Blank}, flag : {0, 1}])
  /\ heard \in [pose : Poses \cup {Blank}, flag : {0, 1}]
  /\ sem \in {NoSem, 0, 1}
  /\ frame \in Poses
  /\ shm \in Poses \X Poses
  /\ snapshot \in Poses \X Poses
  /\ Len(inbox) <= InboxSize
  /\ sock \in {"none", "open", "closed"}
  /\ sent \in 0..Len(Payloads)
  /\ Len(wire) <= WireSize
  /\ Len(rest) <= MaxBacklog
  /\ {latest, shown} \subseteq Poses \cup {NoData}

\* The arm is never sent further than a controller's step away from where it
\* is ("a wrong first command causes an accident",
\* fairino_hardware_interface.cpp:131-134): read(), the controllers and write()
\* see to it together, from the first cycle after on_activate() on, unless
\* read() or write() swallowed an error of the SDK (lines 173, 197) or the
\* sixth joint's command is not finite (line 185).
ArmNotJerked ==
  [][link = "servo" /\ arm' # arm =>
       \/ Servo!Near(arm', arm, MaxStep)
       \/ readFailed \/ servoFailed
       \/ notFinite = {"last"}]_vars

\* What a subscriber of nonrt_state_data hears ends up telling the state of the
\* link, although two timers publish it and samples wait or are dropped: a
\* network that stays away raises the reconnect flag for good, and one that
\* stays there ends it and shows where the arm is, unless the constructor gave
\* up and ended the process (_state_recv_callback, _ping_recv_callback).
FeedbackTellsTheLink ==
  /\ (link = "feedback" /\ <>[]~network) =>
       <>[](heard.flag = 1) \/ <>(server = "exited")
  /\ (link = "feedback" /\ <>[]network) =>
       <>[](heard = [pose |-> arm, flag |-> 0]) \/ <>(server = "exited")

\* The shared memory ends up with where the arm is, although the writer drops
\* a frame whenever a reader has the semaphore and may be killed in the middle
\* of a copy, unless a process died with the semaphore or a request of the
\* handshake was lost, which nobody repairs.
ShmFollows ==
  (link = "shared" /\ <>[](~orphaned /\ ~handshakeLost)) => <>[](shm = <<arm, arm>>)

\* Once the robot rests and its controller accepts connections for good, the
\* twin shows where it is, through broken connections and failed attempts and
\* although the reader takes only one frame per recv() and keeps what came with
\* it: unless the other end of the connection vanished without a word, for
\* which nobody looks (rt_state_data.py:67).
TwinFollows ==
  (link = "twin" /\ <>[]network) => <>(twin = "cut") \/ <>[](shown = arm)

WholeSnapshots == Shared!WholeSnapshots
InStep == Status!InStep
QuietWhenDestroyed == Status!QuietWhenDestroyed
StopEnds == Status!StopEnds
=============================================================================
