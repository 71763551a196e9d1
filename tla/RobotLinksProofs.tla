--------------------------- MODULE RobotLinksProofs ---------------------------
(***************************************************************************)
(* The safety properties of RobotLinks, proved for every number of poses,  *)
(* frames, kills, losses and readers: the arm is never sent away from      *)
(* where it is, readers of the shared memory see whole states, the         *)
(* listener publishes nothing once its node is destroyed and keeps in step *)
(* with a stream whose frames tell themselves, and every variable keeps    *)
(* its type.  Each needs an invariant of its own over the variables of one *)
(* link; the steps of the other links leave these variables alone.         *)
(***************************************************************************)
EXTENDS RobotLinks, TopicTheorems

\* Where the servo link may be in the manager's cycle: an active component was
\* synchronised, so unless the last ServoJ failed the command is where the arm
\* is until the controllers choose a new one, and a good read() knows the arm.
ServoInv ==
  link = "servo" =>
    /\ arm \in Poses /\ state \in Poses /\ command \in Poses
    /\ notFinite \in {{}, {"checked"}, {"last"}}
    /\ life = "inactive" => ~robot
    /\ life = "inactive" => phase = "read"
    /\ life = "active" /\ phase \in {"read", "update"} /\ ~servoFailed => command = arm
    /\ life = "active" /\ phase = "update" /\ ~readFailed => state = arm
    /\ life = "active" /\ phase = "write" /\ ~servoFailed /\ ~readFailed =>
         Servo!Near(command, arm, MaxStep)

\* At most one of writer and reader holds the semaphore, which is then taken,
\* and whoever does not write finds both halves of the memory equal: a free or
\* never created semaphore, and one a reader holds, guard a whole state.
SharedInv ==
  /\ sem \in {NoSem, 0, 1}
  /\ Shared!WriterHolds => sem = 0 /\ ~Shared!ReaderHolds
  /\ Shared!ReaderHolds => sem = 0
  /\ sem # 0 \/ Shared!ReaderHolds \/ thread = "post" => shm[1] = shm[2]
  /\ thread = "copy rest" => shm[1] = frame
  /\ reader = "read rest" => snapshot[1] = shm[1]
  /\ reader = "post" => snapshot[1] = snapshot[2]

\* Once stop() has closed the socket, or found none, only a connection that was
\* being opened meanwhile is open, and the thread looks at _running before it
\* reads from that.
ListenerInv ==
  /\ run \in {"created", "connect", "dial"} => sock = "none"
  /\ ~running /\ stop \in {"clear", "join", "destroyed"} /\ sock = "open" =>
       run \in {"loop", "ended"}
  /\ ~running /\ stop = "destroyed" => run # "drain"

-----------------------------------------------------------------------------
(* Every step is a step of one link, or of its surroundings.               *)

ServoAlone == UNCHANGED servoVars /\ (link = "servo" => arm' = arm)
SharedAlone == UNCHANGED sharedVars
StatusAlone == UNCHANGED statusVars

LEMMA ServoOrNot ==
  ASSUME [Next]_vars
  PROVE  link' = link /\ (ServoStep \/ ServoAlone)
<1>1. CASE MoveArm \/ NetworkFails \/ NetworkReturns
  BY <1>1 DEF MoveArm, NetworkFails, NetworkReturns, Spend, Free, ServoAlone
<1>2. CASE ServoStep
  BY <1>2 DEF ServoStep, Free
<1>3. CASE FeedbackStep
  BY <1>3 DEF FeedbackStep, ConnectServer, StateTimer, PingTimer, PingAnswered, PingLost,
     Hear, SdkReceives, SdkNotices, FeedbackOnly, Spend, Free, ServoAlone
<1>4. CASE SharedStep
  BY <1>4 DEF SharedStep, WriterStep, Handshake, OpenShared, Receive, Copy, PostWriter,
     StartWriter, SendFrame, WaitReader, ReadHalf, PostReader, Kill, SharedOnly, Spend, Free,
     ServoAlone
<1>5. CASE StatusStep
  BY <1>5 DEF StatusStep, ListenerThread, StopListener, PushFrame, PeerCloses, StatusOnly,
     Free, ServoAlone
<1>6. CASE TwinStep
  BY <1>6 DEF TwinStep, TwinConnects, TwinError, ParseFrame, PublishLatest, PushState,
     SilentCut, TwinOnly, Spend, Free, ServoAlone
<1>7. CASE UNCHANGED vars
  BY <1>7 DEF vars, controllerVars, ServoAlone
<1> QED BY <1>1, <1>2, <1>3, <1>4, <1>5, <1>6, <1>7 DEF Next

LEMMA SharedOrNot ==
  ASSUME [Next]_vars
  PROVE  SharedStep \/ SharedAlone
<1>1. CASE MoveArm \/ NetworkFails \/ NetworkReturns
  BY <1>1 DEF MoveArm, NetworkFails, NetworkReturns, SharedAlone
<1>2. CASE ServoStep
  BY <1>2 DEF ServoStep, SharedAlone
<1>3. CASE FeedbackStep
  BY <1>3 DEF FeedbackStep, ConnectServer, StateTimer, PingTimer, PingAnswered, PingLost,
     Hear, SdkReceives, SdkNotices, FeedbackOnly, SharedAlone
<1>4. CASE StatusStep
  BY <1>4 DEF StatusStep, ListenerThread, StopListener, PushFrame, PeerCloses, StatusOnly,
     SharedAlone
<1>5. CASE TwinStep
  BY <1>5 DEF TwinStep, TwinConnects, TwinError, ParseFrame, PublishLatest, PushState,
     SilentCut, TwinOnly, SharedAlone
<1>6. CASE UNCHANGED vars
  BY <1>6 DEF vars, SharedAlone
<1> QED BY <1>1, <1>2, <1>3, <1>4, <1>5, <1>6 DEF Next

LEMMA StatusOrNot ==
  ASSUME [Next]_vars
  PROVE  StatusStep \/ StatusAlone
<1>1. CASE MoveArm \/ NetworkFails \/ NetworkReturns
  BY <1>1 DEF MoveArm, NetworkFails, NetworkReturns, StatusAlone
<1>2. CASE ServoStep
  BY <1>2 DEF ServoStep, StatusAlone
<1>3. CASE FeedbackStep
  BY <1>3 DEF FeedbackStep, ConnectServer, StateTimer, PingTimer, PingAnswered, PingLost,
     Hear, SdkReceives, SdkNotices, FeedbackOnly, StatusAlone
<1>4. CASE SharedStep
  BY <1>4 DEF SharedStep, WriterStep, Handshake, OpenShared, Receive, Copy, PostWriter,
     StartWriter, SendFrame, WaitReader, ReadHalf, PostReader, Kill, SharedOnly, StatusAlone
<1>5. CASE TwinStep
  BY <1>5 DEF TwinStep, TwinConnects, TwinError, ParseFrame, PublishLatest, PushState,
     SilentCut, TwinOnly, StatusAlone
<1>6. CASE UNCHANGED vars
  BY <1>6 DEF vars, StatusAlone
<1> QED BY <1>1, <1>2, <1>3, <1>4, <1>5, <1>6 DEF Next

-----------------------------------------------------------------------------
(* The arm.                                                                *)

LEMMA ServoInit == Init => ServoInv
  BY LinksAssumption DEF Init, Servo!HardwareInit, ServoInv

LEMMA ServoStays ==
  ASSUME ServoInv, link' = link, ServoAlone
  PROVE  ServoInv'
  BY DEF ServoInv, ServoAlone, servoVars, Servo!Near

\* Every call of the manager keeps the invariant, one step per method.
LEMMA ServoSteps ==
  ASSUME ServoInv, link' = link, ServoStep
  PROVE  ServoInv'
<1> USE LinksAssumption
<1>1. ASSUME NEW rpcOk \in BOOLEAN, NEW poseOk \in BOOLEAN, Servo!Activate(rpcOk, poseOk)
      PROVE  ServoInv'
  BY <1>1 DEF ServoInv, ServoStep, Servo!Activate
<1>2. CASE Servo!Deactivate
  BY <1>2 DEF ServoInv, ServoStep, Servo!Deactivate
<1>3. CASE Servo!NullCall
  BY <1>3 DEF ServoInv, ServoStep, Servo!NullCall
<1>4. ASSUME NEW ok \in BOOLEAN, Servo!Read(ok)
      PROVE  ServoInv'
  BY <1>4 DEF ServoInv, ServoStep, Servo!Read, Servo!Cycling
<1>5. CASE Servo!Update(MaxStep)
  <2>1. life = "active"
    BY <1>5 DEF ServoInv, ServoStep, Servo!Update, Servo!Cycling
  <2>2. PICK c \in Poses : /\ command' = c
                           /\ Servo!Near(c, command, MaxStep) \/ Servo!Near(c, state, MaxStep)
    BY <1>5, <2>1 DEF Servo!Update
  <2>3. ~servoFailed /\ ~readFailed => Servo!Near(c, arm, MaxStep)
    BY <2>1, <2>2, <1>5 DEF ServoInv, ServoStep, Servo!Update
  <2> QED BY <1>5, <2>1, <2>2, <2>3 DEF ServoInv, ServoStep, Servo!Update, Servo!Near
<1>6. ASSUME NEW accepted \in BOOLEAN, Servo!Write(accepted)
      PROVE  ServoInv'
  BY <1>6 DEF ServoInv, ServoStep, Servo!Write, Servo!Finite, Servo!Cycling
<1> QED BY <1>1, <1>2, <1>3, <1>4, <1>5, <1>6 DEF ServoStep

\* Only write() moves the arm, and to a command near where it was.
LEMMA ServoMoves ==
  ASSUME ServoInv, ServoStep, arm' # arm
  PROVE  Servo!Near(arm', arm, MaxStep) \/ readFailed \/ servoFailed \/ notFinite = {"last"}
<1>1. PICK accepted \in BOOLEAN : Servo!Write(accepted)
  BY DEF ServoStep, Servo!Activate, Servo!Deactivate, Servo!NullCall, Servo!Read, Servo!Update
<1>2. CASE notFinite = {}
  BY <1>1, <1>2 DEF ServoInv, ServoStep, Servo!Write, Servo!Cycling
<1>3. CASE notFinite # {}
  BY <1>1, <1>3 DEF ServoInv, ServoStep, Servo!Write, Servo!Finite
<1> QED BY <1>2, <1>3

\* The arm is never sent further than a controller's step from where it is,
\* for every set of poses and every step, unless read() or write() swallowed an
\* error or the sixth command is not finite (fairino_hardware_interface.cpp:173,
\* 185, 197).
THEOREM NoJerk == Spec => ArmNotJerked
<1>1. Init => ServoInv
  BY ServoInit
<1>2. ServoInv /\ [Next]_vars => ServoInv'
  BY ServoOrNot, ServoStays, ServoSteps
<1>3. ServoInv /\ [Next]_vars =>
        [link = "servo" /\ arm' # arm =>
           \/ Servo!Near(arm', arm, MaxStep)
           \/ readFailed \/ servoFailed
           \/ notFinite = {"last"}]_vars
  BY ServoOrNot, ServoMoves DEF ServoAlone
<1> QED BY <1>1, <1>2, <1>3, PTL DEF Spec, ArmNotJerked

-----------------------------------------------------------------------------
(* The shared memory.                                                      *)

LEMMA SharedInitially == Init => SharedInv
  BY DEF Init, Shared!SharedInit, SharedInv, Shared!WriterHolds, Shared!ReaderHolds

LEMMA SharedStays ==
  ASSUME SharedInv, SharedAlone
  PROVE  SharedInv'
  BY DEF SharedInv, SharedAlone, sharedVars, Shared!WriterHolds, Shared!ReaderHolds

\* NoSem is no value of a semaphore.
LEMMA NoSemIsNone == NoSem # 0 /\ NoSem # 1
  BY LinksAssumption

\* A free semaphore is not a taken one, stated for provers without arithmetic.
LEMMA FreeIsNotTaken == sem = 1 => sem # 0
  OBVIOUS

\* What sem_trywait(), sem_wait() and sem_post() do to a semaphore of this kind.
LEMMA SemaphoreMoves ==
  ASSUME SharedInv
  PROVE  /\ Shared!Receive => (sem = 1 /\ sem' = 0 /\ thread' = "copy") \/ UNCHANGED <<sem, thread>>
         /\ Shared!PostWriter => sem = 0 /\ sem' = 1
         /\ Shared!WaitReader => sem = 1 /\ sem' = 0
         /\ Shared!PostReader => sem = 0 /\ sem' = 1
<1>1. Shared!Receive => (sem = 1 /\ sem' = 0 /\ thread' = "copy") \/ UNCHANGED <<sem, thread>>
  BY DEF Shared!Receive
<1>2. ASSUME Shared!PostWriter PROVE sem = 0 /\ sem' = 1
  <2>1. sem = 0
    BY <1>2 DEF SharedInv, Shared!PostWriter, Shared!WriterHolds
  <2> QED BY <1>2, <2>1 DEF Shared!PostWriter
<1>3. Shared!WaitReader => sem = 1 /\ sem' = 0
  BY DEF Shared!WaitReader
<1>4. ASSUME Shared!PostReader PROVE sem = 0 /\ sem' = 1
  <2>1. sem = 0
    BY <1>4 DEF SharedInv, Shared!PostReader, Shared!ReaderHolds
  <2> QED BY <1>4, <2>1 DEF Shared!PostReader
<1> QED BY <1>1, <1>2, <1>3, <1>4

LEMMA WriterSteps ==
  ASSUME SharedInv, WriterStep
  PROVE  SharedInv'
<1> USE NoSemIsNone, FreeIsNotTaken DEF SharedInv, Shared!WriterHolds, Shared!ReaderHolds, Shared!readerVars
<1>1. CASE Handshake
  BY <1>1 DEF Handshake, Shared!SendStop, Shared!SendConfig, Shared!SendStart, Shared!Request
<1>2. CASE OpenShared
  BY <1>2 DEF OpenShared, Shared!OpenShared
<1>3. CASE Receive
  <2>1. /\ (sem = 1 /\ sem' = 0 /\ thread' = "copy") \/ UNCHANGED <<sem, thread>>
        /\ thread = "receive"
        /\ UNCHANGED <<shm, Shared!readerVars>>
    BY <1>3, SemaphoreMoves DEF Receive, Shared!Receive
  <2>2. CASE sem = 1 /\ sem' = 0 /\ thread' = "copy"
    <3>1. ~Shared!ReaderHolds
      BY <2>2
    <3> QED BY <2>1, <2>2, <3>1
  <2>3. CASE UNCHANGED <<sem, thread>>
    BY <2>1, <2>3
  <2> QED BY <2>1, <2>2, <2>3
<1>4. CASE Copy
  BY <1>4 DEF Copy, Shared!Copy
<1>5. CASE PostWriter
  <2>1. /\ sem = 0 /\ sem' = 1
        /\ thread = "post" /\ thread' = "receive"
        /\ UNCHANGED <<shm, Shared!readerVars>>
    BY <1>5, SemaphoreMoves DEF PostWriter, Shared!PostWriter
  <2> QED BY <2>1
<1>6. CASE StartWriter
  BY <1>6 DEF StartWriter, Shared!StartWriter
<1> QED BY <1>1, <1>2, <1>3, <1>4, <1>5, <1>6 DEF WriterStep

LEMMA ReaderSteps ==
  ASSUME SharedInv, SendFrame \/ WaitReader \/ ReadHalf \/ PostReader \/ Kill
  PROVE  SharedInv'
<1> USE NoSemIsNone, FreeIsNotTaken DEF SharedInv, Shared!WriterHolds, Shared!ReaderHolds, Shared!writerVars
<1>1. CASE SendFrame
  BY <1>1 DEF SendFrame, Shared!SendFrame, Shared!readerVars
<1>2. CASE WaitReader
  <2>1. /\ sem = 1 /\ sem' = 0
        /\ reader' = "read"
        /\ UNCHANGED <<Shared!writerVars, shm>>
    BY <1>2, SemaphoreMoves DEF WaitReader, Shared!WaitReader
  <2>2. ~Shared!WriterHolds /\ shm[1] = shm[2]
    BY <2>1
  <2> QED BY <2>1, <2>2
<1>3. CASE ReadHalf
  BY <1>3 DEF ReadHalf, Shared!ReadHalf
<1>4. CASE PostReader
  <2>1. /\ sem = 0 /\ sem' = 1
        /\ reader = "post" /\ reader' = "out"
        /\ UNCHANGED <<Shared!writerVars, shm>>
    BY <1>4, SemaphoreMoves DEF PostReader, Shared!PostReader
  <2> QED BY <2>1
<1>5. CASE Kill
  BY <1>5 DEF Kill, Shared!KillWriter, Shared!KillReader, Shared!readerVars
<1> QED BY <1>1, <1>2, <1>3, <1>4, <1>5

\* Readers of the shared memory see one state of the controller, never parts of
\* two, however many writers and readers are killed at whatever moment
\* (CNDE_thread.cpp:115-118).
THEOREM SnapshotsWhole == Spec => []WholeSnapshots
<1>1. Init => SharedInv
  BY SharedInitially
<1>2. SharedInv /\ [Next]_vars => SharedInv'
  BY SharedOrNot, SharedStays, WriterSteps, ReaderSteps DEF SharedStep
<1>3. SharedInv => WholeSnapshots
  BY DEF SharedInv, WholeSnapshots, Shared!WholeSnapshots
<1> QED BY <1>1, <1>2, <1>3, PTL DEF Spec

-----------------------------------------------------------------------------
(* The listener.                                                           *)

LEMMA ListenerInitially == Init => ListenerInv
  BY DEF Init, Status!ListenerInit, ListenerInv

LEMMA ListenerStays ==
  ASSUME ListenerInv, StatusAlone
  PROVE  ListenerInv'
  BY DEF ListenerInv, StatusAlone, statusVars

\* The thread in run(), one step per action.
LEMMA ThreadStepsKeep ==
  ASSUME ListenerInv, Status!ThreadStep
  PROVE  ListenerInv'
<1> USE DEF ListenerInv, Status!connectionVars
<1>1. CASE Status!EnterRun \/ Status!TryConnect \/ Status!DialFails \/ Status!LoopRun
  BY <1>1 DEF Status!EnterRun, Status!TryConnect, Status!DialFails, Status!LoopRun
<1>2. ASSUME NEW cut \in Cuts, Status!DialSucceeds(cut)
      PROVE  ListenerInv'
  BY <1>2 DEF Status!DialSucceeds
<1>3. CASE Status!LoadSock
  BY <1>3 DEF Status!LoadSock
<1>4. CASE Status!RecvChunk
  BY <1>4 DEF Status!RecvChunk
<1>5. CASE Status!RecvTimesOut \/ Status!RecvFails
  BY <1>5 DEF Status!RecvTimesOut, Status!RecvFails
<1>6. CASE Status!CloseInRun
  BY <1>6 DEF Status!CloseInRun, Status!AfterClose, Status!SockAfterClose, Status!ClosingSteps
<1>7. CASE Status!Resync \/ Status!Drained \/ Status!TakeFrame
  BY <1>7 DEF Status!Resync, Status!Drained, Status!TakeFrame
<1> QED BY <1>1, <1>2, <1>3, <1>4, <1>5, <1>6, <1>7 DEF Status!ThreadStep

\* stop() from the main thread, and the controller.
LEMMA OthersKeep ==
  ASSUME ListenerInv, Status!StopStep \/ Status!PushFrame \/ Status!PeerCloses
  PROVE  ListenerInv'
<1> USE DEF ListenerInv, Status!connectionVars, Status!threadVars
<1>1. CASE Status!Stop
  BY <1>1 DEF Status!Stop
<1>2. CASE Status!CloseInStop
  BY <1>2 DEF Status!CloseInStop, Status!AfterClose, Status!SockAfterClose, Status!ClosingSteps
<1>3. CASE Status!Destroy
  BY <1>3 DEF Status!Destroy
<1>4. CASE Status!PushFrame \/ Status!PeerCloses
  BY <1>4 DEF Status!PushFrame, Status!PeerCloses
<1> QED BY <1>1, <1>2, <1>3, <1>4 DEF Status!StopStep

\* Only _drain_frames() publishes, and a new connection starts a new account.
LEMMA PublishedByDrain ==
  ASSUME StatusStep, run # "drain"
  PROVE  published' \in {published, <<>>}
<1>1. CASE ListenerThread
  BY <1>1 DEF ListenerThread, Status!ThreadStep, Status!EnterRun, Status!TryConnect,
     Status!DialFails, Status!DialSucceeds, Status!LoopRun, Status!LoadSock, Status!RecvChunk,
     Status!RecvTimesOut, Status!RecvFails, Status!CloseInRun, Status!Resync, Status!Drained,
     Status!TakeFrame
<1>2. CASE StopListener
  BY <1>2 DEF StopListener, Status!StopStep, Status!Stop, Status!CloseInStop, Status!Destroy,
     Status!threadVars
<1>3. CASE PushFrame \/ PeerCloses
  BY <1>3 DEF PushFrame, PeerCloses, Status!PushFrame, Status!PeerCloses, Status!threadVars
<1> QED BY <1>1, <1>2, <1>3 DEF StatusStep

\* Nothing is published on a destroyed publisher, for all frames and chunks and
\* wherever the thread is when stop() comes (ros2_forwarder.py:98-101), unless
\* run() sets _running after it.
THEOREM Quiet == Spec => QuietWhenDestroyed
<1>1. Init => ListenerInv
  BY ListenerInitially
<1>2. ListenerInv /\ [Next]_vars => ListenerInv'
  BY StatusOrNot, ListenerStays, ThreadStepsKeep, OthersKeep
     DEF StatusStep, ListenerThread, StopListener, PushFrame, PeerCloses
<1>3. ListenerInv /\ [Next]_vars =>
        [stop = "destroyed" /\ ~running => published' \in {published, <<>>}]_(Status!listenerVars)
  BY StatusOrNot, PublishedByDrain DEF ListenerInv, StatusAlone, statusVars
<1> QED BY <1>1, <1>2, <1>3, PTL DEF Spec, QuietWhenDestroyed, Status!QuietWhenDestroyed
-----------------------------------------------------------------------------
(* The frames of the status stream.                                        *)

FrameNumbers == 1..Len(Payloads)
Size == Status!FrameSize

LEMMA StreamConstants ==
  /\ DataLen \in Nat /\ Len(Payloads) \in Nat
  /\ Size \in Nat /\ Size = DataLen + 5
  /\ \A k \in FrameNumbers : Payloads[k] \in Seq(Nat) /\ Len(Payloads[k]) = DataLen
<1>1. DataLen \in Nat /\ Payloads \in Seq(Seq(Nat)) /\ \A k \in DOMAIN Payloads : Len(Payloads[k]) = DataLen
  BY LinksAssumption
<1>2. Size = DataLen + 5
  BY <1>1 DEF Size, Status!FrameSize
<1>3. Len(Payloads) \in Nat /\ DOMAIN Payloads = 1..Len(Payloads)
  BY <1>1, LenProperties
<1>4. \A k \in FrameNumbers : Payloads[k] \in Seq(Nat) /\ Len(Payloads[k]) = DataLen
  <2> SUFFICES ASSUME NEW k \in 1..Len(Payloads)
               PROVE  Payloads[k] \in Seq(Nat) /\ Len(Payloads[k]) = DataLen
    BY DEF FrameNumbers
  <2>1. Payloads[k] \in Seq(Nat)
    BY <1>1, ElementOfSeq
  <2>2. Len(Payloads[k]) = DataLen
    BY <1>1, <1>3
  <2> QED BY <2>1, <2>2
<1> QED BY <1>1, <1>2, <1>3, <1>4

\* What the controller sends as frame k.
IsFrame(f, k) ==
  /\ Len(f) = Size
  /\ f[1] = Status!H /\ f[2] = Status!H /\ f[3] = k /\ f[4] = DataLen
  /\ [i \in 1..DataLen |-> f[4 + i]] = Payloads[k]
  /\ f[Size] = Status!Checksum([i \in 1..Size - 1 |-> f[i]])

LEMMA FrameFacts ==
  ASSUME NEW k \in FrameNumbers
  PROVE  /\ IsFrame(Status!FrameOf(k), k)
         /\ \E S : Status!FrameOf(k) \in Seq(S)
<1> DEFINE head == <<Status!H, Status!H, k, Len(Payloads[k])>> \o Payloads[k]
           sum == Status!Checksum(head)
           f == Status!FrameOf(k)
<1>1. k \in Nat /\ DataLen \in Nat /\ Payloads[k] \in Seq(Nat) /\ Len(Payloads[k]) = DataLen
  BY StreamConstants DEF FrameNumbers
<1>2. /\ head \in Seq(Nat) /\ Len(head) = 4 + DataLen
      /\ head[1] = Status!H /\ head[2] = Status!H /\ head[3] = k /\ head[4] = DataLen
      /\ \A i \in 1..DataLen : head[4 + i] = Payloads[k][i]
  <2> DEFINE start == <<Status!H, Status!H, k, Len(Payloads[k])>>
  <2>1. /\ start \in Seq(Nat) /\ Len(start) = 4
        /\ start[1] = Status!H /\ start[2] = Status!H /\ start[3] = k /\ start[4] = DataLen
    BY <1>1 DEF Status!H
  <2> HIDE DEF start
  <2>2. /\ start \o Payloads[k] \in Seq(Nat) /\ Len(start \o Payloads[k]) = 4 + DataLen
        /\ \A i \in 1..4 + DataLen :
             (start \o Payloads[k])[i] = IF i <= 4 THEN start[i] ELSE Payloads[k][i - 4]
    <3>1. /\ start \o Payloads[k] \in Seq(Nat)
          /\ Len(start \o Payloads[k]) = Len(start) + Len(Payloads[k])
          /\ \A i \in 1..Len(start) + Len(Payloads[k]) :
               (start \o Payloads[k])[i] =
                 IF i <= Len(start) THEN start[i] ELSE Payloads[k][i - Len(start)]
      BY ONLY <1>1, <2>1, ConcatProperties
    <3> QED BY <1>1, <2>1, <3>1
  <2>3. head = start \o Payloads[k]
    BY DEF start
  <2>4. \A i \in 1..DataLen : head[4 + i] = Payloads[k][i]
    BY <1>1, <2>2, <2>3
  <2> HIDE DEF head
  <2>5. \A i \in 1..4 : head[i] = start[i]
    BY <1>1, <2>2, <2>3
  <2>6. head \in Seq(Nat) /\ Len(head) = 4 + DataLen
    BY <2>2, <2>3
  <2> QED BY ONLY <2>1, <2>4, <2>5, <2>6
<1>3. f = Append(head, sum)
  BY DEF Status!FrameOf
<1> HIDE DEF head, sum, f
<1>4. head \in Seq(Nat \union {sum}) /\ sum \in Nat \union {sum}
  BY <1>2
<1>5. /\ f \in Seq(Nat \union {sum}) /\ Len(f) = 5 + DataLen
      /\ f[5 + DataLen] = sum
      /\ \A i \in 1..4 + DataLen : f[i] = head[i]
  BY <1>1, <1>2, <1>3, <1>4, AppendProperties
<1>6. Size = 5 + DataLen
  BY StreamConstants
<1>7. head = [i \in 1..Size - 1 |-> f[i]]
  BY <1>1, <1>2, <1>5, <1>6
<1>8. Payloads[k] = [i \in 1..DataLen |-> f[4 + i]]
  <2>1. \A i \in 1..DataLen : f[4 + i] = Payloads[k][i]
    <3> SUFFICES ASSUME NEW i \in 1..DataLen PROVE f[4 + i] = Payloads[k][i]
      OBVIOUS
    <3>1. 4 + i \in 1..4 + DataLen
      BY <1>1
    <3>2. f[4 + i] = head[4 + i]
      BY <1>5, <3>1
    <3> QED BY <1>2, <3>2
  <2>2. Payloads[k] = [i \in 1..DataLen |-> Payloads[k][i]]
    BY ONLY <1>1, LenProperties
  <2> QED BY ONLY <2>1, <2>2
<1>9. f[Size] = Status!Checksum([i \in 1..Size - 1 |-> f[i]])
  BY <1>5, <1>6, <1>7 DEF sum
<1>10. f[1] = Status!H /\ f[2] = Status!H /\ f[3] = k /\ f[4] = DataLen
  BY <1>1, <1>2, <1>5
<1>11. IsFrame(f, k)
  BY <1>5, <1>6, <1>8, <1>9, <1>10 DEF IsFrame
<1> QED BY <1>5, <1>11 DEF f

\* The bytes of frame k are where it stands in the stream.
LEMMA ByteAt ==
  ASSUME NEW k \in Nat \ {0}, NEW j \in 1..Size
  PROVE  Status!ByteOf(Size * (k - 1) + j) = Status!FrameOf(k)[j]
<1> DEFINE n == Size * (k - 1) + j - 1
<1>1. Size \in Nat \ {0} /\ k - 1 \in Nat /\ j - 1 \in 0..Size - 1
  BY StreamConstants
<1>2. Size * (k - 1) \in Nat
  BY <1>1
<1>3. n \in Nat /\ n = Size * (k - 1) + (j - 1)
  BY <1>1, <1>2
<1>4. /\ n \div Size \in Nat /\ n % Size \in 0..Size - 1
      /\ n = Size * (n \div Size) + (n % Size)
  BY <1>1, <1>3, DivMod
<1>5. n \div Size = k - 1 /\ n % Size = j - 1
  <2> DEFINE q == n \div Size
             r == n % Size
  <2>1. q \in Nat /\ r \in 0..Size - 1 /\ n = Size * q + r
    BY <1>4
  <2> HIDE DEF n, q, r
  <2>2. Size * q + r = Size * (k - 1) + (j - 1)
    BY <1>3, <2>1
  <2>3. \A a, b \in Nat : \A s, t \in 0..Size - 1 :
          Size * a + s = Size * b + t => a = b /\ s = t
    BY <1>1, DivModUnique
  <2>4. q = k - 1 /\ r = j - 1
    BY ONLY <1>1, <2>1, <2>2, <2>3
  <2> QED BY <2>4 DEF q, r
<1>6. n = (Size * (k - 1) + j) - 1
  BY <1>1, <1>2
<1>7. Status!ByteOf(Size * (k - 1) + j) = Status!FrameOf(1 + n \div Size)[1 + (n % Size)]
  BY <1>6 DEF Status!ByteOf, Size
<1> QED BY <1>1, <1>5, <1>7
-----------------------------------------------------------------------------
(* The listener stays in step.  What it holds and what is still to come is  *)
(* always the stream without its first Gone bytes; while it has published   *)
(* nothing it may stand anywhere in a frame, afterwards only between two.   *)

Gone == Size * sent - Len(buf) - Len(stream)
Byte == {Status!ByteOf(i) : i \in Nat \ {0}}
Told == {[count |-> k, data |-> Payloads[k]] : k \in FrameNumbers}

StreamInv ==
  /\ sent \in 0..Len(Payloads)
  /\ buf \in Seq(Byte) /\ stream \in Seq(Byte)
  /\ Gone \in Nat
  /\ \A i \in 1..Len(buf) : buf[i] = Status!ByteOf(Gone + i)
  /\ \A i \in 1..Len(stream) : stream[i] = Status!ByteOf(Gone + Len(buf) + i)

PublishedInv ==
  /\ published \in Seq(Told)
  /\ \A i \in 1..Len(published) : published[i].count = published[1].count + i - 1

BetweenFrames ==
  /\ published # <<>> => Gone = Size * published[Len(published)].count
  /\ published = <<>> /\ aligned => Gone = Size * (first - 1) /\ first \in Nat \ {0}
  /\ Cuts \subseteq {0} => aligned

StepInv == StreamInv /\ PublishedInv /\ BetweenFrames

\* A header that begins no frame: the length behind it is not that of a frame,
\* or what would be the checksum is not.
FalseHeader(p) ==
  \/ Status!ByteOf(p + 3) \in Nat \ {DataLen}
  \/ /\ Status!ByteOf(p + 3) = DataLen
     /\ p + Size - 1 <= Size * Len(Payloads) =>
          Status!ByteOf(p + Size - 1)
            # Status!Checksum([i \in 1..Size - 1 |-> Status!ByteOf(p - 1 + i)])

\* Nothing within the frames, or across two of them, passes for a frame; or every
\* connection begins with a whole frame.
FramesTellThemselves ==
  \/ \A p \in 1..Size * Len(Payloads) - 3 :
       Status!ByteOf(p) = Status!H /\ Status!ByteOf(p + 1) = Status!H =>
         (p - 1) % Size = 0 \/ FalseHeader(p)
  \/ Cuts \subseteq {0}

LEMMA StepInitially == Init => StepInv
<1> SUFFICES ASSUME Init PROVE StepInv
  OBVIOUS
<1>1. /\ sent = 0 /\ buf = <<>> /\ stream = <<>> /\ published = <<>> /\ first = 1 /\ aligned = TRUE
  BY DEF Init, Status!ListenerInit
<1>2. Size * sent = 0 /\ Len(<<>>) = 0 /\ Size * 0 = 0
  BY <1>1, StreamConstants
<1>3. Gone = 0
  BY <1>1, <1>2 DEF Gone
<1>4. <<>> \in Seq(Byte) /\ <<>> \in Seq(Told)
  BY EmptySeq
<1>5. StreamInv
  BY <1>1, <1>2, <1>3, <1>4, StreamConstants DEF StreamInv
<1>6. PublishedInv
  BY <1>1, <1>2, <1>4 DEF PublishedInv
<1>7. BetweenFrames
  BY <1>1, <1>2, <1>3 DEF BetweenFrames
<1> QED BY <1>5, <1>6, <1>7 DEF StepInv

\* The frames sent so far fill the stream.
LEMMA Filled ==
  ASSUME StreamInv
  PROVE  /\ sent \in Nat /\ Size * sent \in Nat /\ Size * sent <= Size * Len(Payloads)
         /\ Len(buf) \in Nat /\ Len(stream) \in Nat
         /\ Gone + Len(buf) + Len(stream) = Size * sent
<1>1. sent \in Nat /\ Len(Payloads) - sent \in Nat /\ Size \in Nat /\ Len(Payloads) \in Nat
  BY StreamConstants DEF StreamInv
<1>2. Size * sent \in Nat /\ Size * (Len(Payloads) - sent) \in Nat
  BY <1>1
<1>3. Size * Len(Payloads) = Size * sent + Size * (Len(Payloads) - sent)
  BY <1>1
<1>4. Len(buf) \in Nat /\ Len(stream) \in Nat
  BY LenProperties DEF StreamInv
<1>5. Gone = Size * sent - Len(buf) - Len(stream)
  BY DEF Gone
<1> HIDE DEF Gone
<1>6. Size * Len(Payloads) \in Nat
  BY <1>1
<1> QED BY <1>1, <1>2, <1>3, <1>4, <1>5, <1>6

\* Cutting off bytes in front.
LEMMA CutOff ==
  ASSUME StreamInv, NEW m \in 0..Len(buf), buf' = SubSeq(buf, m + 1, Len(buf)),
         stream' = stream, sent' = sent
  PROVE  StreamInv' /\ Gone' = Gone + m
<1>1. Len(buf) \in Nat /\ Len(stream) \in Nat /\ Size * sent \in Nat
  BY Filled
<1>2. \A i \in m + 1..Len(buf) : i \in 1..Len(buf) /\ buf[i] \in Byte
  BY <1>1, ElementOfSeq DEF StreamInv
<1>3. /\ buf' \in Seq(Byte)
      /\ Len(buf') = Len(buf) - m
      /\ \A i \in 1..Len(buf) - m : buf'[i] = buf[m + i]
  <2>1. /\ SubSeq(buf, m + 1, Len(buf)) \in Seq(Byte)
        /\ Len(SubSeq(buf, m + 1, Len(buf))) =
             IF m + 1 <= Len(buf) THEN Len(buf) - (m + 1) + 1 ELSE 0
        /\ \A i \in 1..Len(buf) - (m + 1) + 1 :
             SubSeq(buf, m + 1, Len(buf))[i] = buf[m + 1 + i - 1]
    <3>1. m + 1 \in Int /\ Len(buf) \in Int
      BY <1>1
    <3> QED BY ONLY <3>1, <1>2, SubSeqProperties
  <2> QED BY <1>1, <2>1
<1>4. Gone' = Gone + m
  <2>1. Gone' = Size * sent - (Len(buf) - m) - Len(stream)
    BY <1>3 DEF Gone
  <2> QED BY <1>1, <2>1 DEF Gone
<1>5. \A i \in 1..Len(buf') : buf'[i] = Status!ByteOf(Gone' + i)
  <2> SUFFICES ASSUME NEW i \in 1..Len(buf') PROVE buf'[i] = Status!ByteOf(Gone' + i)
    OBVIOUS
  <2>1. m + i \in 1..Len(buf) /\ buf'[i] = buf[m + i] /\ Gone + (m + i) = Gone' + i
    BY <1>1, <1>3, <1>4 DEF StreamInv
  <2> QED BY <2>1 DEF StreamInv
<1>6. \A i \in 1..Len(stream') : stream'[i] = Status!ByteOf(Gone' + Len(buf') + i)
  <2>1. Gone' + Len(buf') = Gone + Len(buf)
    BY <1>1, <1>3, <1>4 DEF StreamInv
  <2> QED BY <2>1 DEF StreamInv
<1>7. Gone' \in Nat
  BY <1>1, <1>4 DEF StreamInv
<1> QED BY <1>3, <1>4, <1>5, <1>6, <1>7 DEF StreamInv

\* recv() moves bytes from the connection to the buffer.
LEMMA ChunkKeeps ==
  ASSUME StreamInv, Status!RecvChunk
  PROVE  StreamInv' /\ Gone' = Gone
<1>1. PICK n \in 1..Len(stream) : /\ buf' = buf \o SubSeq(stream, 1, n)
                                  /\ stream' = SubSeq(stream, n + 1, Len(stream))
  BY DEF Status!RecvChunk
<1>2. Len(buf) \in Nat /\ Len(stream) \in Nat /\ Size * sent \in Nat /\ sent' = sent
  BY Filled DEF Status!RecvChunk
<1>3. \A i \in 1..Len(stream) : stream[i] \in Byte
  BY ElementOfSeq DEF StreamInv
<1> DEFINE got == SubSeq(stream, 1, n)
<1>4. got \in Seq(Byte) /\ Len(got) = n /\ \A i \in 1..n : got[i] = stream[i]
  <2>1. n \in Int /\ 1 \in Int /\ \A i \in 1..n : stream[i] \in Byte
    BY <1>2, <1>3
  <2>2. /\ got \in Seq(Byte)
        /\ Len(got) = IF 1 <= n THEN n - 1 + 1 ELSE 0
        /\ \A i \in 1..n - 1 + 1 : got[i] = stream[1 + i - 1]
    BY ONLY <2>1, SubSeqProperties
  <2> QED BY <1>2, <2>2
<1> HIDE DEF got
<1>5. /\ buf' \in Seq(Byte) /\ Len(buf') = Len(buf) + n
      /\ \A i \in 1..Len(buf) + n : buf'[i] = IF i <= Len(buf) THEN buf[i] ELSE got[i - Len(buf)]
  <2>1. buf \in Seq(Byte) /\ buf' = buf \o got
    BY <1>1 DEF StreamInv, got
  <2>2. /\ buf \o got \in Seq(Byte) /\ Len(buf \o got) = Len(buf) + Len(got)
        /\ \A i \in 1..Len(buf) + Len(got) :
             (buf \o got)[i] = IF i <= Len(buf) THEN buf[i] ELSE got[i - Len(buf)]
    BY ONLY <1>4, <2>1, ConcatProperties
  <2> QED BY <1>4, <2>1, <2>2
<1>6. /\ stream' \in Seq(Byte) /\ Len(stream') = Len(stream) - n
      /\ \A i \in 1..Len(stream) - n : stream'[i] = stream[n + i]
  <2>1. n + 1 \in Int /\ Len(stream) \in Int /\ \A i \in n + 1..Len(stream) : stream[i] \in Byte
    BY <1>2, <1>3
  <2>2. /\ stream' \in Seq(Byte)
        /\ Len(stream') = IF n + 1 <= Len(stream) THEN Len(stream) - (n + 1) + 1 ELSE 0
        /\ \A i \in 1..Len(stream) - (n + 1) + 1 : stream'[i] = stream[n + 1 + i - 1]
    BY ONLY <1>1, <2>1, SubSeqProperties
  <2> QED BY <1>2, <2>2
<1>7. Gone' = Gone
  BY <1>2, <1>5, <1>6 DEF Gone
<1>8. \A i \in 1..Len(buf') : buf'[i] = Status!ByteOf(Gone' + i)
  <2> SUFFICES ASSUME NEW i \in 1..Len(buf') PROVE buf'[i] = Status!ByteOf(Gone + i)
    BY <1>7
  <2>1. CASE i <= Len(buf)
    BY <1>2, <1>5, <2>1 DEF StreamInv
  <2>2. CASE ~(i <= Len(buf))
    <3>1. i - Len(buf) \in 1..n /\ i - Len(buf) \in 1..Len(stream)
      BY <1>2, <1>5, <2>2
    <3>2. buf'[i] = stream[i - Len(buf)]
      BY <1>4, <1>5, <2>2, <3>1
    <3>3. stream[i - Len(buf)] = Status!ByteOf(Gone + Len(buf) + (i - Len(buf)))
      BY <3>1 DEF StreamInv
    <3>4. Gone + Len(buf) + (i - Len(buf)) = Gone + i
      BY <1>2, <3>1 DEF StreamInv
    <3> QED BY <3>2, <3>3, <3>4
  <2> QED BY <2>1, <2>2
<1>9. \A i \in 1..Len(stream') : stream'[i] = Status!ByteOf(Gone' + Len(buf') + i)
  <2> SUFFICES ASSUME NEW i \in 1..Len(stream')
               PROVE  stream'[i] = Status!ByteOf(Gone' + Len(buf') + i)
    OBVIOUS
  <2>1. n + i \in 1..Len(stream) /\ stream'[i] = stream[n + i]
    BY <1>2, <1>6
  <2>2. stream[n + i] = Status!ByteOf(Gone + Len(buf) + (n + i))
    BY <2>1 DEF StreamInv
  <2>3. Gone + Len(buf) + (n + i) = Gone' + Len(buf') + i
    BY <1>2, <1>5, <1>7, <2>1 DEF StreamInv
  <2> QED BY <2>1, <2>2, <2>3
<1> QED BY <1>2, <1>5, <1>6, <1>7, <1>8, <1>9 DEF StreamInv

\* The bytes of the next frame.
LEMMA NextFrame ==
  ASSUME StreamInv, sent < Len(Payloads)
  PROVE  /\ sent + 1 \in FrameNumbers
         /\ Len(Status!FrameOf(sent + 1)) = Size
         /\ Status!FrameOf(sent + 1) \in Seq(Byte)
         /\ \A i \in 1..Size :
              Status!FrameOf(sent + 1)[i] = Status!ByteOf(Size * sent + i)
         /\ Size * (sent + 1) = Size * sent + Size
<1>1. sent \in Nat /\ Size \in Nat /\ Len(Payloads) \in Nat /\ Size * sent \in Nat
  BY Filled, StreamConstants
<1>2. sent + 1 \in FrameNumbers /\ sent + 1 \in Nat \ {0} /\ (sent + 1) - 1 = sent
  BY <1>1 DEF FrameNumbers
<1> DEFINE f == Status!FrameOf(sent + 1)
<1>3. IsFrame(f, sent + 1) /\ \E S : f \in Seq(S)
  BY <1>2, FrameFacts
<1>4. Len(f) = Size
  BY <1>3 DEF IsFrame
<1>5. \A i \in 1..Size : f[i] = Status!ByteOf(Size * sent + i)
  BY <1>2, ByteAt
<1> HIDE DEF f
<1>6. PICK S : f \in Seq(S)
  BY <1>3
<1>7. \A i \in 1..Size : f[i] \in Byte
  <2> SUFFICES ASSUME NEW i \in 1..Size PROVE f[i] \in Byte
    OBVIOUS
  <2>1. Size * sent + i \in Nat \ {0}
    BY <1>1
  <2> QED BY <1>5, <2>1 DEF Byte
<1>8. f = [i \in 1..Size |-> f[i]]
  BY <1>4, <1>6, LenProperties
<1>9. [i \in 1..Size |-> f[i]] \in Seq(Byte)
  BY <1>1, <1>7
<1>10. Size * (sent + 1) = Size * sent + Size
  BY <1>1
<1> QED BY <1>2, <1>4, <1>5, <1>8, <1>9, <1>10 DEF f

LEMMA PushKeeps ==
  ASSUME StreamInv, Status!PushFrame
  PROVE  StreamInv' /\ Gone' = Gone
<1> DEFINE f == Status!FrameOf(sent + 1)
<1>1. /\ sent < Len(Payloads) /\ sent' = sent + 1
      /\ stream' = stream \o f
      /\ buf' = buf
  BY DEF Status!PushFrame, Status!threadVars
<1>2. /\ Len(buf) \in Nat /\ Len(stream) \in Nat /\ sent \in Nat /\ Size * sent \in Nat
      /\ Gone + Len(buf) + Len(stream) = Size * sent
  BY Filled
<1>3. /\ sent + 1 \in 0..Len(Payloads) /\ f \in Seq(Byte) /\ Len(f) = Size
      /\ \A i \in 1..Size : f[i] = Status!ByteOf(Size * sent + i)
      /\ Size * (sent + 1) = Size * sent + Size
      /\ Size \in Nat
  BY <1>1, <1>2, NextFrame, StreamConstants DEF FrameNumbers
<1> HIDE DEF f
<1>4. /\ stream' \in Seq(Byte) /\ Len(stream') = Len(stream) + Size
      /\ \A i \in 1..Len(stream) + Size :
           stream'[i] = IF i <= Len(stream) THEN stream[i] ELSE f[i - Len(stream)]
  <2>1. stream \in Seq(Byte)
    BY DEF StreamInv
  <2>2. /\ stream \o f \in Seq(Byte) /\ Len(stream \o f) = Len(stream) + Len(f)
        /\ \A i \in 1..Len(stream) + Len(f) :
             (stream \o f)[i] = IF i <= Len(stream) THEN stream[i] ELSE f[i - Len(stream)]
    BY ONLY <1>3, <2>1, ConcatProperties
  <2> QED BY <1>1, <1>3, <2>2
<1>5. Gone' = Gone
  BY <1>1, <1>2, <1>3, <1>4 DEF Gone
<1>6. \A i \in 1..Len(stream') : stream'[i] = Status!ByteOf(Gone' + Len(buf') + i)
  <2> SUFFICES ASSUME NEW i \in 1..Len(stream')
               PROVE  stream'[i] = Status!ByteOf(Gone + Len(buf) + i)
    BY <1>1, <1>5
  <2>1. CASE i <= Len(stream)
    <3>1. i \in 1..Len(stream) /\ stream'[i] = stream[i]
      BY <1>2, <1>3, <1>4, <2>1
    <3> QED BY <3>1 DEF StreamInv
  <2>2. CASE ~(i <= Len(stream))
    <3>1. i - Len(stream) \in 1..Size
      BY <1>2, <1>3, <1>4, <2>2
    <3>2. stream'[i] = Status!ByteOf(Size * sent + (i - Len(stream)))
      BY <1>3, <1>4, <2>2, <3>1
    <3>3. Size * sent + (i - Len(stream)) = Gone + Len(buf) + i
      BY <1>2, <3>1 DEF StreamInv
    <3> QED BY <3>2, <3>3
  <2> QED BY <2>1, <2>2
<1> QED BY <1>1, <1>3, <1>4, <1>5, <1>6 DEF StreamInv

\* A new connection begins somewhere in the next frame.
LEMMA DialKeeps ==
  ASSUME StreamInv, NEW cut \in Cuts, Status!DialSucceeds(cut)
  PROVE  StreamInv' /\ Gone' = Size * sent + cut
<1> DEFINE f == Status!FrameOf(sent + 1)
<1>1. /\ sent < Len(Payloads) /\ sent' = sent + 1
      /\ stream' = SubSeq(f, cut + 1, Len(f))
      /\ buf' = <<>>
  BY DEF Status!DialSucceeds
<1>2. sent \in Nat /\ Size * sent \in Nat
  BY Filled
<1>3. /\ sent + 1 \in 0..Len(Payloads) /\ f \in Seq(Byte) /\ Len(f) = Size
      /\ \A i \in 1..Size : f[i] = Status!ByteOf(Size * sent + i)
      /\ Size * (sent + 1) = Size * sent + Size
      /\ Size \in Nat
  BY <1>1, <1>2, NextFrame, StreamConstants DEF FrameNumbers
<1>4. cut \in 0..Size - 1
  BY LinksAssumption, StreamConstants
<1> HIDE DEF f
<1>5. /\ stream' \in Seq(Byte) /\ Len(stream') = Size - cut
      /\ \A i \in 1..Size - cut : stream'[i] = f[cut + i]
  <2>1. cut + 1 \in Int /\ Size \in Int /\ \A i \in cut + 1..Size : f[i] \in Byte
    <3>1. \A i \in 1..Len(f) : f[i] \in Byte
      BY <1>3, ElementOfSeq
    <3> QED BY <1>3, <1>4, <3>1
  <2>2. stream' = SubSeq(f, cut + 1, Size)
    BY <1>1, <1>3
  <2>3. /\ stream' \in Seq(Byte)
        /\ Len(stream') = IF cut + 1 <= Size THEN Size - (cut + 1) + 1 ELSE 0
        /\ \A i \in 1..Size - (cut + 1) + 1 : stream'[i] = f[cut + 1 + i - 1]
    BY ONLY <2>1, <2>2, SubSeqProperties
  <2> QED BY <1>3, <1>4, <2>3
<1>6. buf' \in Seq(Byte) /\ Len(buf') = 0
  BY <1>1, EmptySeq
<1>7. Gone' = Size * sent + cut
  BY <1>1, <1>2, <1>3, <1>4, <1>5, <1>6 DEF Gone
<1>8. \A i \in 1..Len(stream') : stream'[i] = Status!ByteOf(Gone' + Len(buf') + i)
  <2> SUFFICES ASSUME NEW i \in 1..Len(stream')
               PROVE  stream'[i] = Status!ByteOf(Gone' + Len(buf') + i)
    OBVIOUS
  <2>1. cut + i \in 1..Size /\ stream'[i] = f[cut + i]
    BY <1>3, <1>4, <1>5
  <2>2. Size * sent + (cut + i) = Gone' + Len(buf') + i
    BY <1>2, <1>4, <1>6, <1>7, <2>1
  <2> QED BY <1>3, <2>1, <2>2
<1>9. Gone' \in Nat
  BY <1>2, <1>4, <1>7
<1>10. sent' \in 0..Len(Payloads')
  BY <1>1, <1>3
<1>11. \A i \in 1..Len(buf') : buf'[i] = Status!ByteOf(Gone' + i)
  BY <1>6
<1>12. stream' \in Seq(Byte) /\ buf' \in Seq(Byte)
  BY <1>5, <1>6
<1> QED BY <1>7, <1>8, <1>9, <1>10, <1>11, <1>12 DEF StreamInv
\* Where the next frame begins, after a published one or at the start of an
\* aligned connection.
AtFrame(k) == k \in FrameNumbers /\ Gone = Size * (k - 1)

LEMMA FrameAhead ==
  ASSUME StreamInv, NEW k \in Nat \ {0}, Gone = Size * (k - 1), Len(buf) + Len(stream) > 0
  PROVE  AtFrame(k)
<1>1. /\ sent \in Nat /\ Size * sent \in Nat /\ Len(buf) \in Nat /\ Len(stream) \in Nat
      /\ Gone + Len(buf) + Len(stream) = Size * sent
  BY Filled
<1>2. k - 1 \in Nat /\ Size \in Nat /\ Len(Payloads) \in Nat
  BY StreamConstants
<1>3. Size * (k - 1) < Size * sent
  <2>1. Gone \in Nat /\ Gone < Size * sent
    BY <1>1 DEF StreamInv
  <2> QED BY <2>1
<1>4. k - 1 < sent
  <2> SUFFICES ASSUME ~(k - 1 < sent) PROVE FALSE
    OBVIOUS
  <2>1. (k - 1) - sent \in Nat
    BY <1>1, <1>2
  <2>2. Size * ((k - 1) - sent) \in Nat
    BY <1>2, <2>1
  <2>3. Size * (k - 1) = Size * sent + Size * ((k - 1) - sent)
    BY <1>1, <1>2, <2>1
  <2> QED BY <1>1, <1>2, <1>3, <2>2, <2>3
<1>5. k \in FrameNumbers
  BY <1>1, <1>2, <1>4 DEF StreamInv, FrameNumbers
<1> QED BY <1>5 DEF AtFrame

LEMMA KnownPlace ==
  ASSUME StepInv, published # <<>> \/ aligned, Len(buf) + Len(stream) > 0
  PROVE  \E k \in FrameNumbers :
           /\ AtFrame(k)
           /\ published # <<>> => k = published[Len(published)].count + 1
<1>1. CASE published # <<>>
  <2> DEFINE c == published[Len(published)].count
  <2>1. Len(published) \in Nat \ {0}
    BY <1>1, EmptySeq DEF StepInv, PublishedInv
  <2>2. published[Len(published)] \in Told
    BY <2>1, ElementOfSeq DEF StepInv, PublishedInv
  <2>3. c \in Nat
    BY <2>2 DEF Told, FrameNumbers
  <2>4. c + 1 \in Nat \ {0} /\ (c + 1) - 1 = c
    BY <2>3
  <2>5. Gone = Size * ((c + 1) - 1)
    BY <1>1, <2>4 DEF StepInv, BetweenFrames
  <2>6. AtFrame(c + 1)
    BY <2>4, <2>5, FrameAhead DEF StepInv
  <2> QED BY <2>6 DEF AtFrame
<1>2. CASE published = <<>>
  <2>1. first \in Nat \ {0} /\ Gone = Size * (first - 1)
    BY <1>2 DEF StepInv, BetweenFrames
  <2>2. AtFrame(first)
    BY <2>1, FrameAhead DEF StepInv
  <2> QED BY <1>2, <2>2 DEF AtFrame
<1> QED BY <1>1, <1>2

\* Two bytes between frames are a header.
LEMMA InSyncAtFrame ==
  ASSUME StreamInv, NEW k, AtFrame(k)
  PROVE  Status!InSync
<1> SUFFICES ASSUME ~(Len(buf) < 2) PROVE Status!HeaderAt(1)
  BY DEF Status!InSync
<1>1. Len(buf) \in Nat /\ k \in Nat \ {0} /\ k \in FrameNumbers /\ Gone = Size * (k - 1)
  BY Filled DEF AtFrame, FrameNumbers
<1>2. 1 \in 1..Size /\ 2 \in 1..Size
  BY StreamConstants
<1>3. Status!FrameOf(k)[1] = Status!H /\ Status!FrameOf(k)[2] = Status!H
  BY <1>1, FrameFacts DEF IsFrame
<1>4. buf[1] = Status!FrameOf(k)[1] /\ buf[2] = Status!FrameOf(k)[2]
  <2>1. buf[1] = Status!ByteOf(Gone + 1) /\ buf[2] = Status!ByteOf(Gone + 2)
    BY <1>1 DEF StreamInv
  <2>2. /\ Status!ByteOf(Size * (k - 1) + 1) = Status!FrameOf(k)[1]
        /\ Status!ByteOf(Size * (k - 1) + 2) = Status!FrameOf(k)[2]
    BY <1>1, <1>2, ByteAt
  <2> QED BY <1>1, <2>1, <2>2
<1> QED BY <1>1, <1>3, <1>4 DEF Status!HeaderAt

LEMMA ResyncKeeps ==
  ASSUME StepInv, Status!Resync
  PROVE  StepInv'
<1>1. /\ ~Status!InSync
      /\ UNCHANGED <<published, aligned, first, sent, stream>>
  BY DEF Status!Resync, Status!connectionVars
<1>2. Len(buf) \in Nat /\ Len(stream) \in Nat
  BY Filled DEF StepInv
<1>3. Len(buf) + Len(stream) > 0
  BY <1>1, <1>2 DEF Status!InSync
<1>4. published = <<>> /\ ~aligned
  BY <1>1, <1>3, KnownPlace, InSyncAtFrame DEF StepInv
<1>5. \E m \in 0..Len(buf) : buf' = SubSeq(buf, m + 1, Len(buf))
  <2> DEFINE headers == {i \in 2..Len(buf) : Status!HeaderAt(i)}
             next == CHOOSE i \in headers : \A j \in headers : i <= j
  <2>1. CASE headers = {}
    <3>1. buf' = <<>>
      BY <2>1 DEF Status!Resync
    <3>2. SubSeq(buf, Len(buf) + 1, Len(buf)) = <<>>
      BY <1>2, SubSeqEmpty
    <3>3. Len(buf) \in 0..Len(buf)
      BY <1>2
    <3> QED BY <3>1, <3>2, <3>3
  <2>2. CASE headers # {}
    <3>1. \E i \in headers : \A j \in headers : i <= j
      <4>1. PICK h \in headers : TRUE
        BY <2>2
      <4>2. \A i \in headers : i \in Nat
        BY <1>2
      <4> HIDE DEF headers
      <4>3. headers \subseteq Nat
        BY <4>2
      <4> QED BY <4>3, <2>2, LeastNumber
    <3>2. next \in headers
      BY <3>1
    <3>3. next \in 2..Len(buf)
      BY <3>2
    <3>4. buf' = SubSeq(buf, next, Len(buf))
      BY <2>2 DEF Status!Resync, Status!BufferFrom
    <3> HIDE DEF next
    <3>5. next - 1 \in 0..Len(buf) /\ (next - 1) + 1 = next
      BY <1>2, <3>3
    <3> QED BY <3>4, <3>5
  <2> QED BY <2>1, <2>2
<1>6. StreamInv'
  BY <1>1, <1>5, CutOff DEF StepInv
<1>7. PublishedInv' /\ BetweenFrames'
  BY <1>1, <1>4 DEF StepInv, PublishedInv, BetweenFrames
<1> QED BY <1>6, <1>7 DEF StepInv
-----------------------------------------------------------------------------
(* Cutting off a frame.                                                     *)

\* What the listener takes for a frame.
Whole ==
  /\ Len(buf) >= 4
  /\ buf[1] = Status!H /\ buf[2] = Status!H
  /\ Len(buf) >= Status!FrameLength

Accepted ==
  /\ buf[Status!FrameLength] = Status!Checksum(SubSeq(buf, 1, Status!FrameLength - 1))
  /\ buf[4] = DataLen

LEMMA TakeWhole ==
  ASSUME StreamInv, Status!TakeFrame
  PROVE  /\ Whole
         /\ buf' = SubSeq(buf, Status!FrameLength + 1, Len(buf))
         /\ Accepted => published' = Append(published,
                          [count |-> buf[3], data |-> SubSeq(buf, 5, 4 + DataLen)])
         /\ ~Accepted => published' = published
         /\ UNCHANGED <<stream, sent, aligned, first>>
<1>1. Len(buf) \in Nat /\ Len(buf) >= 4
  BY Filled DEF Status!TakeFrame, Status!FrameThere
<1>2. Status!HeaderAt(1)
  BY <1>1 DEF Status!TakeFrame, Status!InSync
<1>3. Whole
  BY <1>1, <1>2 DEF Status!TakeFrame, Status!FrameThere, Status!HeaderAt, Whole
<1> QED BY <1>3 DEF Status!TakeFrame, Status!BufferFrom, Status!connectionVars, Accepted

\* The first bytes of the buffer, as a sequence.
LEMMA Prefix ==
  ASSUME StreamInv, NEW m \in Nat, NEW n \in Nat, m + n <= Len(buf)
  PROVE  SubSeq(buf, m + 1, m + n) = [i \in 1..n |-> Status!ByteOf(Gone + m + i)]
<1>1. Len(buf) \in Nat /\ \A i \in 1..Len(buf) : buf[i] \in Byte /\ buf[i] = Status!ByteOf(Gone + i)
  BY Filled, ElementOfSeq DEF StreamInv
<1> DEFINE s == SubSeq(buf, m + 1, m + n)
<1>2. s \in Seq(Byte) /\ Len(s) = n /\ \A i \in 1..n : s[i] = buf[m + i]
  <2>1. m + 1 \in Int /\ m + n \in Int /\ \A i \in m + 1..m + n : buf[i] \in Byte
    BY <1>1
  <2>2. /\ s \in Seq(Byte)
        /\ Len(s) = IF m + 1 <= m + n THEN m + n - (m + 1) + 1 ELSE 0
        /\ \A i \in 1..m + n - (m + 1) + 1 : s[i] = buf[m + 1 + i - 1]
    BY ONLY <2>1, SubSeqProperties
  <2> QED BY <2>2
<1> HIDE DEF s
<1>3. \A i \in 1..n : s[i] = Status!ByteOf(Gone + m + i)
  <2> SUFFICES ASSUME NEW i \in 1..n PROVE s[i] = Status!ByteOf(Gone + m + i)
    OBVIOUS
  <2>1. m + i \in 1..Len(buf) /\ Gone + (m + i) = Gone + m + i
    BY <1>1 DEF StreamInv
  <2> QED BY <1>1, <1>2, <2>1
<1>4. s = [i \in 1..n |-> s[i]]
  BY <1>2, LenProperties
<1> QED BY <1>3, <1>4 DEF s

\* In step, a frame that is there is the next one the controller sent.
LEMMA FrameInStep ==
  ASSUME StreamInv, Whole, NEW k, AtFrame(k)
  PROVE  /\ Status!FrameLength = Size
         /\ Accepted
         /\ buf[3] = k
         /\ SubSeq(buf, 5, 4 + DataLen) = Payloads[k]
<1> DEFINE f == Status!FrameOf(k)
<1>1. k \in Nat \ {0} /\ k \in FrameNumbers /\ Gone = Size * (k - 1) /\ Gone \in Nat
  BY DEF AtFrame, FrameNumbers, StreamInv
<1>2. IsFrame(f, k)
  BY <1>1, FrameFacts
<1>3. \A i \in 1..Size : Status!ByteOf(Gone + i) = f[i]
  BY <1>1, ByteAt
<1> HIDE DEF f
<1>4. Len(buf) \in Nat /\ Len(buf) >= 4 /\ Size = DataLen + 5 /\ DataLen \in Nat
  BY Filled, StreamConstants DEF Whole
<1>5. buf[3] = k /\ buf[4] = DataLen
  <2>1. 3 \in 1..Len(buf) /\ 4 \in 1..Len(buf) /\ 3 \in 1..Size /\ 4 \in 1..Size
    BY <1>4
  <2>2. \A i \in 1..Len(buf) : buf[i] = Status!ByteOf(Gone + i)
    BY DEF StreamInv
  <2>3. buf[3] = f[3]
    BY ONLY <1>3, <2>1, <2>2
  <2>4. buf[4] = f[4]
    BY ONLY <1>3, <2>1, <2>2
  <2> QED BY <1>2, <2>3, <2>4 DEF IsFrame
<1>6. Status!FrameLength = Size
  BY <1>4, <1>5 DEF Status!FrameLength
<1>7. Len(buf) >= Size
  BY <1>6 DEF Whole
<1>8. buf[Size] = f[Size]
  <2>1. Size \in 1..Len(buf) /\ Size \in 1..Size
    BY <1>4, <1>7
  <2> QED BY <1>3, <2>1 DEF StreamInv
<1>9. SubSeq(buf, 1, Size - 1) = [i \in 1..Size - 1 |-> f[i]]
  <2>1. 0 \in Nat /\ Size - 1 \in Nat /\ 0 + (Size - 1) <= Len(buf)
    BY <1>4, <1>7
  <2>2. SubSeq(buf, 0 + 1, 0 + (Size - 1)) = [i \in 1..Size - 1 |-> Status!ByteOf(Gone + 0 + i)]
    BY <2>1, Prefix
  <2>3. \A i \in 1..Size - 1 : Gone + 0 + i = Gone + i /\ i \in 1..Size
    BY <1>1, <1>4
  <2>4. 0 + 1 = 1 /\ 0 + (Size - 1) = Size - 1
    BY <1>4
  <2> QED BY <1>3, <2>2, <2>3, <2>4
<1>10. Accepted
  BY <1>2, <1>5, <1>6, <1>8, <1>9 DEF Accepted, IsFrame
<1>11. SubSeq(buf, 5, 4 + DataLen) = [i \in 1..DataLen |-> f[4 + i]]
  <2>1. 4 + DataLen <= Len(buf)
    BY <1>4, <1>7
  <2>2. SubSeq(buf, 4 + 1, 4 + DataLen) = [i \in 1..DataLen |-> Status!ByteOf(Gone + 4 + i)]
    BY <1>4, <2>1, Prefix
  <2>3. \A i \in 1..DataLen : Gone + 4 + i = Gone + (4 + i) /\ 4 + i \in 1..Size
    BY <1>1, <1>4
  <2> QED BY <1>3, <2>2, <2>3
<1> QED BY <1>2, <1>5, <1>6, <1>10, <1>11 DEF IsFrame

\* Out of step, nothing passes for a frame.
LEMMA FrameOutOfStep ==
  ASSUME StreamInv, Whole, FalseHeader(Gone + 1)
  PROVE  ~Accepted /\ Status!FrameLength \in 0..Len(buf)
<1>1. /\ Len(buf) \in Nat /\ Len(buf) >= 4 /\ Size = DataLen + 5 /\ DataLen \in Nat
      /\ Gone \in Nat /\ Len(stream) \in Nat /\ Size * sent \in Nat
      /\ Gone + Len(buf) + Len(stream) = Size * sent /\ Size * sent <= Size * Len(Payloads)
  BY Filled, StreamConstants DEF Whole, StreamInv
<1>2. buf[4] = Status!ByteOf(Gone + 4) /\ Gone + 4 = (Gone + 1) + 3
  <2>1. 4 \in 1..Len(buf)
    BY <1>1
  <2> QED BY <1>1, <2>1 DEF StreamInv
<1>3. CASE Status!ByteOf((Gone + 1) + 3) \in Nat \ {DataLen}
  <2>1. buf[4] \in Nat \ {DataLen}
    BY <1>2, <1>3
  <2>2. Status!FrameLength \in Nat /\ Status!FrameLength <= Len(buf)
    <3>1. Status!FrameLength = 4 + buf[4] + 1 /\ Len(buf) >= Status!FrameLength
      BY DEF Status!FrameLength, Whole
    <3>2. buf[4] \in Nat
      BY <2>1
    <3> QED BY ONLY <1>1, <3>1, <3>2
  <2>3. Status!FrameLength \in 0..Len(buf)
    BY <1>1, <2>2
  <2> QED BY <2>1, <2>3 DEF Accepted
<1>4. CASE /\ Status!ByteOf((Gone + 1) + 3) = DataLen
           /\ (Gone + 1) + Size - 1 <= Size * Len(Payloads) =>
                Status!ByteOf((Gone + 1) + Size - 1)
                  # Status!Checksum([i \in 1..Size - 1 |-> Status!ByteOf((Gone + 1) - 1 + i)])
  <2>1. buf[4] = DataLen
    BY <1>2, <1>4
  <2>2. Status!FrameLength = Size /\ Size <= Len(buf)
    BY <1>1, <2>1 DEF Status!FrameLength, Whole
  <2>3. (Gone + 1) + Size - 1 = Gone + Size /\ Size * Len(Payloads) \in Nat
    BY <1>1, StreamConstants
  <2>4. Gone + Size <= Size * Len(Payloads)
    BY <1>1, <2>2, <2>3
  <2>5. buf[Size] = Status!ByteOf(Gone + Size)
    <3>1. Size \in 1..Len(buf)
      BY <1>1, <2>2
    <3> QED BY <3>1 DEF StreamInv
  <2>6. SubSeq(buf, 1, Size - 1) = [i \in 1..Size - 1 |-> Status!ByteOf((Gone + 1) - 1 + i)]
    <3>1. 0 \in Nat /\ Size - 1 \in Nat /\ 0 + (Size - 1) <= Len(buf)
      BY <1>1, <2>2
    <3>2. SubSeq(buf, 0 + 1, 0 + (Size - 1)) = [i \in 1..Size - 1 |-> Status!ByteOf(Gone + 0 + i)]
      BY <3>1, Prefix
    <3>3. \A i \in 1..Size - 1 : Gone + 0 + i = (Gone + 1) - 1 + i
      BY <1>1
    <3>4. 0 + 1 = 1 /\ 0 + (Size - 1) = Size - 1
      BY <1>1
    <3> QED BY <3>2, <3>3, <3>4
  <2>7. Status!ByteOf(Gone + Size)
          # Status!Checksum([i \in 1..Size - 1 |-> Status!ByteOf((Gone + 1) - 1 + i)])
    BY <1>4, <2>3, <2>4
  <2>8. ~Accepted
    BY <2>2, <2>5, <2>6, <2>7 DEF Accepted
  <2> QED BY <1>1, <2>2, <2>8
<1> QED BY <1>3, <1>4 DEF FalseHeader
LEMMA TakeInStep ==
  ASSUME StepInv, Status!TakeFrame, NEW k, AtFrame(k),
         published # <<>> => k = published[Len(published)].count + 1
  PROVE  StepInv'
<1> DEFINE news == [count |-> k, data |-> Payloads[k]]
<1>1. /\ Status!FrameLength = Size
      /\ published' = Append(published, news)
      /\ buf' = SubSeq(buf, Size + 1, Len(buf))
      /\ UNCHANGED <<stream, sent, aligned, first>>
      /\ Size \in 0..Len(buf)
  <2>1. Whole
    BY TakeWhole DEF StepInv
  <2>2. /\ Status!FrameLength = Size /\ Accepted /\ buf[3] = k
        /\ SubSeq(buf, 5, 4 + DataLen) = Payloads[k]
    BY <2>1, FrameInStep DEF StepInv
  <2>3. Size \in 0..Len(buf)
    BY <2>1, <2>2, Filled, StreamConstants DEF Whole, StepInv
  <2> QED BY <2>2, <2>3, TakeWhole DEF StepInv
<1>2. StreamInv' /\ Gone' = Gone + Size
  BY <1>1, CutOff DEF StepInv
<1>3. k \in Nat \ {0} /\ k \in FrameNumbers /\ Gone = Size * (k - 1) /\ news \in Told
  BY DEF AtFrame, FrameNumbers, Told
<1>4. Gone' = Size * k
  <2>1. Size * k = Size * (k - 1) + Size
    BY <1>3, StreamConstants
  <2> QED BY <1>2, <1>3, <2>1
<1> DEFINE n == Len(published)
<1>5. published \in Seq(Told) /\ n \in Nat
  BY LenProperties DEF StepInv, PublishedInv
<1> HIDE DEF news
<1>6. /\ published' \in Seq(Told) /\ Len(published') = n + 1 /\ published' # <<>>
      /\ \A i \in 1..n : published'[i] = published[i]
      /\ published'[n + 1] = news
  BY ONLY <1>1, <1>3, <1>5, AppendProperties
<1>7. news.count = k
  BY DEF news
<1>8. \A i \in 1..Len(published') : published'[i].count = published'[1].count + i - 1
  <2>1. CASE published = <<>>
    <3>1. n = 0
      BY <2>1
    <3>2. \A i \in 1..Len(published') : i = 1
      BY <1>6, <3>1
    <3>3. published'[1].count \in Nat
      BY <1>3, <1>6, <1>7, <3>1
    <3> QED BY <3>2, <3>3
  <2>2. CASE published # <<>>
    <3>1. n \in Nat \ {0}
      BY <1>5, <2>2, EmptySeq
    <3>2. k = published[n].count + 1 /\ published[n].count = published[1].count + n - 1
      BY <2>2, <3>1 DEF StepInv, PublishedInv
    <3>3. published[1].count \in Nat
      <4>1. published[1] \in Told
        BY <1>5, <3>1, ElementOfSeq
      <4> QED BY <4>1 DEF Told, FrameNumbers
    <3>4. published'[1].count = published[1].count
      BY <1>6, <3>1
    <3>5. published'[n + 1].count = published'[1].count + (n + 1) - 1
      BY <1>5, <1>6, <1>7, <3>2, <3>3, <3>4
    <3>6. \A i \in 1..n : published'[i].count = published'[1].count + i - 1
      BY <1>6, <3>4 DEF StepInv, PublishedInv
    <3>7. \A i \in 1..Len(published') : i \in 1..n \/ i = n + 1
      BY <1>5, <1>6
    <3> QED BY <3>5, <3>6, <3>7
  <2> QED BY <2>1, <2>2
<1>9. PublishedInv'
  BY <1>6, <1>8 DEF PublishedInv
<1>10. BetweenFrames'
  BY <1>1, <1>4, <1>6, <1>7 DEF StepInv, BetweenFrames
<1> QED BY <1>2, <1>9, <1>10 DEF StepInv

LEMMA TakeOutOfStep ==
  ASSUME StepInv, Status!TakeFrame, FalseHeader(Gone + 1), published = <<>>, ~aligned
  PROVE  StepInv'
<1>1. Whole
  BY TakeWhole DEF StepInv
<1>2. ~Accepted /\ Status!FrameLength \in 0..Len(buf)
  BY <1>1, FrameOutOfStep DEF StepInv
<1>3. /\ published' = published
      /\ buf' = SubSeq(buf, Status!FrameLength + 1, Len(buf))
      /\ UNCHANGED <<stream, sent, aligned, first>>
  BY <1>2, TakeWhole DEF StepInv
<1>4. StreamInv'
  BY <1>2, <1>3, CutOff DEF StepInv
<1> QED BY <1>3, <1>4 DEF StepInv, PublishedInv, BetweenFrames

LEMMA TakeKeeps ==
  ASSUME StepInv, FramesTellThemselves, Status!TakeFrame
  PROVE  StepInv'
<1>1. Whole /\ Len(buf) \in Nat /\ Len(stream) \in Nat /\ Len(buf) >= 4
  BY TakeWhole, Filled DEF StepInv, Whole
<1>2. CASE published # <<>> \/ aligned
  <2>1. Len(buf) + Len(stream) > 0
    BY <1>1
  <2> QED BY <1>2, <2>1, KnownPlace, TakeInStep
<1>3. CASE published = <<>> /\ ~aligned
  <2> DEFINE p == Gone + 1
  <2>1. ~(Cuts \subseteq {0})
    BY <1>3 DEF StepInv, BetweenFrames
  <2>2. /\ Gone \in Nat /\ Gone + Len(buf) + Len(stream) = Size * sent
        /\ Size * sent <= Size * Len(Payloads)
        /\ Size * sent \in Nat /\ Size * Len(Payloads) \in Nat /\ Size \in Nat \ {0}
    BY Filled, StreamConstants DEF StepInv, StreamInv
  <2>3. p \in 1..Size * Len(Payloads) - 3
    BY <1>1, <2>2
  <2>4. Status!ByteOf(p) = Status!H /\ Status!ByteOf(p + 1) = Status!H
    <3>1. 1 \in 1..Len(buf) /\ 2 \in 1..Len(buf) /\ p + 1 = Gone + 2
      BY <1>1, <2>2
    <3>2. Status!ByteOf(Gone + 1) = buf[1] /\ Status!ByteOf(Gone + 2) = buf[2]
      BY <3>1 DEF StepInv, StreamInv
    <3> QED BY <1>1, <3>1, <3>2 DEF Whole
  <2>5. (p - 1) % Size = 0 \/ FalseHeader(p)
    BY <2>1, <2>3, <2>4 DEF FramesTellThemselves
  <2>6. CASE (p - 1) % Size = 0
    <3>1. Gone % Size = 0
      BY <2>2, <2>6
    <3>2. Gone \div Size \in Nat /\ Gone = Size * (Gone \div Size) + (Gone % Size)
      BY <2>2, DivMod
    <3> DEFINE k == (Gone \div Size) + 1
    <3>3. k \in Nat \ {0} /\ Gone = Size * (k - 1)
      BY <2>2, <3>1, <3>2
    <3>4. Len(buf) + Len(stream) > 0
      BY <1>1
    <3>5. AtFrame(k)
      BY <3>3, <3>4, FrameAhead DEF StepInv
    <3> QED BY <1>3, <3>5, TakeInStep
  <2>7. CASE FalseHeader(p)
    BY <1>3, <2>7, TakeOutOfStep
  <2> QED BY <2>5, <2>6, <2>7
<1> QED BY <1>2, <1>3

\* Every step, by what it does to buffer and connection.
streamVars == <<buf, stream, sent, published, first, aligned>>

LEMMA StreamSteps ==
  ASSUME [Next]_vars
  PROVE  \/ UNCHANGED streamVars
         \/ \E cut \in Cuts : Status!DialSucceeds(cut)
         \/ Status!RecvChunk \/ Status!Resync \/ Status!TakeFrame \/ Status!PushFrame
<1> USE DEF streamVars, Status!connectionVars, Status!threadVars
<1>1. CASE StatusAlone
  BY <1>1 DEF StatusAlone, statusVars
<1>2. CASE ListenerThread
  <2>1. CASE \/ Status!EnterRun \/ Status!TryConnect \/ Status!DialFails \/ Status!LoopRun
             \/ Status!LoadSock \/ Status!RecvTimesOut \/ Status!RecvFails \/ Status!CloseInRun
             \/ Status!Drained
    BY <2>1 DEF Status!EnterRun, Status!TryConnect, Status!DialFails, Status!LoopRun,
       Status!LoadSock, Status!RecvTimesOut, Status!RecvFails, Status!CloseInRun, Status!Drained
  <2> QED BY <1>2, <2>1 DEF ListenerThread, Status!ThreadStep
<1>3. CASE StopListener
  BY <1>3 DEF StopListener, Status!StopStep, Status!Stop, Status!CloseInStop, Status!Destroy
<1>4. CASE PushFrame \/ PeerCloses
  BY <1>4 DEF PushFrame, PeerCloses, Status!PeerCloses
<1> QED BY <1>1, <1>2, <1>3, <1>4, StatusOrNot DEF StatusStep

LEMMA StepKept ==
  ASSUME StepInv, FramesTellThemselves, [Next]_vars
  PROVE  StepInv'
<1>1. CASE UNCHANGED streamVars
  BY <1>1 DEF streamVars, StepInv, StreamInv, PublishedInv, BetweenFrames, Gone
<1>2. ASSUME NEW cut \in Cuts, Status!DialSucceeds(cut) PROVE StepInv'
  <2>1. StreamInv' /\ Gone' = Size * sent + cut
    BY <1>2, DialKeeps DEF StepInv
  <2>2. published' = <<>> /\ (aligned' <=> cut = 0) /\ first' = sent + 1
    BY <1>2 DEF Status!DialSucceeds
  <2>3. PublishedInv'
    <3>1. Len(<<>>) = 0 /\ <<>> \in Seq(Told)
      BY EmptySeq
    <3> QED BY <2>2, <3>1 DEF PublishedInv
  <2>4. sent \in Nat /\ Size * sent \in Nat
    BY Filled DEF StepInv
  <2>5. aligned' => Gone' = Size * (first' - 1) /\ first' \in Nat \ {0}
    <3> SUFFICES ASSUME cut = 0 PROVE Gone' = Size * (first' - 1) /\ first' \in Nat \ {0}
      BY <2>2
    <3>1. first' \in Nat \ {0} /\ first' - 1 = sent
      BY <2>2, <2>4
    <3>2. Gone' = Size * sent
      <4>1. Gone' = Size * sent + 0
        BY <2>1
      <4> QED BY <2>4, <4>1
    <3> QED BY ONLY <3>1, <3>2
  <2> QED BY <1>2, <2>1, <2>2, <2>3, <2>5 DEF StepInv, BetweenFrames
<1>3. CASE Status!RecvChunk
  <2>1. StreamInv' /\ Gone' = Gone
    BY <1>3, ChunkKeeps DEF StepInv
  <2>2. UNCHANGED <<published, aligned, first>>
    BY <1>3 DEF Status!RecvChunk
  <2> QED BY <2>1, <2>2 DEF StepInv, PublishedInv, BetweenFrames
<1>4. CASE Status!Resync
  BY <1>4, ResyncKeeps
<1>5. CASE Status!TakeFrame
  BY <1>5, TakeKeeps
<1>6. CASE Status!PushFrame
  <2>1. StreamInv' /\ Gone' = Gone
    BY <1>6, PushKeeps DEF StepInv
  <2>2. UNCHANGED <<published, aligned, first>>
    BY <1>6 DEF Status!PushFrame, Status!threadVars
  <2> QED BY <2>1, <2>2 DEF StepInv, PublishedInv, BetweenFrames
<1> QED BY <1>1, <1>2, <1>3, <1>4, <1>5, <1>6, StreamSteps

\* What is not yet cut off, as one sequence.
LEMMA Ahead ==
  ASSUME StreamInv, NEW k \in Nat, Gone = Size * k
  PROVE  buf \o stream = Status!BytesFrom(k + 1)
<1>1. /\ Len(buf) \in Nat /\ Len(stream) \in Nat /\ Gone \in Nat /\ sent \in Nat
      /\ Gone + Len(buf) + Len(stream) = Size * sent /\ Size \in Nat
      /\ buf \in Seq(Byte) /\ stream \in Seq(Byte)
  BY Filled, StreamConstants DEF StreamInv
<1> DEFINE whole == buf \o stream
<1>2. /\ whole \in Seq(Byte) /\ Len(whole) = Len(buf) + Len(stream)
      /\ \A i \in 1..Len(buf) + Len(stream) :
           whole[i] = IF i <= Len(buf) THEN buf[i] ELSE stream[i - Len(buf)]
  BY ONLY <1>1, ConcatProperties
<1> HIDE DEF whole
<1>3. Len(whole) = Size * (sent - (k + 1) + 1)
  <2>1. sent - (k + 1) + 1 = sent - k
    BY <1>1
  <2>2. Size * (sent - k) = Size * sent - Size * k
    BY <1>1
  <2>3. Len(whole) = Size * sent - Size * k
    <3>1. Size * k \in Nat /\ Size * sent \in Nat
      BY <1>1
    <3> QED BY <1>1, <1>2, <3>1
  <2> QED BY <2>1, <2>2, <2>3
<1>4. \A i \in 1..Len(whole) : whole[i] = Status!ByteOf(Gone + i)
  <2> SUFFICES ASSUME NEW i \in 1..Len(whole) PROVE whole[i] = Status!ByteOf(Gone + i)
    OBVIOUS
  <2>1. CASE i <= Len(buf)
    BY <1>1, <1>2, <2>1 DEF StreamInv
  <2>2. CASE ~(i <= Len(buf))
    <3>1. i - Len(buf) \in 1..Len(stream) /\ Gone + Len(buf) + (i - Len(buf)) = Gone + i
      BY <1>1, <1>2, <2>2
    <3> QED BY <1>2, <2>2, <3>1 DEF StreamInv
  <2> QED BY <2>1, <2>2
<1>5. Size * ((k + 1) - 1) = Gone
  <2>1. (k + 1) - 1 = k
    OBVIOUS
  <2> QED BY <2>1
<1>6. whole = [i \in 1..Len(whole) |-> whole[i]]
  BY <1>2, LenProperties
<1>7. Status!BytesFrom(k + 1) = [i \in 1..Len(whole) |-> Status!ByteOf(Gone + i)]
  BY <1>3, <1>5 DEF Status!BytesFrom, Size
<1> QED BY <1>4, <1>6, <1>7 DEF whole

LEMMA StepImplies == StepInv => InStep
<1> SUFFICES ASSUME StepInv PROVE Status!InStep
  BY DEF InStep
<1>1. \A i \in 1..Len(published) :
        /\ published[i].count = published[1].count + i - 1
        /\ published[i].data = Payloads[published[i].count]
  <2> SUFFICES ASSUME NEW i \in 1..Len(published)
               PROVE  published[i].data = Payloads[published[i].count]
    BY DEF StepInv, PublishedInv
  <2>1. published[i] \in Told
    BY ElementOfSeq DEF StepInv, PublishedInv
  <2> QED BY <2>1 DEF Told
<1>2. ASSUME published # <<>>
      PROVE  buf \o stream = Status!BytesFrom(published[Len(published)].count + 1)
  <2>1. Len(published) \in 1..Len(published)
    BY <1>2, EmptySeq DEF StepInv, PublishedInv
  <2>2. published[Len(published)] \in Told
    BY <2>1, ElementOfSeq DEF StepInv, PublishedInv
  <2>3. published[Len(published)].count \in Nat
    BY <2>2 DEF Told, FrameNumbers
  <2> QED BY <1>2, <2>3, Ahead DEF StepInv, BetweenFrames
<1>3. ASSUME published = <<>>, aligned
      PROVE  buf \o stream = Status!BytesFrom(first)
  <2>1. first - 1 \in Nat /\ (first - 1) + 1 = first /\ Gone = Size * (first - 1)
    BY <1>3 DEF StepInv, BetweenFrames
  <2>2. buf \o stream = Status!BytesFrom((first - 1) + 1)
    BY <2>1, Ahead DEF StepInv
  <2> QED BY <2>1, <2>2
<1> QED BY <1>1, <1>2, <1>3 DEF Status!InStep

\* The listener publishes frames the controller sent, each once and without
\* gaps, and from the first one on it stays in step, for every sequence of
\* frames and every way recv() cuts the stream and connections come and go
\* (fairino_8083_listener.py, _drain_frames()): as long as nothing but a frame
\* passes for one, or connections begin with whole frames.
THEOREM StaysInStep == FramesTellThemselves /\ Spec => []InStep
<1> SUFFICES ASSUME FramesTellThemselves PROVE Spec => []InStep
  OBVIOUS
<1>1. Init => StepInv
  BY StepInitially
<1>2. StepInv /\ [Next]_vars => StepInv'
  BY StepKept
<1>3. StepInv => InStep
  BY StepImplies
<1> QED BY <1>1, <1>2, <1>3, PTL DEF Spec

-----------------------------------------------------------------------------
(* The types.                                                              *)

\* What the timers of the command server publish.
Sample == [pose : Poses \cup {Blank}, flag : {0, 1}]

ServoTyped ==
  /\ arm \in Poses
  /\ life \in {"unconfigured", "inactive", "active", "finalized", "crashed"}
  /\ state \in Poses /\ command \in Poses
  /\ notFinite \in {{}, {"checked"}, {"last"}}
  /\ phase \in {"read", "update", "write"}

\* The constructor gives up at the last try, so tries never passes it.
FeedbackTyped ==
  /\ server \in {"connecting", "idle", "pinging", "exited"}
  /\ tries \in 0..ConnectRetry
  /\ server = "connecting" => tries < ConnectRetry
  /\ sdkPose \in Poses
  /\ stateQ \in Seq(Sample) /\ Len(stateQ) <= Depth
  /\ heard \in Sample

SharedTyped ==
  /\ inbox \in Seq(Poses) /\ Len(inbox) <= InboxSize
  /\ frame \in Poses
  /\ shm \in Poses \X Poses
  /\ snapshot \in Poses \X Poses

StatusTyped ==
  /\ sock \in {"none", "open", "closed"}
  /\ sent \in 0..Len(Payloads)

TwinTyped ==
  /\ wire \in Seq(Poses) /\ Len(wire) <= WireSize
  /\ rest \in Seq(Poses) /\ Len(rest) <= MaxBacklog
  /\ latest \in Poses \cup {NoData} /\ shown \in Poses \cup {NoData}

TypeInv == ServoTyped /\ FeedbackTyped /\ SharedTyped /\ StatusTyped /\ TwinTyped

FeedbackAlone == UNCHANGED feedbackVars
TwinAlone == UNCHANGED twinVars

LEMMA FeedbackOrNot ==
  ASSUME [Next]_vars
  PROVE  FeedbackStep \/ FeedbackAlone
<1>1. CASE MoveArm \/ NetworkFails \/ NetworkReturns
  BY <1>1 DEF MoveArm, NetworkFails, NetworkReturns, FeedbackAlone
<1>2. CASE ServoStep
  BY <1>2 DEF ServoStep, FeedbackAlone
<1>3. CASE SharedStep
  BY <1>3 DEF SharedStep, WriterStep, Handshake, OpenShared, Receive, Copy, PostWriter,
     StartWriter, SendFrame, WaitReader, ReadHalf, PostReader, Kill, SharedOnly, FeedbackAlone
<1>4. CASE StatusStep
  BY <1>4 DEF StatusStep, ListenerThread, StopListener, PushFrame, PeerCloses, StatusOnly,
     FeedbackAlone
<1>5. CASE TwinStep
  BY <1>5 DEF TwinStep, TwinConnects, TwinError, ParseFrame, PublishLatest, PushState,
     SilentCut, TwinOnly, FeedbackAlone
<1>6. CASE UNCHANGED vars
  BY <1>6 DEF vars, FeedbackAlone
<1> QED BY <1>1, <1>2, <1>3, <1>4, <1>5, <1>6 DEF Next

LEMMA TwinOrNot ==
  ASSUME [Next]_vars
  PROVE  TwinStep \/ TwinAlone
<1>1. CASE MoveArm \/ NetworkFails \/ NetworkReturns
  BY <1>1 DEF MoveArm, NetworkFails, NetworkReturns, TwinAlone
<1>2. CASE ServoStep
  BY <1>2 DEF ServoStep, TwinAlone
<1>3. CASE FeedbackStep
  BY <1>3 DEF FeedbackStep, ConnectServer, StateTimer, PingTimer, PingAnswered, PingLost,
     Hear, SdkReceives, SdkNotices, FeedbackOnly, TwinAlone
<1>4. CASE SharedStep
  BY <1>4 DEF SharedStep, WriterStep, Handshake, OpenShared, Receive, Copy, PostWriter,
     StartWriter, SendFrame, WaitReader, ReadHalf, PostReader, Kill, SharedOnly, TwinAlone
<1>5. CASE StatusStep
  BY <1>5 DEF StatusStep, ListenerThread, StopListener, PushFrame, PeerCloses, StatusOnly,
     TwinAlone
<1>6. CASE UNCHANGED vars
  BY <1>6 DEF vars, TwinAlone
<1> QED BY <1>1, <1>2, <1>3, <1>4, <1>5, <1>6 DEF Next

LEMMA TypedInitially == Init => TypeInv
<1> SUFFICES ASSUME Init PROVE TypeInv
  OBVIOUS
<1>1. arm \in Poses /\ 0 \in Poses
  BY LinksAssumption DEF Init
<1>2. ServoTyped
  BY <1>1 DEF Init, Servo!HardwareInit, ServoTyped
<1>3. FeedbackTyped
  BY <1>1, LinksAssumption, EmptySeq DEF Init, Feedback!FeedbackInit, FeedbackTyped, Sample
<1>4. SharedTyped
  BY <1>1, LinksAssumption, EmptySeq DEF Init, Shared!SharedInit, SharedTyped
<1>5. StatusTyped
  BY StreamConstants DEF Init, Status!ListenerInit, StatusTyped
<1>6. TwinTyped
  BY LinksAssumption, EmptySeq DEF Init, Twin!TwinInit, TwinTyped
<1> QED BY <1>2, <1>3, <1>4, <1>5, <1>6 DEF TypeInv

LEMMA ServoTypes ==
  ASSUME TypeInv, [Next]_vars
  PROVE  ServoTyped'
<1> USE DEF TypeInv, ServoTyped
<1>1. CASE MoveArm \/ NetworkFails \/ NetworkReturns
  BY <1>1 DEF MoveArm, NetworkFails, NetworkReturns, servoVars
<1>2. CASE ServoStep
  <2>1. ASSUME NEW rpcOk \in BOOLEAN, NEW poseOk \in BOOLEAN, Servo!Activate(rpcOk, poseOk)
        PROVE  ServoTyped'
    BY <2>1, LinksAssumption DEF Servo!Activate
  <2>2. CASE Servo!Deactivate \/ Servo!NullCall
    BY <2>2 DEF Servo!Deactivate, Servo!NullCall
  <2>3. ASSUME NEW ok \in BOOLEAN, Servo!Read(ok) PROVE ServoTyped'
    BY <2>3 DEF Servo!Read
  <2>4. CASE Servo!Update(MaxStep)
    BY <2>4 DEF Servo!Update
  <2>5. ASSUME NEW accepted \in BOOLEAN, Servo!Write(accepted) PROVE ServoTyped'
    BY <2>5 DEF Servo!Write
  <2> QED BY <1>2, <2>1, <2>2, <2>3, <2>4, <2>5 DEF ServoStep
<1>3. CASE UNCHANGED <<arm, servoVars>>
  BY <1>3 DEF servoVars
<1>4. CASE FeedbackStep \/ SharedStep \/ StatusStep \/ TwinStep
  BY <1>3, <1>4 DEF FeedbackStep, ConnectServer, StateTimer, PingTimer, PingAnswered, PingLost,
     Hear, SdkReceives, SdkNotices, FeedbackOnly,
     SharedStep, WriterStep, Handshake, OpenShared, Receive, Copy, PostWriter,
     StartWriter, SendFrame, WaitReader, ReadHalf, PostReader, Kill, SharedOnly,
     StatusStep, ListenerThread, StopListener, PushFrame, PeerCloses, StatusOnly,
     TwinStep, TwinConnects, TwinError, ParseFrame, PublishLatest, PushState, SilentCut, TwinOnly
<1>5. CASE UNCHANGED vars
  BY <1>3, <1>5 DEF vars, controllerVars
<1> QED BY <1>1, <1>2, <1>4, <1>5 DEF Next

\* What a timer publishes is a sample, and the queue keeps to its depth.
LEMMA SendTypes ==
  ASSUME FeedbackTyped, NEW pose \in Poses \cup {Blank}, NEW isDown \in {0, 1},
         Feedback!Send(pose, isDown)
  PROVE  stateQ' \in Seq(Sample) /\ Len(stateQ') <= Depth
<1>1. [pose |-> pose, flag |-> isDown] \in Sample
  BY DEF Sample
<1>2. Depth \in Nat \ {0} /\ stateQ \in Seq(Sample) /\ Len(stateQ) <= Depth
  BY LinksAssumption DEF FeedbackTyped
<1>3. stateQ' = Feedback!Publish(stateQ, [pose |-> pose, flag |-> isDown], Depth)
  BY DEF Feedback!Send
<1>4. stateQ' = Publish(stateQ, [pose |-> pose, flag |-> isDown], Depth)
  BY <1>3 DEF Feedback!Publish, Publish
<1> HIDE DEF Sample
<1> QED BY <1>1, <1>2, <1>4, PublishType

LEMMA FeedbackTypes ==
  ASSUME TypeInv, FeedbackStep
  PROVE  FeedbackTyped'
<1>1. FeedbackTyped /\ arm \in Poses
  BY DEF TypeInv, ServoTyped
<1>2. ASSUME NEW up, Feedback!Connect(up, arm) PROVE FeedbackTyped'
  BY <1>1, <1>2, LinksAssumption DEF FeedbackTyped, Feedback!Connect
<1>3. CASE Feedback!StateTimer
  <2>1. stateQ' \in Seq(Sample) /\ Len(stateQ') <= Depth
    BY <1>1, <1>3, SendTypes, LinksAssumption DEF FeedbackTyped, Feedback!StateTimer
  <2> QED BY <1>1, <1>3, <2>1 DEF FeedbackTyped, Feedback!StateTimer
<1>4. CASE Feedback!PingTimer
  BY <1>1, <1>4 DEF FeedbackTyped, Feedback!PingTimer
<1>5. ASSUME NEW answered, Feedback!PingAnswered(answered) PROVE FeedbackTyped'
  <2>1. stateQ' \in Seq(Sample) /\ Len(stateQ') <= Depth
    BY <1>1, <1>5, SendTypes DEF FeedbackTyped, Feedback!PingAnswered
  <2> QED BY <1>1, <1>5, <2>1 DEF FeedbackTyped, Feedback!PingAnswered
<1>6. CASE Feedback!Hear
  <2>1. stateQ \in Seq(Sample) /\ stateQ # <<>> /\ Len(stateQ) <= Depth /\ Depth \in Nat
    BY <1>1, <1>6, LinksAssumption DEF FeedbackTyped, Feedback!Hear
  <2>2. /\ Head(stateQ) \in Sample /\ Tail(stateQ) \in Seq(Sample)
        /\ Len(Tail(stateQ)) = Len(stateQ) - 1 /\ Len(stateQ) \in Nat
    BY <2>1, DeliverType, LenProperties
  <2>3. heard' \in Sample /\ stateQ' \in Seq(Sample) /\ Len(stateQ') <= Depth
    BY <1>6, <2>1, <2>2 DEF Feedback!Hear
  <2> QED BY <1>1, <1>6, <2>3 DEF FeedbackTyped, Feedback!Hear
<1>7. CASE Feedback!SdkReceives(arm) \/ Feedback!SdkNotices
  BY <1>1, <1>7 DEF FeedbackTyped, Feedback!SdkReceives, Feedback!SdkNotices
<1> QED BY <1>2, <1>3, <1>4, <1>5, <1>6, <1>7 DEF FeedbackStep, ConnectServer, StateTimer,
   PingTimer, PingAnswered, PingLost, Hear, SdkReceives, SdkNotices

LEMMA SharedTypes ==
  ASSUME TypeInv, SharedStep
  PROVE  SharedTyped'
<1> USE DEF SharedTyped, Shared!readerVars, Shared!writerVars, Shared!streamVars
<1>1. SharedTyped /\ arm \in Poses /\ 0 \in Poses /\ InboxSize \in Nat
  BY LinksAssumption DEF TypeInv, ServoTyped
<1>2. ASSUME thread = "receive", inbox # <<>>, inbox' = Tail(inbox), frame' = Head(inbox)
      PROVE  inbox' \in Seq(Poses) /\ Len(inbox') <= InboxSize /\ frame' \in Poses
  <2>1. Head(inbox) \in Poses /\ Tail(inbox) \in Seq(Poses) /\ Len(Tail(inbox)) = Len(inbox) - 1
        /\ Len(inbox) \in Nat
    BY <1>1, <1>2, DeliverType, LenProperties
  <2> QED BY <1>1, <1>2, <2>1
<1>3. CASE Handshake
  BY <1>1, <1>3 DEF Handshake, Shared!SendStop, Shared!SendConfig, Shared!SendStart, Shared!Request
<1>4. CASE OpenShared \/ PostWriter \/ StartWriter
  BY <1>1, <1>4 DEF OpenShared, PostWriter, StartWriter, Shared!OpenShared, Shared!PostWriter,
     Shared!StartWriter
<1>5. CASE Receive
  BY <1>1, <1>2, <1>5 DEF Receive, Shared!Receive
<1>6. CASE Copy
  BY <1>1, <1>6 DEF Copy, Shared!Copy
<1>7. CASE SendFrame
  <2>1. Append(inbox, arm) \in Seq(Poses) /\ Len(Append(inbox, arm)) = Len(inbox) + 1
        /\ Len(inbox) \in Nat
    BY <1>1, AppendProperties, LenProperties
  <2> QED BY <1>1, <1>7, <2>1 DEF SendFrame, Shared!SendFrame
<1>8. CASE WaitReader \/ PostReader
  BY <1>1, <1>8 DEF WaitReader, PostReader, Shared!WaitReader, Shared!PostReader
<1>9. CASE ReadHalf
  BY <1>1, <1>9 DEF ReadHalf, Shared!ReadHalf
<1>10. CASE Kill
  <2>1. <<>> \in Seq(Poses) /\ Len(<<>>) = 0
    BY EmptySeq
  <2>2. inbox' \in {inbox, <<>>} /\ UNCHANGED <<frame, shm, snapshot>>
    BY <1>10 DEF Kill, Shared!KillWriter, Shared!KillReader
  <2>3. inbox' \in Seq(Poses) /\ Len(inbox') <= InboxSize
    <3>1. CASE inbox' = inbox
      BY <1>1, <3>1
    <3>2. CASE inbox' = <<>>
      <4>1. inbox' \in Seq(Poses) /\ Len(inbox') = 0
        BY ONLY <2>1, <3>2
      <4> QED BY <1>1, <4>1
    <3> QED BY <2>2, <3>1, <3>2
  <2> QED BY <1>1, <2>2, <2>3
<1> QED BY <1>3, <1>4, <1>5, <1>6, <1>7, <1>8, <1>9, <1>10 DEF SharedStep, WriterStep

LEMMA StatusTypes ==
  ASSUME TypeInv, StatusStep
  PROVE  StatusTyped'
<1> USE DEF StatusTyped, Status!connectionVars, Status!threadVars
<1>1. StatusTyped /\ Len(Payloads) \in Nat
  BY StreamConstants DEF TypeInv
<1>2. ASSUME NEW cut \in Cuts, Status!DialSucceeds(cut) PROVE StatusTyped'
  BY <1>1, <1>2 DEF Status!DialSucceeds
<1>3. CASE Status!EnterRun \/ Status!TryConnect \/ Status!DialFails \/ Status!LoopRun
           \/ Status!LoadSock \/ Status!RecvTimesOut \/ Status!RecvFails \/ Status!Drained
  BY <1>1, <1>3 DEF Status!EnterRun, Status!TryConnect, Status!DialFails, Status!LoopRun,
     Status!LoadSock, Status!RecvTimesOut, Status!RecvFails, Status!Drained
<1>4. CASE Status!RecvChunk \/ Status!Resync \/ Status!TakeFrame
  BY <1>1, <1>4 DEF Status!RecvChunk, Status!Resync, Status!TakeFrame
<1>5. CASE Status!CloseInRun \/ Status!CloseInStop
  BY <1>1, <1>5 DEF Status!CloseInRun, Status!CloseInStop, Status!SockAfterClose
<1>6. CASE Status!Stop \/ Status!Destroy
  BY <1>1, <1>6 DEF Status!Stop, Status!Destroy
<1>7. CASE Status!PushFrame \/ Status!PeerCloses
  BY <1>1, <1>7 DEF Status!PushFrame, Status!PeerCloses
<1> QED BY <1>2, <1>3, <1>4, <1>5, <1>6, <1>7 DEF StatusStep, ListenerThread, StopListener,
   PushFrame, PeerCloses, Status!ThreadStep, Status!StopStep

LEMMA TwinTypes ==
  ASSUME TypeInv, TwinStep
  PROVE  TwinTyped'
<1> USE DEF TwinTyped
<1>1. /\ TwinTyped /\ arm \in Poses /\ WireSize \in Nat /\ MaxBacklog \in Nat \ {0}
      /\ <<>> \in Seq(Poses) /\ Len(<<>>) = 0
  BY LinksAssumption, EmptySeq DEF TypeInv, ServoTyped
<1>2. CASE TwinConnects
  BY <1>1, <1>2 DEF TwinConnects, Twin!ConnectSocket
<1>3. CASE TwinError
  BY <1>1, <1>3 DEF TwinError, Twin!SocketError
<1>4. CASE Twin!ParseFrame
  <2>1. PICK n \in 1..Len(wire) :
          LET bytes == rest \o SubSeq(wire, 1, n)
          IN /\ Len(bytes) - 2 <= MaxBacklog
             /\ wire' = SubSeq(wire, n + 1, Len(wire))
             /\ rest' = IF Len(bytes) < 2 THEN bytes ELSE SubSeq(bytes, 3, Len(bytes))
             /\ latest' = IF Len(bytes) < 2 THEN latest ELSE bytes[1]
    BY <1>4 DEF Twin!ParseFrame
  <2> DEFINE part == SubSeq(wire, 1, n)
             bytes == rest \o part
  <2>2. wire \in Seq(Poses) /\ rest \in Seq(Poses) /\ Len(wire) \in Nat /\ Len(rest) \in Nat
        /\ Len(wire) <= WireSize
    BY <1>1, LenProperties
  <2>3. part \in Seq(Poses)
    BY <2>2, SubSeqProperties
  <2>4. wire' \in Seq(Poses) /\ Len(wire') <= WireSize
    <3>1. /\ SubSeq(wire, n + 1, Len(wire)) \in Seq(Poses)
          /\ Len(SubSeq(wire, n + 1, Len(wire))) =
               IF n + 1 <= Len(wire) THEN Len(wire) - (n + 1) + 1 ELSE 0
      BY <2>2, SubSeqProperties
    <3> QED BY <1>1, <2>1, <2>2, <3>1
  <2> HIDE DEF part
  <2>5. bytes \in Seq(Poses)
    BY <2>2, <2>3, ConcatProperties
  <2>6. /\ Len(bytes) - 2 <= MaxBacklog
        /\ rest' = IF Len(bytes) < 2 THEN bytes ELSE SubSeq(bytes, 3, Len(bytes))
        /\ latest' = IF Len(bytes) < 2 THEN latest ELSE bytes[1]
    BY <2>1 DEF part
  <2> HIDE DEF bytes
  <2>7. Len(bytes) \in Nat
    BY <2>5, LenProperties
  <2>8. CASE Len(bytes) < 2
    <3>1. rest' \in Seq(Poses) /\ Len(rest') <= MaxBacklog /\ latest' = latest
      BY <1>1, <2>5, <2>6, <2>7, <2>8
    <3> QED BY <1>1, <1>4, <2>4, <3>1 DEF Twin!ParseFrame
  <2>9. CASE ~(Len(bytes) < 2)
    <3>1. /\ SubSeq(bytes, 3, Len(bytes)) \in Seq(Poses)
          /\ Len(SubSeq(bytes, 3, Len(bytes))) = IF 3 <= Len(bytes) THEN Len(bytes) - 3 + 1 ELSE 0
      BY <2>5, <2>7, SubSeqProperties
    <3>2. bytes[1] \in Poses
      BY <2>5, <2>7, <2>9, ElementOfSeq
    <3>3. rest' \in Seq(Poses) /\ Len(rest') <= MaxBacklog /\ latest' \in Poses
      BY <1>1, <2>6, <2>7, <2>9, <3>1, <3>2
    <3> QED BY <1>1, <1>4, <2>4, <3>3 DEF Twin!ParseFrame
  <2> QED BY <2>8, <2>9
<1>5. CASE PublishLatest
  BY <1>1, <1>5 DEF PublishLatest, Twin!PublishLatest
<1>6. CASE Twin!PushState(arm)
  <2>1. <<arm, arm>> \in Seq(Poses) /\ Len(<<arm, arm>>) = 2
    BY <1>1
  <2>2. wire \o <<arm, arm>> \in Seq(Poses) /\ Len(wire \o <<arm, arm>>) = Len(wire) + 2
    BY <1>1, <2>1, ConcatProperties
  <2> QED BY <1>1, <1>6, <2>2 DEF Twin!PushState
<1>7. CASE SilentCut
  BY <1>1, <1>7 DEF SilentCut, Twin!SilentCut
<1> QED BY <1>2, <1>3, <1>4, <1>5, <1>6, <1>7 DEF TwinStep, ParseFrame, PushState

LEMMA TypesKept ==
  ASSUME TypeInv, [Next]_vars
  PROVE  TypeInv'
<1>1. ServoTyped'
  BY ServoTypes
<1>2. FeedbackTyped'
  <2>1. CASE FeedbackAlone
    BY <2>1 DEF TypeInv, FeedbackTyped, FeedbackAlone, feedbackVars
  <2> QED BY <2>1, FeedbackOrNot, FeedbackTypes
<1>3. SharedTyped'
  <2>1. CASE SharedAlone
    BY <2>1 DEF TypeInv, SharedTyped, SharedAlone, sharedVars
  <2> QED BY <2>1, SharedOrNot, SharedTypes
<1>4. StatusTyped'
  <2>1. CASE StatusAlone
    BY <2>1 DEF TypeInv, StatusTyped, StatusAlone, statusVars
  <2> QED BY <2>1, StatusOrNot, StatusTypes
<1>5. TwinTyped'
  <2>1. CASE TwinAlone
    BY <2>1 DEF TypeInv, TwinTyped, TwinAlone, twinVars
  <2> QED BY <2>1, TwinOrNot, TwinTypes
<1> QED BY <1>1, <1>2, <1>3, <1>4, <1>5 DEF TypeInv

LEMMA TypesAlways == Spec => [](TypeInv /\ SharedInv)
<1>1. Init => TypeInv /\ SharedInv
  BY TypedInitially, SharedInitially
<1>2. TypeInv /\ SharedInv /\ [Next]_vars => TypeInv' /\ SharedInv'
  BY TypesKept, SharedOrNot, SharedStays, WriterSteps, ReaderSteps DEF SharedStep
<1> QED BY <1>1, <1>2, PTL DEF Spec

\* Every variable stays in its range, for every number of poses, frames and
\* queue sizes: the constructor gives up after its last try
\* (command_server.cpp:364-374), the semaphore stays binary, although it is posted
\* by readers and writers that may be killed (CNDE_thread.cpp:109-118), and what
\* the twin's reader keeps is bounded by MaxBacklog alone.
THEOREM TypeCorrect == Spec => []TypeOK
<1>1. TypeInv /\ SharedInv => TypeOK
  BY DEF TypeInv, ServoTyped, FeedbackTyped, SharedTyped, StatusTyped, TwinTyped, Sample,
     SharedInv, TypeOK
<1> QED BY <1>1, TypesAlways, PTL
=============================================================================
