----------------------------- MODULE SharedState -----------------------------
(***************************************************************************)
(* CNDE_recv_thread (src/src/fairino_hardware_v3_9_5/src/CNDE_thread.cpp): *)
(* asks the controller over UDP to stream its state and copies every frame *)
(* into shared memory, under a named semaphore that it only tries.  The    *)
(* shared memory and the semaphore outlive the process.  A reader follows  *)
(* examples/src/srv_test_client.cpp: wait, read, post.                     *)
(*                                                                         *)
(* Abstracted: a state is a pose, copied and read in two halves (memcpy is *)
(* not atomic).  The controller (external) answers a start with frames for *)
(* the socket that sent it, of 104 bytes when the configuration reached it *)
(* while it was not streaming, and shorter otherwise (a longer frame would *)
(* be cut by recvfrom() and pass for one of 104 bytes, line 92).           *)
(***************************************************************************)
EXTENDS Naturals, Sequences

CONSTANTS
  NoSem,     \* the semaphore was never created
  NoOne,     \* the controller streams to nobody
  InboxSize  \* frames the kernel keeps for the socket

VARIABLES
  thread,      \* what CNDE_recv_thread does next, or "down"
  socket,      \* number of the process, and of its socket
  inbox,       \* frames received by the kernel
  frame,       \* rt_state, being copied
  sem,         \* value of /sem_nonrt_state_data
  shm,         \* the two halves of fairino_nonrt_state_data
  reader,      \* what the reader does next
  snapshot,    \* what the reader has read
  streamsTo, configured,  \* the controller
  handshakeLost,          \* history: a request of this process was lost
  orphaned                \* history: a process died with the semaphore

writerVars == <<thread, socket, inbox, frame>>
readerVars == <<reader, snapshot>>
streamVars == <<streamsTo, configured, handshakeLost>>
sharedVars == <<writerVars, sem, shm, readerVars, streamVars, orphaned>>

WriterHolds == thread \in {"copy", "copy rest", "post"}
ReaderHolds == reader \in {"read", "read rest", "post"}

SharedInit ==
  /\ thread = "stop"
  /\ socket = 1
  /\ inbox = <<>>
  /\ frame = 0
  /\ sem = NoSem
  /\ shm = <<0, 0>>
  /\ reader = "out"
  /\ snapshot = <<0, 0>>
  /\ streamsTo = NoOne
  /\ configured \in BOOLEAN
  /\ handshakeLost = FALSE
  /\ orphaned = FALSE

-----------------------------------------------------------------------------
(* The constructor: three requests, none of them repeated.                 *)

\* A request arrives with its effect on the controller, or it is lost.
Request(from, to, arrives, effect) ==
  /\ thread = from
  /\ thread' = to
  /\ IF arrives THEN effect ELSE UNCHANGED <<streamsTo, configured>>
  /\ handshakeLost' = (handshakeLost \/ ~arrives)
  /\ UNCHANGED <<socket, inbox, frame, sem, shm, readerVars, orphaned>>

SendStop(arrives) ==
  Request("stop", "config", arrives, streamsTo' = NoOne /\ UNCHANGED configured)

SendConfig(arrives) ==
  Request("config", "start", arrives,
          configured' = (configured \/ streamsTo = NoOne) /\ UNCHANGED streamsTo)

\* A controller that streams already may take the new address or not.
SendStart(arrives) ==
  Request("start", "open", arrives,
          streamsTo' \in {socket} \cup ({streamsTo} \ {NoOne}) /\ UNCHANGED configured)

\* shm_open() and sem_open(): a semaphore that exists keeps its value.  Neither
\* fails here (in the code the first then exits, the second is only logged).
OpenShared ==
  /\ thread = "open"
  /\ thread' = "receive"
  /\ sem' = IF sem = NoSem THEN 1 ELSE sem
  /\ UNCHANGED <<socket, inbox, frame, shm, readerVars, streamVars, orphaned>>

-----------------------------------------------------------------------------
(* _state_recv_callback()                                                  *)

\* Mutation of Receive: a frame is copied also when the semaphore is taken.
ReceiveRegardless ==
  /\ thread = "receive"
  /\ inbox # <<>>
  /\ inbox' = Tail(inbox)
  /\ frame' = Head(inbox)
  /\ thread' = "copy"
  /\ sem' = 0
  /\ UNCHANGED <<socket, shm, readerVars, streamVars, orphaned>>

\* Another: sem_post() stands behind the condition.
ReceiveAlwaysPosts ==
  /\ thread = "receive"
  /\ inbox # <<>>
  /\ inbox' = Tail(inbox)
  /\ frame' = Head(inbox)
  /\ IF sem = 1
     THEN sem' = sem - 1 /\ thread' = "copy"
     ELSE sem' = sem + 1 /\ UNCHANGED thread
  /\ UNCHANGED <<socket, shm, readerVars, streamVars, orphaned>>

\* A frame is taken from the socket; it is dropped when sem_trywait() fails.
Receive ==
  /\ thread = "receive"
  /\ inbox # <<>>
  /\ inbox' = Tail(inbox)
  /\ frame' = Head(inbox)
  /\ IF sem = 1
     THEN sem' = sem - 1 /\ thread' = "copy"
     ELSE UNCHANGED <<sem, thread>>
  /\ UNCHANGED <<socket, shm, readerVars, streamVars, orphaned>>

Copy ==
  /\ thread \in {"copy", "copy rest"}
  /\ shm' = IF thread = "copy" THEN <<frame, shm[2]>> ELSE <<shm[1], frame>>
  /\ thread' = IF thread = "copy" THEN "copy rest" ELSE "post"
  /\ UNCHANGED <<socket, inbox, frame, sem, readerVars, streamVars, orphaned>>

\* Mutation of PostWriter: sem_post() is forgotten.
PostWriterForgotten ==
  /\ thread = "post"
  /\ thread' = "receive"
  /\ UNCHANGED <<socket, inbox, frame, sem, shm, readerVars, streamVars, orphaned>>

PostWriter ==
  /\ thread = "post"
  /\ sem' = sem + 1
  /\ thread' = "receive"
  /\ UNCHANGED <<socket, inbox, frame, shm, readerVars, streamVars, orphaned>>

\* The process is killed; what it holds stays as it is.
KillWriter ==
  /\ thread # "down"
  /\ thread' = "down"
  /\ inbox' = <<>>
  /\ orphaned' = (orphaned \/ WriterHolds)
  /\ UNCHANGED <<socket, frame, sem, shm, readerVars, streamVars>>

StartWriter ==
  /\ thread = "down"
  /\ thread' = "stop"
  /\ socket' = socket + 1
  /\ handshakeLost' = FALSE
  /\ UNCHANGED <<inbox, frame, sem, shm, readerVars, streamsTo, configured, orphaned>>

-----------------------------------------------------------------------------
(* The controller and the reader.                                          *)

\* Every few milliseconds; a shorter frame, or one for a socket that is
\* gone, is not taken, and neither is one for which the kernel has no room.
SendFrame(pose) ==
  /\ streamsTo = socket
  /\ configured
  /\ thread # "down"
  /\ Len(inbox) < InboxSize
  /\ inbox' = Append(inbox, pose)
  /\ UNCHANGED <<thread, socket, frame, sem, shm, readerVars, streamVars, orphaned>>

\* sem_open() needs a semaphore, sem_wait() a free one.
WaitReader ==
  /\ reader = "out"
  /\ sem = 1
  /\ sem' = sem - 1
  /\ reader' = "read"
  /\ UNCHANGED <<writerVars, shm, snapshot, streamVars, orphaned>>

ReadHalf ==
  /\ reader \in {"read", "read rest"}
  /\ snapshot' = IF reader = "read" THEN <<shm[1], 0>> ELSE <<snapshot[1], shm[2]>>
  /\ reader' = IF reader = "read" THEN "read rest" ELSE "post"
  /\ UNCHANGED <<writerVars, sem, shm, streamVars, orphaned>>

PostReader ==
  /\ reader = "post"
  /\ sem' = sem + 1
  /\ reader' = "out"
  /\ UNCHANGED <<writerVars, shm, snapshot, streamVars, orphaned>>

KillReader ==
  /\ reader # "out"
  /\ reader' = "out"
  /\ orphaned' = (orphaned \/ ReaderHolds)
  /\ UNCHANGED <<writerVars, sem, shm, snapshot, streamVars>>

-----------------------------------------------------------------------------
\* Readers see one state, never parts of two, whoever is killed when: the
\* writer holds the semaphore from before the copy until after it
\* (CNDE_thread.cpp:115-118), and what a killed writer has half copied stays
\* behind a semaphore that nobody posts.
WholeSnapshots == reader = "post" => snapshot[1] = snapshot[2]
=============================================================================
