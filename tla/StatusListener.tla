---------------------------- MODULE StatusListener ----------------------------
(***************************************************************************)
(* Fairino8083Listener (src/src/fairino_universe/scripts/                  *)
(* fairino_8083_listener.py), which cuts the TCP stream of port 8083 into  *)
(* frames, and Fairino8083StatusPublisher (ros2_forwarder.py), which runs  *)
(* it on a thread of its own, publishes joint_states for every frame and   *)
(* stops it from the main thread when the node is destroyed.               *)
(*                                                                         *)
(* Abstracted: a frame is header (two bytes), count, length, data and      *)
(* checksum with one element each for the 16-bit length and checksum, and  *)
(* sums that stay below 2^16; the count is the number of the frame.  The   *)
(* states the thread passes between two accesses to _sock and _running     *)
(* are steps of their own; back-off times are left out.                    *)
(***************************************************************************)
EXTENDS Naturals, SequencesExt

CONSTANTS
  DataLen,   \* DATA_LEN
  Payloads,  \* data of the frames the controller sends, in order
  Cuts       \* how much of its first frame a connection may miss

VARIABLES
  run,        \* what the thread in run() does next
  running,    \* _running
  sock,       \* _sock: "none", "open" or "closed"
  buf,        \* _buf
  stop,       \* what the main thread in destroy_node() does next
  stream,     \* bytes of the connection not yet received
  peerGone,   \* the controller closed the connection
  first,      \* the first frame of the connection
  aligned,    \* which is sent from its first byte
  sent,       \* frames sent so far
  published   \* joint_states published on this connection: their frames

threadVars == <<run, running, sock, buf, published>>
connectionVars == <<stream, peerGone, first, aligned, sent>>
listenerVars == <<threadVars, stop, connectionVars>>

H == 90  \* both bytes of the header, 0x5A

Checksum(bytes) == FoldLeft(LAMBDA a, b : a + b, 0, bytes)

FrameOf(k) ==
  LET payload == <<H, H, k, Len(Payloads[k])>> \o Payloads[k]
  IN Append(payload, Checksum(payload))

ListenerInit ==
  /\ run = "created"
  /\ running = FALSE
  /\ sock = "none"
  /\ buf = <<>>
  /\ stop = "no"
  /\ stream = <<>>
  /\ peerGone = FALSE
  /\ first = 1
  /\ aligned = TRUE
  /\ sent = 0
  /\ published = <<>>

-----------------------------------------------------------------------------
(* run() and _connect()                                                    *)

EnterRun ==
  /\ run = "created"
  /\ running' = TRUE
  /\ run' = "connect"
  /\ UNCHANGED <<sock, buf, stop, connectionVars, published>>

\* Mutation of TryConnect: goes on although stop() was called.
TryConnectAlways ==
  /\ run = "connect"
  /\ run' = "dial"
  /\ UNCHANGED <<running, sock, buf, published, stop, connectionVars>>

\* The loop of _connect().
TryConnect ==
  /\ run = "connect"
  /\ run' = IF running THEN "dial" ELSE "loop"
  /\ UNCHANGED <<running, sock, buf, published, stop, connectionVars>>

\* create_connection() fails, the thread sleeps and tries again.
DialFails ==
  /\ run = "dial"
  /\ run' = "connect"
  /\ UNCHANGED <<running, sock, buf, published, stop, connectionVars>>

\* Mutation of DialSucceeds: the rest of the last connection is kept.
DialKeepsBuffer(cut) ==
  /\ run = "dial"
  /\ run' = "loop"
  /\ sock' = "open"
  /\ published' = <<>>
  /\ peerGone' = FALSE
  /\ sent < Len(Payloads)
  /\ aligned' = (cut = 0)
  /\ first' = sent + 1
  /\ sent' = sent + 1
  /\ stream' = SubSeq(FrameOf(sent + 1), cut + 1, Len(FrameOf(sent + 1)))
  /\ UNCHANGED <<running, stop, buf>>

\* The connection stands; the controller is in the middle of a frame of which
\* the first cut bytes are gone.
DialSucceeds(cut) ==
  /\ run = "dial"
  /\ run' = "loop"
  /\ sock' = "open"
  /\ buf' = <<>>
  /\ published' = <<>>
  /\ peerGone' = FALSE
  /\ sent < Len(Payloads)
  /\ aligned' = (cut = 0)
  /\ first' = sent + 1
  /\ sent' = sent + 1
  /\ stream' = SubSeq(FrameOf(sent + 1), cut + 1, Len(FrameOf(sent + 1)))
  /\ UNCHANGED <<running, stop>>

\* Mutation of LoopRun: the loop does not look at _running.
LoopRunAlways ==
  /\ run = "loop"
  /\ run' = "load"
  /\ UNCHANGED <<running, sock, buf, published, stop, connectionVars>>

\* The loop of run().
LoopRun ==
  /\ run = "loop"
  /\ run' = IF running THEN "load" ELSE "ended"
  /\ UNCHANGED <<running, sock, buf, published, stop, connectionVars>>

\* self._sock is read; None has no recv() and the thread dies of it.
LoadSock ==
  /\ run = "load"
  /\ run' = IF sock = "none" THEN "died" ELSE "recv"
  /\ UNCHANGED <<running, sock, buf, published, stop, connectionVars>>

\* recv(): some bytes are there,
RecvChunk ==
  /\ run = "recv"
  /\ sock = "open"
  /\ \E n \in 1..Len(stream) :
       /\ buf' = buf \o SubSeq(stream, 1, n)
       /\ stream' = SubSeq(stream, n + 1, Len(stream))
  /\ run' = "drain"
  /\ UNCHANGED <<running, sock, published, stop, peerGone, first, aligned, sent>>

\* or none came for two seconds,
RecvTimesOut ==
  /\ run = "recv"
  /\ stream = <<>> \/ sock # "open"
  /\ run' = "loop"
  /\ UNCHANGED <<running, sock, buf, published, stop, connectionVars>>

\* or the connection is closed, by the controller or by stop().
RecvFails ==
  /\ run = "recv"
  /\ (stream = <<>> /\ peerGone) \/ sock # "open"
  /\ run' = "close"
  /\ UNCHANGED <<running, sock, buf, published, stop, connectionVars>>

-----------------------------------------------------------------------------
(* _close(), run by either thread: a look at _sock, close(), _sock = None. *)
(* When the other thread was faster in between, None has no close().       *)

AfterClose(at, done, failed) ==
  CASE at = "close"   -> IF sock = "none" THEN done ELSE "closing"
    [] at = "closing" -> IF sock = "none" THEN failed ELSE "clear"
    [] at = "clear"   -> done

SockAfterClose(at) ==
  CASE at = "closing" /\ sock # "none" -> "closed"
    [] at = "clear"                    -> "none"
    [] OTHER                           -> sock

ClosingSteps == {"close", "closing", "clear"}

\* The handler of OSError in run().
CloseInRun ==
  /\ run \in ClosingSteps
  /\ run' = AfterClose(run, "connect", "died")
  /\ sock' = SockAfterClose(run)
  /\ UNCHANGED <<running, buf, published, stop, connectionVars>>

-----------------------------------------------------------------------------
(* _drain_frames(): one iteration of its loop at a time.                   *)

HeaderAt(i) == i < Len(buf) /\ buf[i] = H /\ buf[i + 1] = H
InSync == Len(buf) < 2 \/ HeaderAt(1)
FrameLength == 4 + buf[4] + 1
FrameThere == Len(buf) >= 4 /\ Len(buf) >= FrameLength
BufferFrom(i) == SubSeq(buf, i, Len(buf))

\* Up to the next header; without one the buffer is emptied.
Resync ==
  /\ run = "drain"
  /\ ~InSync
  /\ LET headers == {i \in 2..Len(buf) : HeaderAt(i)}
     IN buf' = IF headers = {} THEN <<>>
               ELSE BufferFrom(CHOOSE i \in headers : \A j \in headers : i <= j)
  /\ UNCHANGED <<run, running, sock, published, stop, connectionVars>>

Drained ==
  /\ run = "drain"
  /\ InSync
  /\ ~FrameThere
  /\ run' = "loop"
  /\ UNCHANGED <<running, sock, buf, published, stop, connectionVars>>

\* A frame is cut off; with the right checksum and length it is handed to
\* _on_status(), which publishes it.
TakeFrame ==
  /\ run = "drain"
  /\ InSync
  /\ FrameThere
  /\ buf' = BufferFrom(FrameLength + 1)
  /\ published' = IF /\ buf[FrameLength] = Checksum(SubSeq(buf, 1, FrameLength - 1))
                     /\ buf[4] = DataLen
                  THEN Append(published, [count |-> buf[3], data |-> SubSeq(buf, 5, 4 + DataLen)])
                  ELSE published
  /\ UNCHANGED <<run, running, sock, stop, connectionVars>>

ThreadStep ==
  \/ EnterRun \/ TryConnect \/ DialFails \/ (\E cut \in Cuts : DialSucceeds(cut))
  \/ LoopRun \/ LoadSock \/ RecvChunk \/ RecvTimesOut \/ RecvFails \/ CloseInRun
  \/ Resync \/ Drained \/ TakeFrame

-----------------------------------------------------------------------------
(* destroy_node(): stop() sets _running and closes, join() waits at most   *)
(* two seconds, then the publisher is destroyed.                           *)

Stop ==
  /\ stop = "no"
  /\ stop' = "close"
  /\ running' = FALSE
  /\ UNCHANGED <<run, sock, buf, published, connectionVars>>

CloseInStop ==
  /\ stop \in ClosingSteps
  /\ stop' = AfterClose(stop, "join", "raised")
  /\ sock' = SockAfterClose(stop)
  /\ UNCHANGED <<run, running, buf, published, connectionVars>>

\* The thread is gone, or sits in a call that takes its time.
Destroy ==
  /\ stop = "join"
  /\ run \in {"ended", "died", "dial", "connect", "recv"}
  /\ stop' = "destroyed"
  /\ UNCHANGED <<threadVars, connectionVars>>

StopStep == Stop \/ CloseInStop \/ Destroy

-----------------------------------------------------------------------------
(* The controller.                                                         *)

PushFrame ==
  /\ sock = "open"
  /\ ~peerGone
  /\ sent < Len(Payloads)
  /\ sent' = sent + 1
  /\ stream' = stream \o FrameOf(sent + 1)
  /\ UNCHANGED <<threadVars, stop, peerGone, first, aligned>>

PeerCloses ==
  /\ sock = "open"
  /\ ~peerGone
  /\ peerGone' = TRUE
  /\ UNCHANGED <<threadVars, stop, stream, first, aligned, sent>>

-----------------------------------------------------------------------------
FrameSize == 4 + DataLen + 1

\* The i-th byte of the frames in the order in which they are sent, and those of
\* the frames from number k on.
ByteOf(i) == FrameOf(1 + (i - 1) \div FrameSize)[1 + ((i - 1) % FrameSize)]
BytesFrom(k) == [i \in 1..FrameSize * (sent - k + 1) |-> ByteOf(FrameSize * (k - 1) + i)]

\* The frames published on a connection are frames the controller sent, each
\* once and without gaps, and from the first one on the listener is in step:
\* what it has not yet cut off begins with a frame.  A connection that starts
\* with a whole frame is in step from there, whatever the chunks in which
\* recv() returns the stream, and whatever was left of the connection before.
InStep ==
  /\ \A i \in 1..Len(published) :
       /\ published[i].count = published[1].count + i - 1
       /\ published[i].data = Payloads[published[i].count]
  /\ run \in {"loop", "load", "recv", "drain"} /\ sock = "open" =>
       /\ published # <<>> => buf \o stream = BytesFrom(published[Len(published)].count + 1)
       /\ published = <<>> /\ aligned => buf \o stream = BytesFrom(first)

\* Once destroy_node() has destroyed the publisher the thread publishes
\* nothing, although join() gives up after two seconds and the thread may
\* still be connecting; only a stop() that came before run() had set _running
\* is lost (fairino_8083_listener.py:262, 278-280).
QuietWhenDestroyed ==
  [][stop = "destroyed" /\ ~running => published' \in {published, <<>>}]_listenerVars

\* stop() ends the thread wherever it is, unless it came before run() began.
StopEnds ==
  [](stop # "no" /\ ~running /\ run # "created" => <>(run \in {"ended", "died"}))
=============================================================================
