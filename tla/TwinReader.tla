------------------------------ MODULE TwinReader ------------------------------
(***************************************************************************)
(* rt_state_data (src/src/fairino_universe/launch/rt_state_data.py): a     *)
(* thread reads frames of the controller's port 20004, a timer publishes   *)
(* the latest one to the digital twin 50 times a second, for ever.         *)
(*                                                                         *)
(* Abstracted: a frame arrives in two pieces, which name the pose it tells *)
(* of; headers and checksums are left out (StatusListener has them).       *)
(***************************************************************************)
EXTENDS Naturals, Sequences

CONSTANTS
  NoData,     \* no frame was read yet
  WireSize,   \* pieces that fit into the connection
  MaxBacklog  \* bound on the pieces kept in _buffer, which nothing in the code limits

VARIABLES
  twin,    \* sock: "none", "open", or "cut" when the other end went silently
  wire,    \* pieces sent and not yet received
  rest,    \* _buffer
  latest,  \* latest_data
  shown    \* the last pose published

twinVars == <<twin, wire, rest, latest, shown>>

TwinInit ==
  /\ twin = "none"
  /\ wire = <<>>
  /\ rest = <<>>
  /\ latest = NoData
  /\ shown = NoData

-----------------------------------------------------------------------------
\* connect_socket(), from the constructor or when there is no socket.
ConnectSocket(ok) ==
  /\ twin = "none"
  /\ twin' = IF ok THEN "open" ELSE "none"
  /\ wire' = <<>>
  /\ rest' = IF ok THEN <<>> ELSE rest
  /\ UNCHANGED <<latest, shown>>

\* Mutation of SocketError: the broken socket is kept.
SocketErrorIgnored(ok) ==
  /\ twin = "open"
  /\ twin' = "dead"
  /\ wire' = <<>>
  /\ UNCHANGED <<rest, latest, shown>>

\* The handler of socket.error in socket_reader_loop().
SocketError(ok) ==
  /\ twin = "open"
  /\ twin' = IF ok THEN "open" ELSE "none"
  /\ wire' = <<>>
  /\ rest' = IF ok THEN <<>> ELSE rest
  /\ UNCHANGED <<latest, shown>>

\* parse_frame(): at most one frame per recv(); what came with it waits for the
\* next recv(), and so does every later frame.
ParseFrame ==
  /\ twin = "open"
  /\ \E n \in 1..Len(wire) :
       LET bytes == rest \o SubSeq(wire, 1, n)
       IN /\ Len(bytes) - 2 <= MaxBacklog
          /\ wire' = SubSeq(wire, n + 1, Len(wire))
          /\ rest' = IF Len(bytes) < 2 THEN bytes ELSE SubSeq(bytes, 3, Len(bytes))
          /\ latest' = IF Len(bytes) < 2 THEN latest ELSE bytes[1]
  /\ UNCHANGED <<twin, shown>>

\* publish_latest(), with a fresh stamp however old the frame is.
PublishLatest ==
  /\ latest # NoData
  /\ shown' = latest
  /\ UNCHANGED <<twin, wire, rest, latest>>

-----------------------------------------------------------------------------
(* The controller and the network.                                         *)

PushState(pose) ==
  /\ twin = "open"
  /\ Len(wire) + 2 <= WireSize
  /\ wire' = wire \o <<pose, pose>>
  /\ UNCHANGED <<twin, rest, latest, shown>>

\* Without a timeout recv() waits for ever.
SilentCut ==
  /\ twin = "open"
  /\ twin' = "cut"
  /\ UNCHANGED <<wire, rest, latest, shown>>
=============================================================================
