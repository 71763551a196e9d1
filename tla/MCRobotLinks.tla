----------------------------- MODULE MCRobotLinks -----------------------------
(* RobotLinks with few poses and short frames, for TLC.                    *)
EXTENDS RobotLinks

MCPoses == 0..3
MCLinks == {"servo", "feedback", "shared", "status", "twin"}
Some(move, outage, loss, kill, look) ==
  [move |-> move, outage |-> outage, loss |-> loss, kill |-> kill, look |-> look]
MCBudget ==
  [servo    |-> Some(0, 0, 0, 0, 0),
   feedback |-> Some(1, 2, 1, 0, 0),
   shared   |-> Some(1, 0, 1, 2, 2),
   status   |-> Some(0, 0, 0, 0, 0),
   twin     |-> Some(2, 2, 1, 0, 0)]

\* The first frame has what looks like a header in its data, the second ends
\* in half of one.
MCPayloads == <<<<90, 90, 5, 2>>, <<1, 2, 3, 90>>, <<4, 3, 2, 1>>>>
MCCuts == {0, 4}
=============================================================================
