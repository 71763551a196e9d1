------------------------------- MODULE Topics -------------------------------
(***************************************************************************)
(* ROS 2 topics as the nodes of src/ use them.  A subscription is a FIFO   *)
(* queue with a keep-last history: when `depth' samples wait, publishing   *)
(* one more drops the oldest.  Middleware code is not part of the          *)
(* repository; the semantics is the one its QoS settings ask for           *)
(* (rclcpp::QoS(10) everywhere, QoS(1).transient_local() for latched       *)
(* topics, see conveyor_common.hpp latchedQos).                            *)
(***************************************************************************)
EXTENDS Naturals, Sequences

\* The queue of a subscription after one more sample m was published.
Publish(queue, m, depth) ==
  IF Len(queue) < depth THEN Append(queue, m) ELSE Append(Tail(queue), m)
=============================================================================
