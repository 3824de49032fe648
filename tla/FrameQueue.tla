----------------------------- MODULE FrameQueue -----------------------------
(***************************************************************************)
(* What the point cloud queues of the Livox driver promise the publisher:  *)
(* per lidar a bounded queue, whose frames are published once each, in the *)
(* order in which they were stored.                                        *)
(***************************************************************************)
EXTENDS Naturals, Sequences

CONSTANTS Lidar,      \* the lidars with a queue
          Frame,      \* for each lidar, what a frame of it can hold
          Capacity    \* frames a queue can hold

VARIABLES queue,      \* the frames of each lidar still to publish
          published   \* what was published last of each lidar

Init ==
  /\ queue = [l \in Lidar |-> << >>]
  /\ published = [l \in Lidar |-> {}]

\* A frame of a lidar is stored, if there is room for it.
Store(l, f) ==
  /\ Len(queue[l]) < Capacity
  /\ queue' = [queue EXCEPT ![l] = Append(@, f)]
  /\ UNCHANGED published

\* The oldest frame of a lidar is published.
Publish(l) ==
  /\ queue[l] # << >>
  /\ published' = [published EXCEPT ![l] = {Head(queue[l])}]
  /\ queue' = [queue EXCEPT ![l] = Tail(@)]

Next == \E l \in Lidar : Publish(l) \/ \E f \in Frame[l] : Store(l, f)

Spec == Init /\ [][Next]_<<queue, published>>
=============================================================================
