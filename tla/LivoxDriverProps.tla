-------------------------- MODULE LivoxDriverProps --------------------------
(* What the Livox driver promises the nodes that take its point clouds.    *)
EXTENDS LivoxDriver, Sequences

Frames == UNION {Frame[l] : l \in Lidar}
Ring(l) == [0 .. Size - 1 -> Frame[l] \cup {Free}]

\* The type of every variable.
TypeOK ==
  /\ indexed \subseteq Lidar
  /\ \A l \in Lidar : reports[l] \in 0 .. MaxInfo[l]
  /\ connect_state \in [Lidar -> {"Off", "Sampling"}]
  /\ set_bits \in [Lidar -> SUBSET Setting]
  /\ requests \in [Lidar -> [Setting -> Nat]]
  /\ \A l \in Lidar : storage[l] = << >> \/ storage[l] \in Ring(l)
  /\ wr_idx \in [Lidar -> 0 .. Width - 1]
  /\ rd_idx \in [Lidar -> 0 .. Width - 1]
  /\ count \in {0, 1}
  /\ store \in [pc : {"idle", "write", "advance", "pushed", "count", "signal"},
                lidar : Lidar, frame : Frames \cup {Free}]
  /\ poll \in [pc : {"top", "wait", "scan", "polling", "copy", "pop", "status",
                     "ended"}, lidar : Lidar, frame : Frames \cup {Free}]
  /\ \A l \in Lidar : published[l] = {} \/ \E f \in Frame[l] : published[l] = {f}
  /\ request_exit \in BOOLEAN /\ exit_signal \in BOOLEAN

\* Whatever the two threads do to a ring without a lock, and however often its
\* indices wrap, its frames are published once each, in order, and none is
\* overwritten before (ldq.cpp 85-145).
Unread(l) == [i \in 1 .. Used(l) |-> storage[l][Slot(rd_idx[l] + i - 1)]]
FQ == INSTANCE FrameQueue WITH
        Capacity <- Size, queue <- [l \in Lidar |-> Unread(l)]
ImplementsFrameQueue == FQ!Spec

\* A setting still marked as outstanding has a request on its way, or was
\* refused: no lidar waits for an answer nobody will give
\* (livox_lidar_callback.cpp 62-92, 140-160).
NoOrphanedSetting ==
  \A l \in Lidar : \A s \in set_bits[l] : requests[l][s] > 0 \/ s \in Refused[l]

\* Once a sampling lidar's frames have been taken, no later one is left in its
\* ring while the poll thread sleeps and nobody is about to wake it
\* (lds.cpp 178-191 against lddc.cpp 128-137).
Asleep == poll.pc = "wait" /\ count = 0 /\ store.pc = "idle"
NoMissedWakeup ==
  \A l \in Lidar :
    [](connect_state[l] = "Sampling" /\ Empty(l) => [](Asleep => Empty(l)))

\* A listed lidar that accepts its settings and keeps sending is published
\* again and again until the node is asked to exit (lds.cpp, lddc.cpp,
\* livox_lidar_callback.cpp).
Accepting(l) == l \in Listed /\ Asked[l] # {} /\ Asked[l] \cap Refused[l] = {}
LidarsHeard ==
  \A l \in Lidar :
    Accepting(l) /\ []<><<Arrive(l)>>_vars =>
      []<>(request_exit \/ (poll.pc = "pop" /\ poll.lidar = l))

\* As long as some lidar sends, the destructor's join returns
\* (driver_node.cpp 36-41).
ExitEnds == request_exit ~> poll.pc = "ended"
=============================================================================
