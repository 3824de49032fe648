---------------------------- MODULE LivoxDriver ----------------------------
(***************************************************************************)
(* The Livox driver from a lidar's frame to its publication, with three    *)
(* threads and no lock between them but the semaphore's own:               *)
(*   - the SDK's thread configures the lidars (livox_lidar_callback.cpp);  *)
(*     a lidar is polled only once it has answered every setting;          *)
(*   - the point processing thread stores frames into one ring per lidar   *)
(*     and wakes the poll thread when nobody has yet (lds.cpp, ldq.cpp);   *)
(*   - the poll thread waits, then empties the ring of every lidar that is *)
(*     sampling (lddc.cpp, livox_ros_driver2.cpp).                         *)
(* A step is one access to what the threads share. The loads and stores of *)
(* the ring's volatile indices are taken to happen in program order. The   *)
(* IMU samples take the same way with a locked, unbounded list.            *)
(***************************************************************************)
EXTENDS Naturals, FiniteSets

CONSTANTS Lidars,    \* lidar_count_: the devices are 1 .. Lidars
          Listed,    \* the lidars the user's config file lists
          Asked,     \* for each lidar, the settings its config asks for
          Refused,   \* for each lidar, the settings it answers with an error
          Frame,     \* for each lidar, what a frame of it can hold
          Free,      \* a slot that holds none
          Size,      \* slots of a ring, a power of two
          Width,     \* the indices count modulo Width (2^32), Size divides it
          MaxInfo    \* bound: how often the SDK reports each lidar

Lidar == 1 .. Lidars
Setting == UNION {Asked[l] : l \in Lidar}

ASSUME RingAssumption == /\ Size \in Nat \ {0} /\ Width \in Nat
                         /\ Width > Size /\ Width % Size = 0
ASSUME LidarAssumption ==
  /\ Lidars \in Nat \ {0} /\ Listed \subseteq Lidar
  /\ \A l \in Lidar : Free \notin Frame[l] /\ MaxInfo[l] \in Nat

VARIABLES indexed,       \* map_index_: the lidars that have a device
          reports,       \* how often the SDK reported each lidar
          connect_state, set_bits,
          requests,      \* settings sent to each lidar and not answered yet
          storage,       \* storage_packet of each ring, << >> until InitQueue
          wr_idx, rd_idx,
          count,         \* pcd_semaphore_'s count
          store,         \* the point processing thread: where it is, its frame
          poll,          \* the poll thread: where it is, its lidar, its frame
          published,     \* the last frame published of each lidar
          request_exit, exit_signal

config == <<indexed, reports, connect_state, set_bits, requests>>
ring   == <<storage, wr_idx, rd_idx>>
exits  == <<request_exit, exit_signal>>
vars == <<config, ring, count, store, poll, published, exits>>

\* QueueUsedSize, QueueIsFull, QueueIsEmpty on indices that wrap around.
Used(l) == (wr_idx[l] + Width - rd_idx[l]) % Width
FullLate(l) == Used(l) > Size
Full(l) == Used(l) > Size - 1
Empty(l) == rd_idx[l] = wr_idx[l]
Slot(idx) == idx % Size

Idle == [pc |-> "idle", lidar |-> 1, frame |-> Free]

Init ==
  /\ indexed = Listed
  /\ reports = [l \in Lidar |-> 0]
  /\ connect_state = [l \in Lidar |-> "Off"]
  /\ set_bits = [l \in Lidar |-> {}]
  /\ requests = [l \in Lidar |-> [s \in Setting |-> 0]]
  /\ storage = [l \in Lidar |-> << >>]
  /\ wr_idx = [l \in Lidar |-> 0] /\ rd_idx = [l \in Lidar |-> 0]
  /\ count = 0
  /\ store = Idle
  /\ poll = [pc |-> "top", lidar |-> 1, frame |-> Free]
  /\ published = [l \in Lidar |-> {}]
  /\ request_exit = FALSE /\ exit_signal = FALSE

-----------------------------------------------------------------------------
(* The SDK's thread. *)

\* LidarInfoChangeCallback: a lidar nobody listed gets a device and no more;
\* any other is sent its settings, all of them under config_mutex_.
InfoChange(l) ==
  /\ reports[l] < MaxInfo[l]
  /\ reports' = [reports EXCEPT ![l] = @ + 1]
  /\ IF l \notin indexed
     THEN /\ indexed' = indexed \cup {l}
          /\ UNCHANGED <<set_bits, requests>>
     ELSE /\ set_bits' = [set_bits EXCEPT ![l] = @ \cup Asked[l]]
          /\ requests' = [requests EXCEPT ![l] = [s \in Setting |->
               @[s] + (IF s \in Asked[l] THEN 1 ELSE 0)]]
          /\ UNCHANGED indexed
  /\ UNCHANGED <<connect_state, ring, count, store, poll, published, exits>>

Answered(l, s) ==
  /\ requests[l][s] > 0
  /\ requests' = [requests EXCEPT ![l][s] = @ - 1]
  /\ UNCHANGED <<indexed, reports, ring, count, store, poll, published, exits>>

SettingDoneForgets(l, s) ==
  /\ s \notin Refused[l]
  /\ Answered(l, s)
  /\ set_bits' = [set_bits EXCEPT ![l] = @ \ {s}]
  /\ UNCHANGED connect_state

\* A setting's callback with kLivoxLidarStatusSuccess.
SettingDone(l, s) ==
  /\ s \notin Refused[l]
  /\ Answered(l, s)
  /\ set_bits' = [set_bits EXCEPT ![l] = @ \ {s}]
  /\ connect_state' = IF set_bits'[l] = {}
                      THEN [connect_state EXCEPT ![l] = "Sampling"]
                      ELSE connect_state

SettingTimeoutForgets(l, s) ==
  Answered(l, s) /\ UNCHANGED <<connect_state, set_bits>>

\* With kLivoxLidarStatusTimeout: the setting is sent once more.
SettingTimeout(l, s) == requests[l][s] > 0 /\ UNCHANGED vars

\* With any other status: a line on the console.
SettingFailed(l, s) ==
  /\ s \in Refused[l]
  /\ Answered(l, s)
  /\ UNCHANGED <<connect_state, set_bits>>

-----------------------------------------------------------------------------
(* The point processing thread. *)

\* StoragePointData, PushLidarData: a frame of a lidar that has a device; its
\* first one brings the ring (InitQueue).
FrameReady(l, f) ==
  /\ store.pc = "idle"
  /\ l \in indexed
  /\ store' = [pc |-> "write", lidar |-> l, frame |-> f]
  /\ storage' = IF storage[l] # << >> THEN storage
                ELSE [storage EXCEPT ![l] = [i \in 0 .. Size - 1 |-> Free]]
  /\ UNCHANGED <<config, wr_idx, rd_idx, count, poll, published, exits>>

StoreFrameDropSilently ==
  LET l == store.lidar IN
  /\ store.pc = "write"
  /\ IF Full(l)
     THEN store' = Idle /\ UNCHANGED storage
     ELSE /\ storage' = [storage EXCEPT ![l][Slot(wr_idx[l])] = store.frame]
          /\ store' = [store EXCEPT !.pc = "advance", !.frame = Free]
  /\ UNCHANGED <<config, wr_idx, rd_idx, count, poll, published, exits>>

\* QueuePushAny up to the copy; a frame that finds the ring full is dropped.
StoreFrame ==
  LET l == store.lidar IN
  /\ store.pc = "write"
  /\ IF Full(l)
     THEN /\ store' = [store EXCEPT !.pc = "count", !.frame = Free]
          /\ UNCHANGED storage
     ELSE /\ storage' = [storage EXCEPT ![l][Slot(wr_idx[l])] = store.frame]
          /\ store' = [store EXCEPT !.pc = "advance", !.frame = Free]
  /\ UNCHANGED <<config, wr_idx, rd_idx, count, poll, published, exits>>

\* QueuePushAny's wr_idx++.
Advance ==
  /\ store.pc = "advance"
  /\ wr_idx' = [wr_idx EXCEPT ![store.lidar] = (@ + 1) % Width]
  /\ store' = [store EXCEPT !.pc = "pushed"]
  /\ UNCHANGED <<config, storage, rd_idx, count, poll, published, exits>>

\* A pushed frame that is already gone needs no waking.
CheckPushed ==
  /\ store.pc = "pushed"
  /\ store' = IF Empty(store.lidar) THEN Idle ELSE [store EXCEPT !.pc = "count"]
  /\ UNCHANGED <<config, ring, count, poll, published, exits>>

ReadCountLoose ==
  /\ store.pc = "count"
  /\ store' = IF count <= 1 THEN [store EXCEPT !.pc = "signal"] ELSE Idle
  /\ UNCHANGED <<config, ring, count, poll, published, exits>>

\* Semaphore::GetCount, read without the semaphore's mutex.
ReadCount ==
  /\ store.pc = "count"
  /\ store' = IF count <= 0 THEN [store EXCEPT !.pc = "signal"] ELSE Idle
  /\ UNCHANGED <<config, ring, count, poll, published, exits>>

Signal ==
  /\ store.pc = "signal"
  /\ count' = count + 1
  /\ store' = Idle
  /\ UNCHANGED <<config, ring, poll, published, exits>>

-----------------------------------------------------------------------------
(* The poll thread: DistributePointCloudData in PointCloudDataPollThread. *)

PollGoes(pc, l) == poll' = [poll EXCEPT !.pc = pc, !.lidar = l]
NextLidar(l) ==
  IF l = Lidars THEN PollGoes("status", 1) ELSE PollGoes("scan", l + 1)
Quiet == UNCHANGED <<config, ring, count, store, published, exits>>

\* IsRequestExit at the top of DistributePointCloudData.
Enter ==
  /\ poll.pc = "top"
  /\ PollGoes(IF request_exit THEN "status" ELSE "wait", 1)
  /\ Quiet

\* Semaphore::Wait.
Wait ==
  /\ poll.pc = "wait" /\ count > 0
  /\ count' = count - 1
  /\ PollGoes("scan", 1)
  /\ UNCHANGED <<config, ring, store, published, exits>>

\* A lidar is passed over while it is not sampling or has no ring.
Skip ==
  /\ poll.pc = "scan"
  /\ IF connect_state[poll.lidar] = "Sampling" /\ storage[poll.lidar] # << >>
     THEN PollGoes("polling", poll.lidar)
     ELSE NextLidar(poll.lidar)
  /\ Quiet

\* PollingLidarPointCloudData: until the ring is empty or the node exits.
Poll ==
  /\ poll.pc = "polling"
  /\ ~request_exit /\ ~Empty(poll.lidar)
  /\ PollGoes("copy", poll.lidar)
  /\ Quiet
Leave ==
  /\ poll.pc = "polling"
  /\ request_exit \/ Empty(poll.lidar)
  /\ NextLidar(poll.lidar)
  /\ Quiet

\* QueuePrePop: the copy; PublishPointcloud2's own loop ends at an empty ring
\* and does not look at the exit request.
Copy ==
  LET l == poll.lidar IN
  /\ poll.pc = "copy" /\ ~Empty(l)
  /\ poll' = [poll EXCEPT !.pc = "pop",
                          !.frame = storage[l][Slot(rd_idx[l])]]
  /\ Quiet
Emptied ==
  /\ poll.pc = "copy" /\ Empty(poll.lidar)
  /\ PollGoes("polling", poll.lidar)
  /\ Quiet

PopOne ==
  LET l == poll.lidar IN
  /\ poll.pc = "pop"
  /\ rd_idx' = [rd_idx EXCEPT ![l] = (@ + 1) % Width]
  /\ published' = [published EXCEPT ![l] = {poll.frame}]
  /\ poll' = [poll EXCEPT !.pc = IF l = Lidars THEN "status" ELSE "scan",
                          !.lidar = IF l = Lidars THEN 1 ELSE l + 1,
                          !.frame = Free]
  /\ UNCHANGED <<config, storage, wr_idx, count, store, exits>>

\* QueuePopUpdate, and the publication of the copy.
Pop ==
  LET l == poll.lidar IN
  /\ poll.pc = "pop"
  /\ rd_idx' = [rd_idx EXCEPT ![l] = (@ + 1) % Width]
  /\ published' = [published EXCEPT ![l] = {poll.frame}]
  /\ poll' = [poll EXCEPT !.pc = "copy", !.frame = Free]
  /\ UNCHANGED <<config, storage, wr_idx, count, store, exits>>

\* The thread's loop ends when the exit signal is set.
Status ==
  /\ poll.pc = "status"
  /\ PollGoes(IF exit_signal THEN "ended" ELSE "top", 1)
  /\ Quiet

-----------------------------------------------------------------------------
(* ~DriverNode: both flags, then the wait for the thread's end. *)
RequestExit ==
  /\ ~request_exit /\ request_exit' = TRUE
  /\ UNCHANGED <<config, ring, count, store, poll, published, exit_signal>>
SignalExit ==
  /\ request_exit /\ ~exit_signal /\ exit_signal' = TRUE
  /\ UNCHANGED <<config, ring, count, store, poll, published, request_exit>>

-----------------------------------------------------------------------------
Sdk == \E l \in Lidar :
         \/ InfoChange(l)
         \/ \E s \in Setting : \/ SettingDone(l, s)
                               \/ SettingTimeout(l, s)
                               \/ SettingFailed(l, s)
Arrive(l) == \E f \in Frame[l] : FrameReady(l, f)
Storing == StoreFrame \/ Advance \/ CheckPushed \/ ReadCount \/ Signal
Polling == \/ Enter \/ Wait \/ Skip \/ Poll \/ Leave \/ Copy \/ Emptied \/ Pop
           \/ Status

Next == \/ Sdk \/ Storing \/ Polling \/ RequestExit \/ SignalExit
        \/ \E l \in Lidar : Arrive(l)

Spec == Init /\ [][Next]_vars

\* The threads run. Frames keep coming, of some lidar. Each lidar is reported
\* once and answers. And the poll thread does not stay with one lidar for ever:
\* a frame comes every tenth of a second and is published in far less.
Elsewhere == poll.pc \notin {"polling", "copy", "pop"}
Fairness ==
  /\ WF_vars(Storing) /\ WF_vars(Polling) /\ WF_vars(SignalExit)
  /\ SF_vars(\E l \in Lidar : Arrive(l))
  /\ []<>Elsewhere
  /\ WF_vars(\E l \in Lidar : reports[l] = 0 /\ InfoChange(l))
  /\ WF_vars(\E l \in Lidar, s \in Setting : SettingDone(l, s))

FairSpec == Spec /\ Fairness
=============================================================================
