# Verification of consensus_ws

TLA+ models, TLC runs and TLAPS proofs for the three-UAV mapping stack in this
repository: FAST-LIO2 odometry on each UAV, a keyframe front end behind it, a
mission node that flies the UAVs through PX4, the Livox driver in front of the
odometry, and Swarm-LIO with the UDP bridge that carries its states between UAVs.

Paths below are relative to the repository; `fast_lio/` stands for
`src/external_fastlio2/fast_lio/`, `udp_bridge/` and `swarm_lio/` for directories of
`src/external_fastlio2/swarm_lio2_ros2/`, `livox/` for
`src/external_fastlio2/livox_ros_driver2/src/`.

- [1. Inventory](#1-inventory)
- [2. Modules and how they correspond to the code](#2-modules-and-how-they-correspond-to-the-code)
- [3. Runs: what is checked, with which bounds](#3-runs-what-is-checked-with-which-bounds)
- [4. Disagreements found](#4-disagreements-found)
- [5. Proofs](#5-proofs)
- [6. Only model-checked, and not modelled](#6-only-model-checked-and-not-modelled)
- [7. Plan](#7-plan)
- [8. Running it](#8-running-it)

## 1. Inventory

The stack of one UAV, left to right, is

    lidar, IMU --> FAST-LIO --> odometry + registered cloud --> keyframe front end --> keyframes, submap
                     |  ^
                     v  |                  mission node  --setpoints, commands-->  PX4
                   ikd-Tree (map)          mission node  <--odometry, status-----  PX4

On hardware the Livox driver stands where "lidar" is. Swarm-LIO is the odometry of
a fleet whose UAVs tell each other their states:

    Swarm-LIO --state, extrinsics--> UDP bridge ~~~network~~~ UDP bridge --> Swarm-LIO

| Component | State | Operations | Hard behaviour | What makes it correct |
|---|---|---|---|---|
| **ikd-Tree** (`fast_lio/include/ikd-Tree`) | the tree, `Rebuild_Ptr`, `rebuild_flag`, `Rebuild_Logger`, `search_mutex_counter`, four mutexes | `Delete_Point_Boxes`, `Delete_Points`, `Add_Points`, `Nearest_Search`; `multi_thread_rebuild` in a thread of its own | a subtree is copied, rebuilt and swapped while the mapper changes it and OpenMP workers search it | nothing done during a rebuild is lost, doubled or reordered; no search is in a subtree while it is copied or swapped; nobody waits for ever |
| **FAST-LIO: pairing and propagation** (`laserMapping.cpp`, `IMU_Processing.hpp`) | `lidar_buffer`, `time_buffer`, `imu_buffer`, `Measures`, `lidar_pushed`, `lidar_mean_scantime`, `last_imu_`, `last_lidar_end_time_` | `standard_pcl_cbk`, `livox_pcl_cbk`, `imu_cbk`, `timer_callback` (`sync_packages`, `Process`) | late, lost and repeated samples, short scans, scans that reach into the next, clocks that jump back | a scan is used once, under its own stamp, with exactly its IMU samples; the filter stands at the end of the scan; odometry advances with every new scan |
| **FAST-LIO: map cube** (`laserMapping.cpp`, `lasermap_fov_segment`) | `LocalMap_Points`, `cub_needrm` | once per scan, before the scan is matched | lengths that do not fit together | what is deleted is what leaves the cube; nothing the lidar sees is deleted |
| **FAST-LIO: preprocessing, IKFoM filter** | per scan only | numeric | floating point | out of reach of TLC; its effect on pairing, the offset of the last point, is an input of the pairing model |
| **Keyframe front end** (`keyframe_frontend/src`) | `latest_odom_`, `keyframes_`, `next_keyframe_id_` | `odomCallback`, `cloudCallback` (`evaluate`, preprocessing, `createKeyframe`, `publishSubmap`) | odometry and cloud come over two lossy topics; the source may start again | keyframes are spaced and numbered; clouds and submaps are in the frame they claim |
| **Mission** (`multi_uav_offboard/uav1_fastlio_mission.py`) | `phase`, `phase_start`, `origin`, `positions`, `status`, `last_command_time` | `timer_cb` with seven phases, odometry and status callbacks | lost commands, arming timeout, failsafe, restart in flight, late timer | setpoints never jump; commands only after the prestream; the mission ends; UAVs hover at the end |
| **Earlier offboard scripts** (`three_uav_waypoints.py`, `three_uav_staggered_common_area.py`, `uav1_fastlio_motion_test.py`) | elapsed time, counters | open-loop timers | one-shot arming, two nodes on one setpoint topic | separation of the UAVs |
| **UDP bridge** (`udp_bridge/src/udp_online.cpp`, `Teammate.hpp`) | teammates with start time, clock offset and its samples; one mailbox per kind of message; `rcv_WT` | `BroadcastCallback`, `SyncRequestCallback`, `UdpCallback`, `IpIdMsgCallback_`, `TimeSyncCallback_`, `QuadStateCallback_` | a thread that overwrites mailboxes while timers look into them, datagrams lost, doubled and late, restarts | an offset is off by at most half the delay; a relayed state has the time it was made; every peer is found again |
| **Swarm-LIO** (`swarm_lio/src/MultiUAV.cpp`, `ExtrinsicInfection.hpp`, `mars_simple_graph.hpp`) | teammates and when they started, `global_extrinsic_trans`, the graph of extrinsics, `found_all_teammates` | `QuadstateCbk`, `GlobalExtrinsicCbk`, and per scan reset, solve, track | restarts that each UAV notices at another moment, extrinsics of old frames under way | no extrinsic of a frame that is gone; all find each other |
| **Livox driver** (`livox/`) | a ring of frames per lidar with two indices, a semaphore's count, settings outstanding per lidar | `LidarInfoChangeCallback` and the settings' callbacks, `PushLidarData`, `DistributePointCloudData`, destructor | three threads and no lock on the ring, wrapping indices, a count read without its mutex, timeouts | the ring is a queue; no frame waits for a thread that nobody wakes; exit ends |
| FAST-LIVO2, IMU publisher, simulator, Gazebo assets, message definitions, start scripts | – | – | – | vendored, I/O, or without state of their own |

Interaction. FAST-LIO's node has one executor thread (callbacks and the timer
never overlap); inside the timer it calls the ikd-Tree, whose rebuild thread
runs all the time, and starts OpenMP workers that search the tree and are
joined. The front end and the mission node have one executor thread each too.
Nodes exchange ROS 2 messages; the topics in question are best effort with
small depths, so messages are lost but not reordered within a topic. The bridge has
a UDP thread and an executor thread that share mailboxes, Swarm-LIO a scan thread
and callbacks, the Livox driver the SDK's threads and a poll thread. The start
scripts kill and start nodes one by one, so each of them may start again under
the others.

The hazards this code is exposed to are listed line by line in `PROJECT.json`
with the property that covers each, or the reason why none does yet.

## 2. Modules and how they correspond to the code

| Module | Models |
|---|---|
| `IkdRebuild` | the rebuild protocol: rebuild thread, mapper, searchers |
| `IkdRebuildProps` | its properties |
| `IkdRebuildProofs` | theorems about it, among them that it implements `PointMap` |
| `FastLioSync`, `FastLioSyncProofs` | scan/IMU pairing and the time accounting of the filter; theorems |
| `PointMap` | abstract: the map as a set of points; `IkdRebuild` implements it |
| `MapWindow`, `MapWindowProofs` | the map cube and what it deletes; theorems |
| `KeyframeFrontend`, `KeyframeFrontendProofs` | the front end behind a source that lags, loses messages and starts again; theorems |
| `PointLimit` | which points of a large cloud the front end keeps (theorems in `KeyframeFrontendProofs`) |
| `Mission`, `MissionProofs` | the mission node against PX4; theorems |
| `UdpBridge`, `UdpBridgeProps`, `UdpBridgeProofs` | bridges over a lossy network: discovery, clock offsets, relay; theorems |
| `SwarmTeammates`, `SwarmTeammatesProps`, `SwarmTeammatesProofs` | how Swarm-LIO estimators find each other's frames; theorems |
| `LivoxDriver`, `LivoxDriverProps`, `LivoxDriverProofs` | the Livox driver's threads; theorems |
| `FrameQueue` | abstract: a bounded queue of frames per lidar; `LivoxDriver` implements it |
| `MC...` | instances for TLC, one per module with runs |

Definitions keep the names of the source. Operators commented "Mutant" are
plausible mistakes, used only to show that a property notices them.

### IkdRebuild

*State.* `Rebuild_Ptr`, `rebuild_flag`, `Rebuild_Logger` and
`search_mutex_counter` are the code's. `working` is the owner of
`working_flag_mutex`; `rebuild_ptr_mutex_lock` is held by the rebuild thread in
every position but `"idle"`; `search_flag` is only non-free where
`search_flag_mutex` is held across a traversal (`Search_by_range`), the short
lock/unlock pairs being one step. `content` and `pending` are the tree: the root
and two sons, one of which stands for any subtree that may be rebuilt and the
other for its sibling. Below that level the tree is a set of points.
`pending[s]` is a deletion of the whole tree that marked the root and was not
pushed down to `s` yet. `rooted` is `Root_Node != nullptr`.

*Actions.* The rebuild thread (`R...`) is split at every lock, unlock and wait
of `multi_thread_rebuild`. A request of the mapper (`MDeleteBox`, `MPoint`,
`MDownsample`) lays out the steps its descent takes in `todo`; every node visited
is a step (`MVisit`, or `MVisitTarget`, `MLock`, `MApply` at the target),
because `Rebuild_Ptr` is read again at every node. `TryRebuild` is `Rebuild`,
called on the way back up. `Withdraw` is what happens just before it: a node that has
fallen below `Multi_Thread_Rebuild_Point_Num` takes its request back
(`Rebuild_Ptr = nullptr`, ikd_Tree.cpp 843-844, 911-912, 984-985, 1051-1052), without
`rebuild_ptr_mutex` and also while the rebuild thread is at work on it. The target
itself can do so after an operation (`MApply`), and so can the root when the mapper
comes back up to it (`MUnwind`), for instance in the second operation of `Add_Points`
(519), which still runs with `allow_rebuild`. A son visited without the lock
(`MVisit`) cannot: it was not the request when the descent entered it, only the mapper
makes requests, and it does so after the test. From then on the rebuild thread reads
through a null pointer where it copies or replaces the target (271, 316, 330):
`RLostRequest`. Where it has replaced the target already it ends as usual. The searchers' loop in `Nearest_Search`/`Search` is
`SVisit`, `SEnter`, `SLeave`, `SWalkEnd`.

*Abstractions.* Which subtree is unbalanced is a free choice. A subtree below
`Multi_Thread_Rebuild_Point_Num` points is rebuilt in place by the mapper, which
the set of points does not show. Where it encloses the target of a withdrawn request
it frees nodes the rebuild thread is copying; that use after free is not modelled (the
thread stops at the next null pointer). `Add_Point_Boxes` and `Add_by_range` are never
called by the node. A test of `Rebuild_Ptr` is one load. The sizes kept in the
nodes, `working_flag`, `Points_deleted` and `push_down_mutex_lock` are left out.
`raced` is history: it names the ways in which an operation of the mapper escaped
the protocol ("unlogged": it reached a subtree in flight without the lock;
"overlogged": it was logged though the copy will not be swapped in any more;
"emptied": the copy was empty and the log was skipped; "withdrawn": the request of the
running rebuild was withdrawn).

*Null root.* `new_root_node->TreeSize` with a null pointer is undefined: the
process stops (`REmptyCrash`), or, where the build drops the unused load, an
empty subtree is put in place (`REmptySwap`), which leaves `Root_Node` null if the
target was the root. A root whose points are all deleted also becomes null when it is
rebuilt in place (`MUnwindEmpty`). A deletion at a null root returns at once, a scan
builds a new tree (`MBuild`), and what reads through it, as an insertion does or the way
back up from a visited son, stops the process (`MNullRoot`). The liveness properties
end in a stop too, since a stopped process owes nobody anything.

*PointMap* is what FAST-LIO takes the tree to be: a set of points which the mapper's
requests change one at a time, without a second thread. A deletion takes effect
piece by piece, because a descent does; a downsampled cell ends with one point; an
empty map may be started again from a scan.
The refinement maps the request under way to what it still has to take out and put
in (`removing`, `adding`), and maps a state in which something escaped (`raced`) to
the abstract `Escape`, from which nothing is promised.

### MapWindow

`lasermap_fov_segment` in three axes, one action per scan (`FirstSegment`,
`Segment`), with the position of the lidar as input. Lengths count twentieths of a
metre, in which the code's factors 1.5, 0.5 and 0.45 are exact. The order of the
tests (lower edge first), the absolute distances and the boxes, which are cut from
the old cube in all axes, are the code's.

### FastLioSync

Every callback of the node is one action: `LidarCallback` (both lidar callbacks,
which agree in everything modelled), `ImuCallback`, and the timer, `Idle`, `Wait`
or `Package` by how `sync_packages` ends. A complete package goes on to
`Process` (`ImuInit`, `UndistortPcl`) and to `Register`, the rest of
`timer_callback`. Times are integers; a scan is its number, stamp and the offset
of its last point: 0 for at most one point, and for every scan of `default_handler`
(`lidar_type` 5, the Gazebo configurations), which gives all points curvature 0
(preprocess.cpp 559-589). Where times are reconstructed an offset may grow by a turn
(458-459, 546-547), so a scan may reach beyond the stamp of the next one, or beyond its
end: nothing is assumed of an offset but that it is not negative. The weight of the running mean
`lidar_mean_scantime` is left open: any value between the old mean and the new
duration. `kf_time` adds up the intervals the filter is predicted over
(`Interval`, summed by `Propagated` as the loop of `UndistortPcl` does). Any scan, whatever
its offset, is registered or is empty after preprocessing and skipped
(laserMapping.cpp 1006). Not modelled: `time_sync_en`, false in every
configuration of the stack; the filter's numbers; map maintenance.

### KeyframeFrontend

`OdomCallback` and `CloudCallback` are the two callbacks, the latter `Skipped`
at one of its four early returns or `Created`. A callback takes any message
under way and those before it are lost, which is a best-effort topic without
reordering. `Scan` is FAST-LIO sending odometry and cloud of one scan, `Restart`
is FAST-LIO started again: a new origin, and with `ClockRestarts` a new clock.
Poses are quarter turns and integer positions in the plane, so that composition
and inversion are exact and a wrong order or a missing inverse shows. The voxel
grid (PCL) is taken to leave the cloud as it is; when a cloud is larger than
`MaxPoints`, any `MaxPoints` of it may be left. `truth`, `shown`, `windows` and
the fields `at` and `seen` are history for the properties. Which points
`limitPointCount` keeps is `PointLimit`; the front end is checked for any choice.

### Mission

`TimerCallback` is `timer_cb`: one action per phase, each with the publication,
the command requests and the phase change of one call. `period'` is the time
since the call before, `Lag` the time between the two looks at the clock in
`SQUARE`. Reports are stored only in the phases that read them. PX4 is external:
commands may be lost or refused, each for each UAV; `Follow` brings an armed UAV
in offboard mode to its setpoint; `Drop` is a failsafe or the pilot; `Restart`
starts the node again in flight. PX4 reports far more often than the timer
fires (the topic is best effort, the report rate some tens per callback), so a
position once reported follows the UAV.

### UdpBridge

The UDP thread (`Deliver`) writes the mailbox of a message's kind and `rcv_WT`
without regard to what is in it. The executor's timers send (`Broadcast`,
`SyncRequest`, `SendState`) and look into the mailboxes (`HandleIpId`,
`HandleAnswer`, `TakeAsk`, `HandleState`). The one callback that uses what the UDP
thread may write after it has left the lock is the server's side of
`TimeSyncCallback_`: it is split into `TakeAsk`, `ReadNsec` and `HandleAsk`, so that
the arrival time may be that of a later request, or half of each. `net` is the
network: it loses, delays, reorders and repeats. `Restart` ends a process at any
point and starts it again with its clock. An estimate is kept as sums, so that all
numbers are integers.

*Abstractions.* Real time is a counter and clocks differ by a constant. QUAD_STATE
and GLOBAL_EXTRINSIC are relayed alike and are one kind. The broadcast that a node
hears from itself is left out; it is ignored after having overwritten a mailbox,
which is a loss. A state that arrives while one is published is never looked at
(udp_online.cpp 288): also a loss.

### SwarmTeammates

Each start of an estimator makes a new world frame; an extrinsic is abstracted to
the start whose frame it leads to, and to `Wrong` when edges disagree. Callbacks:
`QuadstateCbk`, `GlobalExtrinsicCbk`, and `Settle`, the moment two seconds after
the first contact from which a teammate's extrinsics are accepted. A scan is three
steps, between which callbacks may run: `ResetReconnectedGlobalExtrinsic`, `Solve`
(`UpdateFactorGraph` and what follows), `Track` (trackers by trajectory matching,
publication). `Solved` follows the edges instead of optimising over them. One
message per sender and receiver is under way: the bridge keeps the latest.

*Assumptions.* A UAV that starts again was away for longer than the 300 scans for
which trajectories are kept: a quicker start could be matched against odometry of
its old frame, whose time is never cleared. And, as the comment at MultiUAV.cpp:210
says, two seconds suffice for a teammate to have dealt with the start of the UAV
that waits. What may be heard later from a third UAV is left open.

### LivoxDriver

Three threads, one action per access to what they share. The SDK's thread reports
lidars and answers settings (`InfoChange`, `SettingDone`, `SettingTimeout`,
`SettingFailed`); the storing thread writes a frame, advances the index, looks
whether it is still there, reads the semaphore's count and signals (`FrameReady`,
`StoreFrame`, `Advance`, `CheckPushed`, `ReadCount`, `Signal`); the poll thread waits
and empties the rings of the lidars that are sampling (`Enter` to `Status`). The
indices count modulo `Width`, which stands for 2^32. *FrameQueue* is what the two
last threads promise together: the refinement maps a ring to the frames between
its indices.

## 3. Runs: what is checked, with which bounds

| Run | Shows | Bounds, and why they are enough |
|---|---|---|
| `ikd_safety` | `SearchExclusion`, `ReplayCatchesUp`, `RebuildInvisible`, `ImplementsPointMap`: in every interleaving searches are shut out while the subtree of a request that stands is copied or swapped, and while no operation escapes the protocol a rebuild changes nothing one can see and the tree is a set of points | three points, two below one son and one below the other, so that a target has a sibling and may keep a point when another is deleted; three requests, so that one causes the rebuild and two come during it; two searchers, interchangeable under `SYMMETRY`, so that one can be inside while another waits; one point is added plainly and one deleted: at most three requests leave no room for more |
| `ikd_liveness` | `RebuildCompletes`, `RequestCompletes`, `SearchesComplete` | as above with two requests, nothing deleted singly, and one searcher; a waiting cycle needs one of each thread |
| `lio_sync` | `PairedStamp`, `ImuOfScan`, `FilterAtScanEnd`, `OdometryAdvances` | four scans 2 or 3 apart with offsets 0, 1 and 3 (none, short against the mean, past the stamp of the next scan), samples 2 or 3 apart, so that samples fall before, on and after an end, whole scans go without one, and a scan ends inside or after the next; times up to 12; the uninitialised member is before, between or after the samples; `MAX_INI_COUNT` 1 leaves two scans after the initialisation, which may reach into each other and be repeated |
| `kf_frontend` | `KeyframesSpaced`, `IdsContiguous`, `KeyframeCloudSeen`, `SubmapOfOneRun` | four scans, window 1: keyframes can leave the window; one restart of the source with its clock, at any moment; clouds of three points against `MaxPoints` 2; moves that advance, and advance and turn; tolerance 1 with steps 1 and 2: the odometry of another scan may or may not be accepted; one view can be emptied by the crop |
| `mission` | `SpeedBound`, `StreamedBeforeOffboard`, `RestartInPlace`, `MissionCompletes` | two UAVs with different heights and a rectangle with different sides; every phase lasts at least one and up to four callbacks; timer periods of 1 and 2; one restart and one drop out of offboard mode at any moment |
| `udp_safety` | `OffsetWithinDelay`, `RelayedInTime`: whatever the network does, an estimated clock difference is off by at most half the measured delay, and a relayed state by no more | two UAVs whose clocks differ, one of which asks; an estimate of two answers, so that a late or doubled one can be part of it; two datagrams under way, one overtaking the other; a second of two ticks, so that an arrival time can be read across a full second; one restart or one repetition |
| `udp_liveness` | `SyncsForGood` | one datagram under way and one answer per estimate; one restart at any moment |
| `swarm_pair` | `NoStaleExtrinsic`, `FoundAllTracked`, `FoundForGood`: two UAVs that start again find each other's present frame, and keep none of an earlier one | two restarts of each, in any order: extrinsics and start times of two earlier frames can be under way |
| `swarm_row` | `InfectionCompletes`: the ends of a row are found through the middle | three UAVs; only the middle one sees others, so that every frame of an end has to come through the graph; no restart |
| `livox_safety` | `ImplementsFrameQueue`, `NoOrphanedSetting` | two listed lidars, one with two settings and reported twice, one that refuses; rings of two slots with indices modulo 4, so that a ring is full, empty and wraps; two different frames |
| `livox_liveness` | `NoMissedWakeup`, `LidarsHeard`, `ExitEnds` | two lidars that sample, the second only when it is reported again; the same rings |
| `map_gazebo` | that `ViewKept` fails with the lengths the three UAVs are configured with (section 4) | the lengths themselves: 200 m and 100 m; the lidar at rest or moving by a metre |

The times are scaled down together: what matters is how many callbacks a phase
takes and whether a boundary is hit or jumped over, and both happen. The
run of `KeyframeFrontend` bounds the number of scans and stops when all messages
are consumed, and those of `LivoxDriver` stop with the poll thread ended: they say
`CHECK_DEADLOCK FALSE`.

Every property of a passing run has a mutant: an operator of the module with one
plausible mistake under which TLC finds the property violated.

### Fairness

*IkdRebuild.* Each thread is scheduled, and the mutexes and counters are polled
with `usleep`/`pthread_mutex_lock`: strong fairness, since a thread that meets a
free mutex again and again gets it at some time, though pthread mutexes are not
queues. What justifies it is idle time: the mapper waits for the next cloud and
the searchers end with the scan. Nobody is obliged to start: fairness is on the
steps of a request that was begun and of searches that were started, never on new
requests, scans or rebuilds.

*Mission.* The `rclpy` timer keeps firing and PX4 keeps reporting positions of
every UAV: weak fairness of `TimerCallback` and of each `OdomCallback`. Nothing
is assumed of PX4's answers: the mission completes even if every command is
refused for ever. Without odometry it rightly waits.

*UdpBridge.* The sending timers go on; of datagrams that are sent again and again
some get through (strong fairness of `Arrive` for each receiver and kind); a
mailbox that is filled every 100 ms is found full by a timer that looks every
millisecond (strong fairness, since it may be overwritten in between). Nothing is
assumed of a particular datagram.

*SwarmTeammates.* Every UAV keeps scanning and publishing; QuadStates arrive and two
seconds pass (weak fairness); UAVs that see each other fly trajectories that can be
matched, and an extrinsic that says something new arrives in the end (strong
fairness, since tracking is open only between other steps and messages are lost).

*LivoxDriver.* The threads run; some lidar keeps sending; each lidar is reported and
answers. `[]<>Elsewhere` says that the poll thread does not stay with one lidar for
ever: a frame comes every tenth of a second and is published in far less. Without
some lidar that sends, `ExitEnds` is false: the destructor then waits for ever.

## 4. Disagreements found

One run checks a statement of the repository and ends in a counterexample that the
code follows in the configuration this stack flies with. The quotation is in
`PROJECT.json` under `findings`.

| Run | Statement | What the code does |
|---|---|---|
| `map_gazebo` | the map is segmented "in lidar FOV" (laserMapping.cpp:1014) | `uav1_gazebo.yaml`, `uav2_gazebo.yaml` and `uav3_gazebo.yaml` give the cube 200 m and `det_range` 100 m. The threshold, 1.5 detection ranges, is wider than half the cube, so an edge is near wherever the lidar is, and the lower one is served first: with a UAV at rest the second scan deletes what is 50 to 100 m away in the direction of any axis, the third all within 50 m, and then the cube goes up and down by 50 m for ever, deleting the same on every other scan before the scan is matched. `RoomyKeepsView` proves that a cube of three detection ranges (300 m) does not do this; `avia.yaml` (1000 m, 450 m) is short of it too |

The following statements fail too, in the way described, and have no run of
their own. Each is a definition next to the properties that are checked; a
configuration with the constants given finds the counterexample within two minutes.

| Definition | Statement | What the code does | Constants |
|---|---|---|---|
| `LogStartsEmpty` (`IkdRebuildProps`) | the log is empty when a rebuild starts (the code prints ERROR!!! otherwise, ikd_Tree.cpp:244) | `rebuild_flag` is cleared (352) after the mutex is given up (351), so an operation already done on the new subtree is logged for the next rebuild | `Added` all points, no boxes, `MaxOps` 3 |
| `SwapInSync` (`IkdRebuildProps`) | "Updates the blocked operations into the new tree" (ikd_Tree.cpp:285) | `Add_Points` looks at `Rebuild_Ptr` once (513) for two operations; the first may request a rebuild of the root, and the point the second adds is neither copied nor logged | `Voxel` as `MCVoxel`, nothing else added or deleted, `MaxOps` 2 |
| `NoUseAfterFree` (`IkdRebuildProps`) | "Delete discarded tree nodes" (ikd_Tree.cpp:353) | the box search of `Add_Points` (501), which never looks at `search_mutex_counter`, may stand on them | `Added` one point, `Voxel` as `MCVoxel`, `MaxOps` 2 |
| `ExclusionUnconditional` (`IkdRebuildProps`) | "Lock Search" (ikd_Tree.cpp:257): no search is in a subtree that is copied or replaced | the mapper withdraws the request of a running rebuild without `rebuild_ptr_mutex` (843-844, 911-912, 984-985, 1051-1052); the next search does not recognise the target and goes in without counting itself. The rebuild thread then reads through the null pointer (271, 316, 330) | as `ikd_safety` |
| `PairedStamp` (`FastLioSync`) | "lidar loop back, clear buffer" (laserMapping.cpp:294) | it clears one of the two queues (295, 323) | `LoopBack` TRUE, `ImuStep` 1, three scans |
| `RegisteredOnce` (`FastLioSync`) | "No point, skip this scan!" (laserMapping.cpp:1008) | `Process` returns (IMU_Processing.hpp:344) before the points are replaced, and the scan before is registered again | as `lio_sync` |
| `OdometryStrict` (`FastLioSync`) | odometry is published with the stamp of its scan's end (laserMapping.cpp 631-635), which readers take to move forward | a repeat (the row above) carries the end of the scan without samples; where that scan ends before the one it repeats, the stamp goes back | as `lio_sync` |
| `SubmapSeen` (`KeyframeFrontend`) | clouds are unified into the frame of the center | across a restart of FAST-LIO the two frames differ (submap_builder.cpp:54) | one restart, moves `MCFewMoves`, one view |
| `ClimbsOnRamp` (`Mission`) | the UAVs take off together along a ramp | the ramp runs by the clock (uav1_fastlio_mission.py:350) and a UAV that arms late is given a setpoint far above it | no drop, no restart, `Period` 1 |
| `NoStaleExtrinsic` (`SwarmTeammatesProps`) | within two seconds the other aircraft delete the extrinsic of a teammate that started again (MultiUAV.cpp:210) | the two seconds count from the first contact with the sender of an extrinsic (215), not from the start of the UAV it is about: a UAV that has noticed a restart takes the old frame back from a third that published before it noticed. It holds of a pair | `UAVs` as `MCRow`, `Sees` as `MCRowSees`, `Met` empty, `MaxStart` 2 |
| `FoundForGood` (`SwarmTeammatesProps`) | all find each other's frames | in a row of three an extrinsic that is solved before the teammate's first QuadState is dropped with the local state, and the graph is not solved again as its nodes are the same (ExtrinsicInfection.hpp:76). This is why `InfectionCompletes` has a premise | as `swarm_row` with `Met` empty |

Further divergences are followed by the models without a run of their own:

- `new_root_node` is read through where it may be null (ikd_Tree.cpp 328, 332):
  `REmptyCrash`;
- `last_lidar_end_time_` is compared before it is ever assigned
  (IMU_Processing.hpp 249): with a time after the last sample of the first deskewed
  scan in it, that scan skips all its IMU intervals, and the filter ends neither at
  the end of the scan nor as far from its start as the clock says. `FilterAtScanEnd`
  exempts just that scan with just such a value, and the proof shows that nothing
  else need be exempt;
- a `TMin` of 0 would let keyframes go back in time: the age of a keyframe is
  clamped to 0 (keyframe_manager.cpp 45), which then passes the test. This is why
  `SpacedByTMin` assumes `TMin > 0`, as every configuration has it;
- `publishSubmap` passes the newest keyframe as the center, so a submap holds
  nothing ahead of its center, where keyframe_frontend/README.md:10 speaks of ±3
  keyframes;
- after the simulation's clock starts over, no keyframe is made, not even by the
  timeout, until it has caught up with the last keyframe (keyframe_manager.cpp
  45-52);
- in `FINAL_HOLD` nothing asks for offboard mode again.

## 5. Proofs

The theorems hold for every value of the constants that meets the assumption named
in the module (`ConstAssumption`, `SyncAssumption` and so on: types, and what the code
needs to make sense at all) and the hypotheses in the table. The bounds that keep
TLC's instances finite (`MaxOps`, `MaxTime`, `MaxRestarts` ...) are any natural number
there. `LoopBack` is FALSE for a source whose stamps do not jump back; with it the
claims are false (section 4).

| Module | Theorem | Statement |
|---|---|---|
| `IkdRebuildProofs` | `TypeCorrect` | `Spec => []TypeOK` |
| | `SearchesExcluded` | `Spec => []SearchExclusion` |
| | `NothingMissed` | `Spec => []ReplayCatchesUp` |
| | `RebuildsInvisible` | `Spec => RebuildInvisible` |
| | `TreeImplementsPointMap` | `Spec => ImplementsPointMap` |
| `FastLioSyncProofs` | `SyncTypeCorrect` | `Spec => []TypeOK` |
| | `SamplesOfScan` | `Spec => ImuOfScan` |
| | `ScansKeepStamps` | `~LoopBack` implies `Spec => []PairedStamp` |
| | `OdometryForward` | `~LoopBack` implies `Spec => []OdometryAdvances` |
| | `FilterReachesEnd` | `~LoopBack` implies `Spec => FilterAtScanEnd` |
| `MapWindowProofs` | `MapTypeCorrect`, `DeletedIsLeft` | `Lengths` implies `Spec => []TypeOK` and `Spec => DeletesWhatLeaves` |
| | `RoomyKeepsView` | `Lengths` and `Roomy` imply `Spec => [](ViewMapped /\ ViewKept)` |
| `KeyframeFrontendProofs` | `FrontendInvariant`, `FrontendTypeCorrect` | `Spec => []FrontendInv`, `Spec => []TypeOK` |
| | `IdsInOrder` | `Spec => []IdsContiguous` |
| | `SpacedByTMin` | `TMin > 0` implies `Spec => []KeyframesSpaced` |
| | `CloudsAreSeen` | `Spec => []KeyframeCloudSeen` |
| | `SubmapsAreSeen` | `Spec => []SubmapOfOneRun` |
| | `LimitIndices`, `LimitedCloud` | `limitPointCount` keeps as many points as it may, all of the cloud, none twice |
| `MissionProofs` | `MissionInvariant`, `MissionTypeCorrect` | `Spec => []MissionInv`, `Spec => []TypeOK` |
| | `StreamedFirst` | `Spec => []StreamedBeforeOffboard` |
| | `SetpointsNeverJump` | `Spec => SpeedBound` |
| | `StartsInPlace` | `Spec => RestartInPlace` |
| `UdpBridgeProofs` | `BridgeTypeCorrect` | `Spec => []TypeOK` |
| | `OffsetBounded` | `Spec => []OffsetWithinDelay` |
| | `RelayedWell` | `Spec => []RelayedInTime` |
| `SwarmTeammatesProofs` | `FleetTypeCorrect`, `FoundTracksAll` | `Spec => []TypeOK`, `Spec => []FoundAllTracked`, for a fleet of any size |
| | `PairNeverStale` | of two UAVs, `Spec => []NoStaleExtrinsic` |
| `LivoxDriverProofs` | `DriverInvariant`, `DriverTypeCorrect` | `Spec => []DriverInv`, `Spec => []TypeOK` |
| | `NoOrphans` | `Spec => []NoOrphanedSetting` |
| | `RingsAreQueues` | `Spec => ImplementsFrameQueue` |

**SearchesExcluded.** `SearchExclusion` is not inductive: a step that locks
searches out only tests a counter, so the counter must be tied to who is inside,
and a search that took no lock is only harmless because of what it saw when it
started. `SearchInv` adds:

- `CounterCounts`: unless searches are locked out, the counter is the number of
  searchers in position "in" (a cardinality, kept by `FS_AddElement` and
  `FS_RemoveElement` of the library); while they are locked out nobody is in;
- `SearchInScan`: searchers are active only while the mapper waits for them, so
  the mapper cannot change `Rebuild_Ptr` under them;
- `TargetIsRequest`: in a running rebuild `Rebuild_Ptr` is the target or, once the
  request was withdrawn, null; it never becomes another node meanwhile, since a new
  request needs `rebuild_ptr_mutex`. So while the request stands, what a searcher
  compares with is what the rebuild thread works on;
- `WalkAside`: while the request stands, a search that took no lock is in no subtree of
  the target.

The premise `Rebuild_Ptr # None` of `SearchExclusion` is needed: after a withdrawal searches
do go into the target (`ExclusionUnconditional`, section 4).

**NothingMissed and RebuildsInvisible.** The heart is the equation
`Replayed(new, log) = TargetPoints`, where `Replayed` says without recursion what
the last operation on a point makes of it. Two lemmas carry it through a step:
appending an operation to the log performs it on the result, and replaying the
head of the log leaves the result as it is. For the equation to survive the other
steps, `ReplayInv` adds who may write when: the rebuild thread holds
`working_flag_mutex` wherever it reads or replaces the target (`RebuildHolds`), the
mapper holds it where it operates on the target (`MapperHolds`) and is then at
that target (`AtTarget`), `rebuild_flag` is set for the whole of a rebuild
(`FlagWhileBusy`), a root target leaves nothing beside it (`RootAlone`), an empty
copy never meets a replay (`EmptyCopy`) and the log is empty when the swap begins
(`LogEmpty`). With this, the swap puts in place exactly what was there.

These two are conditional on `raced = {}`, and have to be: section 4 shows that without
the condition the claim is false, and `raced` names the four ways out.

**TreeImplementsPointMap.** The steps a request laid out in `todo` have to add up to
what the abstract request promised, whichever of them are done. `RequestInv` says how,
on top of `ReplayInv` and while `raced = {}`:

- `Plan`: the steps are in the order in which a descent makes them, and those of one
  request fit together (`Before`, `Fit`);
- `Routed`: the points below a son are those that belong there, so that a step at a
  son meets all the points it is about;
- `PushesFirst`: a deletion that only marked the root is pushed to a son before
  anything operates, searches or decides there;
- `DeletionsLeft`: a point still to go is still there, and a step that is left will
  meet it;
- `FoundSoFar`: what the box search of a downsampled cell has found is what is there,
  less what it has still to look at.

Each action then has one abstract step: laying out a request begins a deletion, an
insertion or a downsampling; the decision of `Add_Points` keeps a point (`Keep`);
an operation takes out a part (`RemoveSome`), the rest (`RemoveRest`), or puts in what
is to be put in (`Finish`); everything the rebuild thread and the searchers do is
invisible, by `RebuildsInvisible`; and a step that adds to `raced` is the abstract
`Escape`. TLC checked the invariant on the instance of `ikd_safety` before it was proved.

**FastLioSyncProofs.** `SourceInv` needs nothing of the source: samples are buffered in
order, since `imu_cbk` clears the buffer when they are not. `ForwardInv` is about stamps
that move forward: the queues of scans and of stamps stay in step (`InStep`), and no
sample, in the buffer or still to come, is from before the end of a scan that was
registered (`RegisteredBefore`). That is why odometry moves forward although scans may
reach into each other: a scan is registered anew only with a sample from before its own
end, and that sample is not from before the end of any scan registered earlier. It also
says that a scan left in `feats_undistort` was the last one registered, so that what a
package without samples registers is a repeat. Nothing is assumed about offsets, and
neither this nor `FilterAtScanEnd` needs scans to end before the next one begins.
For `FilterAtScanEnd` the intervals of a scan are the recursive
function `Propagated`; `FilterInv` says where the filter stands before one, and the
sum telescopes to the end of the scan. This is by induction over the samples: there is no
first sample at which the claim fails, since the library gives every set of numbers
a least one.

**RoomyKeepsView and DeletedIsLeft.** For any `cube_len` and `det_range`: a point of the
old cube is outside the new one just if some axis moved past it, and then it lies in
the strip deleted along that axis, whose other sides are the old cube's. The cubes are
closed, so points on a common face may be in both. `Roomy` is
`cube_len >= 3 * det_range` and a lidar that moves by at most half of `det_range`
between two scans. The invariant is `ViewMapped` (there is room for `det_range` on either
side of the lidar) with `CubeSide` (the cube keeps its size): with that room before a
scan, the lidar is still half a range inside when the next one comes, on whichever side
it moved; a move of the cube gives at least that half back, and leaves a full range on
the other side (`RoomLeft`), which is also why the strip on that side is out of view. It
needs no bound on the space.

**KeyframeFrontendProofs.** `FrontendInv` keeps the histories in step with the keyframes
(`LengthsInv`), a message's points with what its scan showed (`CloudsInv`), the cloud of
a keyframe with the useful part of its scan seen from its pose (`LocalsInv`), and the
submap with the window of the newest keyframe (`SubmapInv`). What is said of clouds
rests on lemmas about the quarter turns and shifts of the model: composition is
associative, an inverse undoes its pose, and images of sets follow. The change of frame
then cancels just if both sides come from one run of FAST-LIO.
*LimitIndices:* `size / max` exceeds 1, so two successive quotients differ by at
least 1; the last is below `size`, so the `min` in the code never decides. The
quotients are exact in the model and doubles in the code: for `size * max` below
2^50 the difference is too small to matter.

**MissionProofs.** `SpeedBound` compares two successive setpoints, over any change of
phase. `MissionInv` therefore says which setpoint it is: that of the current phase at
its age (`SetpointInv`), between the ground and the height to go to (`HeightsInv`);
and that the stream is as old as the phase says (`StreamInv`), which is
`StreamedBeforeOffboard`. Within a phase the bound is that of an interpolation in
integers: in `d` ticks of at most `n`, a `Lerp` moves by at most the distance over `n`,
rounded up, for each tick. It is wanted also across the corners of the rectangle, hence
for paths of several legs (`Flies`), and at the end of the last leg, where the setpoint
may be late by `Lag`.

**OffsetBounded.** The argument is about real time, `Real(t, n)`. `NetInv` says of every
message under way that it could have been sent by now, and of an answer that its
request was sent before the server's arrival time and its answer after it. A measurement
is then off by at most its delay (`PeerInv`, with sums). What
makes it hard is the arrival time, which the UDP thread writes while the timer reads
it in two halves: `ArrivalInv` says that the request being answered was sent no later
than the time that would be read, also if the two halves are of different messages
(`Torn`), since the halves are read in an order in which the time can only become later.
`RelayedInTime` follows from the same bound.

**PairNeverStale.** An edge leads from one frame to another, and the two UAVs notice a
restart at different moments. `PairInv` is the conjunction of what a UAV has heard of
the other (`HeardInv`), the frames its own edges lead to (`FrameInv`) and those in a
message under way (`SentInv`): once a UAV listens, what is sent to it leads to its present
frame. It is stated for two UAVs, since of three it is false (section 4).
`FoundTracksAll` needs no more than the types and the form of a graph (`EdgesInv`). That
`Solved`, a fixed number of rounds over the edges, agrees on a start is again shown with
a least counterexample.

**RingsAreQueues.** No lock protects a ring. `StoreInv` and `PollInv` say what each thread
may rely on between two of its steps: the ring has a free slot when the storing thread
advances the index, since only it fills the ring; the frame the polling thread copied
is the oldest, since only it empties it. Indices count modulo `Width`, a multiple of
`Size`, so that the slots follow each other across the wrap; `Used`, a difference modulo
`Width`, is shown to be the length of the abstract queue. `ConfigInv` is
`NoOrphanedSetting` with the types it needs.

## 6. Only model-checked, and not modelled

*Only model-checked.* The liveness properties (`RebuildCompletes`, `RequestCompletes`,
`SearchesComplete`, `MissionCompletes`, `SyncsForGood`, `FoundForGood`,
`InfectionCompletes`, `NoMissedWakeup`, `LidarsHeard`, `ExitEnds`): what fairness brings
about, and `ENABLED`, are outside the prover's reach. `ViewKept` with the lengths of the
Gazebo configurations is false, which a run shows. Every other property of a run is
a theorem. What the recursive functions of `FastLioSync` and `SwarmTeammates` compute is
proved by least counterexamples, not with the library's induction theorems, which take
an operator as a parameter and are outside the prover's reach too.

*Not modelled*, by part:

- **FAST-LIO**: the Kalman filter, plane fitting, voxel grids, tree balancing and
  preprocessing: floating-point numerics, in which TLC finds nothing. Of
  `map_incremental`, which points are added; its requests to the tree are the
  mapper's in `IkdRebuild`. Torn or reordered reads of the racy pointer
  `Rebuild_Ptr`. Sizes in tree nodes, the fixed length of `MANUAL_Q` and of the plot
  arrays: see the hazards.
- **UDP bridge**: `last_rcv_time_` and the connection status, battery and drone
  state, the list of matched teammates (udp_online.cpp 701-720) with its
  uninitialised slots, the offset file written on exit, clocks that jump or
  run at different speeds, the rounding of seconds to doubles and of start times to
  floats.
- **Swarm-LIO**: clusters, trackers and their filters, mutual observations: numeric.
  The rehash of `teammates` under the scan (MultiUAV.cpp 198) is undefined; the model
  takes an insertion as atomic. A teammate with few samples breaks off the
  matching of those after it (1114): the model lets any of them be matched.
- **Livox driver**: framing by time, point conversion and message formats, the IMU
  path (the same protocol with a locked list), files as a source, and
  `is_timestamp_sync_`, which only says how a time is written.
- **Earlier offboard scripts**: three open-loop demonstrations that the mission node
  replaced: setpoints by elapsed time and one command each, without feedback. An
  older script still starts one (`start_three_uav_takeoff.sh`).
- **Vendored and assets**: FAST-LIVO2, the IMU publisher, simulators, worlds,
  messages, launch files: not this program's logic, or without state.

The models cover a small share of the repository's lines, and cannot cover much:
most of them are vendored numerics (filters on manifolds, plotting bindings,
FAST-LIVO2's vision, a physics simulator) and the second copy of FAST-LIO inside
Swarm-LIO, whose logic is the one modelled here.

## 7. Plan

Done so far, in order of importance: the rebuild protocol with its proofs, the
pairing, the front end, the mission; then the bridge, the abstract map, the Livox
driver, the teammates' frames, the map cube and the point limit with their proofs.

All safety properties of the runs are theorems, and both refinements. What may follow:

1. `SwarmTeammates`: a condition on the messages of a third UAV under which
   `NoStaleExtrinsic` holds of three or more, and its proof. It is
   proved for two and fails for three (section 4).
2. `KeyframeFrontend` and `FastLioSync` are joined by topics only; a composition would say
   that the stamps the front end pairs are those of one scan.
3. `Handover`, two setpoint publishers on one UAV, if the earlier scripts come to be
   used again.

## 8. Running it

    tlc -workers 2 -config ikd_safety.cfg MCIkdRebuild.tla
    tlapm IkdRebuildProofs.tla

`PROJECT.json` pairs every run with its module and configuration, every
definition with the lines it models, and every property with its mutant.
