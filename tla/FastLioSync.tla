----------------------------- MODULE FastLioSync -----------------------------
(***************************************************************************)
(* How FAST-LIO pairs lidar scans with IMU samples and carries its filter  *)
(* from scan to scan (fast_lio/src/laserMapping.cpp: standard_pcl_cbk,     *)
(* livox_pcl_cbk, imu_cbk, sync_packages, timer_callback; IMU_Processing.hpp: *)
(* Process, IMU_init, UndistortPcl).  The node has one executor thread, so *)
(* a callback is one step.                                                 *)
(*                                                                         *)
(* Times are integers.  A scan is its number, its stamp and the offset of  *)
(* its last point: 0 for a scan of at most one point, and for every scan   *)
(* of default_handler in preprocess.cpp, however many points it has.       *)
(***************************************************************************)
EXTENDS Integers, SequencesExt

CONSTANTS
  LidarStep,   \* times between the stamps of two scans, lost ones included
  Duration,    \* offsets the last point of a scan may have
  ImuStep,     \* times between two IMU samples, lost ones included
  LoopBack,    \* TRUE if stamps may jump back: a replayed or restarted source
  Garbage,     \* what last_lidar_end_time_, never initialised, may hold
  MAX_INI_COUNT,
  MaxTime,     \* bound: the last stamp
  MaxScans     \* bound: the number of scans

ASSUME SyncAssumption ==
  /\ LidarStep \subseteq Nat \ {0} /\ Duration \subseteq Nat
  /\ ImuStep \subseteq Nat \ {0}
  /\ LoopBack \in BOOLEAN
  /\ Garbage \subseteq Int
  /\ MAX_INI_COUNT \in Nat /\ MaxTime \in Nat /\ MaxScans \in Nat

VARIABLES
  lidar_buffer, time_buffer, imu_buffer,    \* scans, their stamps, IMU stamps
  last_timestamp_lidar, last_timestamp_imu,
  scan_count,                               \* scans received
  lidar_pushed, Measures,                   \* the package being put together
  lidar_mean_scantime,
  flg_first_scan,
  imu_need_init_, init_iter_num, last_imu_, last_lidar_end_time_,
  feats_undistort,   \* the number of the scan it holds, 0 for one too sparse
  kf_time,           \* history: the time the filter state was carried to
  registered         \* history: the scans registered, [stamp, scan]

buffers == <<lidar_buffer, time_buffer, imu_buffer>>
stamps  == <<last_timestamp_lidar, last_timestamp_imu, scan_count>>
package == <<lidar_pushed, Measures, lidar_mean_scantime>>
imuproc == <<imu_need_init_, init_iter_num, last_imu_, last_lidar_end_time_,
             feats_undistort, kf_time>>
vars == <<buffers, stamps, package, flg_first_scan, imuproc, registered>>

NoScan == [n |-> 0, stamp |-> 0, dur |-> 0]

Init ==
  /\ lidar_buffer = <<>> /\ time_buffer = <<>> /\ imu_buffer = <<>>
  /\ last_timestamp_lidar = 0 /\ last_timestamp_imu = -1 /\ scan_count = 0
  /\ lidar_pushed = FALSE
  /\ Measures = [lidar |-> NoScan, beg |-> 0, end |-> 0, imu |-> <<>>]
  /\ lidar_mean_scantime = 0
  /\ flg_first_scan = TRUE
  /\ imu_need_init_ = TRUE /\ init_iter_num = 1 /\ last_imu_ = 0
  /\ last_lidar_end_time_ \in Garbage
  /\ feats_undistort = 0 /\ kf_time = 0 /\ registered = <<>>

-----------------------------------------------------------------------------
(* Sensors.                                                                 *)

\* A scan is stamped after the scan before, but not always after its last point:
\* a reconstructed offset may pass the next stamp (preprocess.cpp 458-459,
\* 546-547). Where the source jumps back only the scans themselves are dropped.
LidarCallback(stamp, dur) ==
  /\ scan_count < MaxScans
  /\ \/ stamp - last_timestamp_lidar \in LidarStep
     \/ LoopBack /\ stamp < last_timestamp_lidar
  /\ scan_count' = scan_count + 1
  /\ LET scan  == [n |-> scan_count + 1, stamp |-> stamp, dur |-> dur]
         again == scan_count > 0 /\ stamp < last_timestamp_lidar
     IN lidar_buffer' = IF again THEN <<scan>> ELSE Append(lidar_buffer, scan)
  /\ time_buffer' = Append(time_buffer, stamp)
  /\ last_timestamp_lidar' = stamp
  /\ UNCHANGED <<imu_buffer, last_timestamp_imu, package, flg_first_scan,
                 imuproc, registered>>

ImuCallback(stamp) ==
  /\ \/ last_timestamp_imu = -1
     \/ stamp - last_timestamp_imu \in ImuStep
     \/ LoopBack /\ stamp < last_timestamp_imu
  /\ imu_buffer' = IF stamp < last_timestamp_imu THEN <<stamp>>
                   ELSE Append(imu_buffer, stamp)
  /\ last_timestamp_imu' = stamp
  /\ UNCHANGED <<lidar_buffer, time_buffer, last_timestamp_lidar, scan_count,
                 package, flg_first_scan, imuproc, registered>>

-----------------------------------------------------------------------------
(* sync_packages.                                                           *)

\* Only a scan whose last point is at half of the mean or later counts; with
\* offset 0 and mean 0 it makes no difference.
Counts(scan) == scan.dur > 0 /\ 2 * scan.dur >= lidar_mean_scantime

\* The running mean after one more scan; its weight 1 / scan_num is left open.
Means(dur) == lidar_mean_scantime .. dur \cup dur .. lidar_mean_scantime

\* The scan to be packaged, pushed now or in an earlier call, and the mean.
Pushed ==
  IF lidar_pushed THEN {[m |-> Measures, mean |-> lidar_mean_scantime]}
  ELSE LET scan == Head(lidar_buffer)
           Filled(end) == [lidar |-> scan, beg |-> Head(time_buffer), end |-> end,
                           imu |-> Measures.imu]
       IN IF Counts(scan)
          THEN {[m |-> Filled(Head(time_buffer) + scan.dur), mean |-> mean] :
                  mean \in Means(scan.dur)}
          ELSE {[m |-> Filled(Head(time_buffer) + lidar_mean_scantime),
                 mean |-> lidar_mean_scantime]}

\* Mutant: the sample that ends the loop is taken along.
ImuTakenOneMore(end) ==
  LET early == {i \in DOMAIN imu_buffer : imu_buffer[i] < end}
      k == Cardinality(early)
  IN IF k > 0 /\ k < Len(imu_buffer) THEN k + 1 ELSE k

\* How many samples the loop takes for a scan that ends at end: those before
\* end and, if there are any, one more that is exactly at end.
ImuTaken(end) ==
  LET early == {i \in DOMAIN imu_buffer : imu_buffer[i] < end}
      k == Cardinality(early)
  IN IF k > 0 /\ k < Len(imu_buffer) /\ imu_buffer[k + 1] = end THEN k + 1 ELSE k

-----------------------------------------------------------------------------
(* ImuProcess.                                                              *)

Size(x) == IF x < 0 THEN -x ELSE x

\* Mutant: an interval is counted from its head even where the last scan
\* already covers a part of it.
IntervalFromHead(head, tail) == IF tail < last_lidar_end_time_ THEN 0 ELSE tail - head

\* What the filter is predicted over between two samples in a row: the part
\* after the end of the last scan, if the second sample is not before it.
Interval(head, tail) ==
  IF tail < last_lidar_end_time_ THEN 0
  ELSE tail - (IF head < last_lidar_end_time_ THEN last_lidar_end_time_ ELSE head)

\* The time UndistortPcl carries the filter over: the intervals between the
\* samples, and what is left up to the end of the scan.
Propagated(v, end) ==
  LET predicted[i \in 1 .. Len(v)] ==
        IF i = 1 THEN 0 ELSE predicted[i - 1] + Interval(v[i - 1], v[i])
  IN predicted[Len(v)] + Size(end - v[Len(v)])

\* The first samples only initialise the filter, at rest.
ImuInit(m) ==
  /\ init_iter_num' = init_iter_num + Len(m.imu)
  /\ imu_need_init_' = (init_iter_num' <= MAX_INI_COUNT)
  /\ last_imu_' = Last(m.imu)
  /\ kf_time' = Last(m.imu)
  /\ UNCHANGED <<last_lidar_end_time_, feats_undistort>>

\* Whether a scan is too sparse to be registered (empty, or fewer than five
\* points once downsampled) is a matter of its points, whatever its offset.
UndistortPcl(m) ==
  /\ kf_time' = kf_time + Propagated(<<last_imu_>> \o m.imu, m.end)
  /\ last_imu_' = Last(m.imu)
  /\ last_lidar_end_time_' = m.end
  /\ feats_undistort' \in {0, m.lidar.n}
  /\ UNCHANGED <<imu_need_init_, init_iter_num>>

\* Without a sample nothing is done, and feats_undistort keeps what it held.
Process(m) ==
  \/ m.imu = <<>> /\ UNCHANGED imuproc
  \/ m.imu # <<>> /\ imu_need_init_ /\ ImuInit(m)
  \/ m.imu # <<>> /\ ~imu_need_init_ /\ UndistortPcl(m)

\* Mutant: a sparse scan is not skipped.
RegisterEmpty(m) ==
  registered' = Append(registered, [stamp |-> m.end, scan |-> feats_undistort'])

\* Mutant: odometry is stamped with the scan received last.
RegisterLatest(m) ==
  registered' = IF feats_undistort' = 0 THEN registered
                ELSE Append(registered, [stamp |-> last_timestamp_lidar,
                                         scan |-> feats_undistort'])

\* The cloud in feats_undistort, if there is one, is registered against
\* the map, or becomes the map, and its points are added; from the second one
\* on odometry is published.
Register(m) ==
  registered' = IF feats_undistort' = 0 THEN registered
                ELSE Append(registered, [stamp |-> m.end, scan |-> feats_undistort'])

-----------------------------------------------------------------------------
(* timer_callback.                                                          *)

\* A buffer is empty.
Idle ==
  /\ lidar_buffer = <<>> \/ imu_buffer = <<>>
  /\ UNCHANGED vars

\* The IMU has not reached the end of the scan.
Wait ==
  /\ lidar_buffer # <<>> /\ imu_buffer # <<>>
  /\ \E p \in Pushed :
       /\ last_timestamp_imu < p.m.end
       /\ Measures' = p.m /\ lidar_mean_scantime' = p.mean
  /\ lidar_pushed' = TRUE
  /\ UNCHANGED <<buffers, stamps, flg_first_scan, imuproc, registered>>

\* Mutant: time_buffer keeps the stamp of the scan.
PackageKeepsStamp ==
  /\ lidar_buffer # <<>> /\ imu_buffer # <<>>
  /\ \E p \in Pushed :
       LET k == ImuTaken(p.m.end)
           m == [p.m EXCEPT !.imu = SubSeq(imu_buffer, 1, k)]
       IN /\ last_timestamp_imu >= p.m.end
          /\ Measures' = m /\ lidar_mean_scantime' = p.mean
          /\ imu_buffer' = SubSeq(imu_buffer, k + 1, Len(imu_buffer))
          /\ Process(m) /\ Register(m)
  /\ lidar_buffer' = Tail(lidar_buffer) /\ UNCHANGED time_buffer
  /\ lidar_pushed' = FALSE /\ flg_first_scan' = FALSE
  /\ UNCHANGED stamps

\* A package is complete; the first one is only looked at for its time.
Package ==
  /\ lidar_buffer # <<>> /\ imu_buffer # <<>>
  /\ \E p \in Pushed :
       LET k == ImuTaken(p.m.end)
           m == [p.m EXCEPT !.imu = SubSeq(imu_buffer, 1, k)]
       IN /\ last_timestamp_imu >= p.m.end
          /\ Measures' = m /\ lidar_mean_scantime' = p.mean
          /\ imu_buffer' = SubSeq(imu_buffer, k + 1, Len(imu_buffer))
          /\ IF flg_first_scan THEN UNCHANGED <<imuproc, registered>>
             ELSE Process(m) /\ Register(m)
  /\ lidar_buffer' = Tail(lidar_buffer) /\ time_buffer' = Tail(time_buffer)
  /\ lidar_pushed' = FALSE
  /\ flg_first_scan' = FALSE
  /\ UNCHANGED stamps

Next ==
  \/ \E stamp \in 1 .. MaxTime, dur \in Duration : LidarCallback(stamp, dur)
  \/ \E stamp \in 1 .. MaxTime : ImuCallback(stamp)
  \/ Idle \/ Wait \/ Package

Spec == Init /\ [][Next]_vars

-----------------------------------------------------------------------------
(* Properties.                                                              *)

Stamp == 0 .. MaxTime
Scan == [n : 0 .. MaxScans, stamp : Stamp, dur : Duration \cup {0}]

\* The type of every variable.
TypeOK ==
  /\ lidar_buffer \in Seq(Scan) /\ time_buffer \in Seq(Stamp)
  /\ imu_buffer \in Seq(Stamp)
  /\ last_timestamp_lidar \in Stamp /\ last_timestamp_imu \in Stamp \cup {-1}
  /\ scan_count \in 0 .. MaxScans
  /\ lidar_pushed \in BOOLEAN /\ flg_first_scan \in BOOLEAN
  /\ Measures \in [lidar : Scan, beg : Stamp, end : Nat, imu : Seq(Stamp)]
  /\ lidar_mean_scantime \in Nat
  /\ imu_need_init_ \in BOOLEAN /\ init_iter_num \in Nat \ {0}
  /\ last_imu_ \in Stamp /\ last_lidar_end_time_ \in Int
  /\ feats_undistort \in 0 .. MaxScans /\ kf_time \in Int
  /\ registered \in Seq([stamp : Nat, scan : 1 .. MaxScans])

\* A scan is processed under its own stamp: the two queues of the scans and of
\* their stamps stay in step (laserMapping.cpp 304-305, 345-346, 395-396 and
\* 434-435).
PairedStamp == Measures.lidar.stamp = Measures.beg

\* A package takes every buffered IMU sample before the end of its scan and
\* none from after it (laserMapping.cpp 423-432).
ImuOfScan ==
  [][lidar_buffer # <<>> /\ lidar_buffer' = Tail(lidar_buffer) =>
       /\ \A i \in DOMAIN Measures'.imu : Measures'.imu[i] <= Measures'.end
       /\ \A i \in DOMAIN imu_buffer' : imu_buffer'[i] >= Measures'.end]_vars

\* The intervals the filter is predicted over add up to the time from the end
\* of the last scan to the end of this one, whatever samples were lost and
\* however far scans reach into each other: a scan is only processed with a
\* sample before its end, and that sample is not before the end of the last one.
\* Only the first scan is exempt, and only if the member nobody initialised
\* happens to hold a time after its last sample (IMU_Processing.hpp 237-299).
FilterAtScanEnd ==
  [][LET end == last_lidar_end_time_' IN
     end # last_lidar_end_time_ /\ last_lidar_end_time_ <= last_imu_' =>
       \/ kf_time' = end
       \/ kf_time' - kf_time = end - last_lidar_end_time_]_vars

\* Published odometry moves forward in time with every scan it comes from:
\* keyframe_frontend takes the time between two of them for what has passed
\* (laserMapping.cpp 631-635). It does so also where the last point of a scan is
\* after the stamp of the next one (preprocess.cpp 458-459, 546-547) and where
\* all offsets are 0 (preprocess.cpp 559-589). What is left out is a repeat: a
\* package without an IMU sample registers the scan before again, under an end
\* of its own (IMU_Processing.hpp 344).
OdometryAdvances ==
  \A j \in DOMAIN registered :
    \/ j > 1 /\ registered[j].scan = registered[j - 1].scan
    \/ \A i \in 1 .. j - 1 : registered[i].stamp < registered[j].stamp

\* Every odometry moves forward in time, repeats included. It does not hold where
\* scans reach into each other: the repeat may end before the scan it repeats.
OdometryStrict ==
  \A i, j \in DOMAIN registered : i < j => registered[i].stamp < registered[j].stamp

\* A scan is registered at most once: one without a point is skipped, with
\* "No point, skip this scan!" (laserMapping.cpp 1006-1010). It does not hold of
\* a scan without an IMU sample (IMU_Processing.hpp 344).
RegisteredOnce ==
  \A i, j \in DOMAIN registered : i # j => registered[i].scan # registered[j].scan
=============================================================================
