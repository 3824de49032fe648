--------------------------- MODULE FastLioSyncProofs ---------------------------
(***************************************************************************)
(* Theorems about the pairing of scans and IMU samples, for any steps       *)
(* between stamps, any lengths of scans and any bounds.  What a package     *)
(* takes is right for any source; that scans keep their stamps, odometry    *)
(* advances and the filter stands at the end of the scan is proved of       *)
(* sources whose stamps do not jump back (section 4 of the README shows     *)
(* that it fails where they do).                                            *)
(***************************************************************************)
EXTENDS FastLioSync, FiniteSetTheorems, SequenceTheorems,
        WellFoundedInduction, TLAPS

-----------------------------------------------------------------------------
(* The inductive invariant.                                                 *)

\* IMU samples are buffered in the order of their stamps.
ImuSorted ==
  /\ \A i, j \in DOMAIN imu_buffer : i <= j => imu_buffer[i] <= imu_buffer[j]
  /\ \A i \in DOMAIN imu_buffer : imu_buffer[i] <= last_timestamp_imu

\* A buffered scan has its stamp in time_buffer, and a number given out.
ScansBuffered ==
  /\ Len(lidar_buffer) <= Len(time_buffer)
  /\ \A i \in DOMAIN lidar_buffer : lidar_buffer[i].n <= scan_count

\* The two queues of scans and stamps are in step, also with the scan that
\* is being put together.
InStep ==
  /\ Len(lidar_buffer) = Len(time_buffer)
  /\ \A i \in DOMAIN lidar_buffer : lidar_buffer[i].stamp = time_buffer[i]
  /\ Measures.lidar.stamp = Measures.beg
  /\ lidar_pushed => /\ lidar_buffer # <<>>
                     /\ Measures.beg = time_buffer[1]

\* No sample is buffered, or still to come, from before the end a scan was
\* registered under, and the cloud in feats_undistort was registered last.
RegisteredBefore ==
  /\ OdometryAdvances
  /\ \A i \in DOMAIN registered :
       /\ registered[i].stamp <= last_timestamp_imu
       /\ \A j \in DOMAIN imu_buffer : registered[i].stamp <= imu_buffer[j]
  /\ feats_undistort # 0 =>
       /\ registered # <<>>
       /\ registered[Len(registered)].scan = feats_undistort

\* The filter has used the samples before those buffered; it stands at the
\* last of them, or, once a scan was undistorted, the end of that scan is after
\* all the samples used and before all the others.
FilterInv ==
  /\ last_imu_ = 0 \/ last_imu_ <= last_timestamp_imu
  /\ \A i \in DOMAIN imu_buffer : last_imu_ <= imu_buffer[i]
  /\ \/ kf_time = last_imu_
     \/ /\ last_imu_ <= last_lidar_end_time_
        /\ last_lidar_end_time_ <= last_timestamp_imu
        /\ \A i \in DOMAIN imu_buffer : last_lidar_end_time_ <= imu_buffer[i]

\* What holds of any source, and what needs stamps that move forward.
SourceInv == TypeOK /\ ImuSorted /\ ScansBuffered
ForwardInv == InStep /\ RegisteredBefore /\ FilterInv

-----------------------------------------------------------------------------
(* Sums over the samples of a scan.                                         *)

\* Every set of numbers has a least one.
LEMMA LeastNumber ==
  ASSUME NEW S \in SUBSET Nat, S # {}
  PROVE  \E least \in S : \A k \in S : least <= k
  <1>1. PICK least \in S : ~ \E k \in S : <<k, least>> \in OpToRel(<, Nat)
    BY WFMin, NatLessThanWellFounded
  <1>2. ASSUME NEW k \in S PROVE least <= k
    <2>1. <<k, least>> \notin OpToRel(<, Nat)  BY <1>1
    <2>. QED  BY <2>1 DEF OpToRel
  <1>. QED  BY <1>2

\* f holds the sums of c, from the second place on.
Sums(f, n, c) == f = [i \in 1 .. n |-> IF i = 1 THEN 0 ELSE f[i - 1] + c[i]]

\* A longer sum is a shorter one and a last term.
LEMMA SumsExtended ==
  ASSUME NEW n \in Nat, NEW c \in [1 .. n + 1 -> Int], NEW d, 
         NEW f, Sums(f, n, d), n > 0, \A i \in 1 .. n : d[i] = c[i]
  PROVE  \E g : Sums(g, n + 1, c)
  <1>. DEFINE g == [i \in 1 .. n + 1 |-> IF i = n + 1 THEN f[n] + c[n + 1] ELSE f[i]]
  <1>1. \A i \in 1 .. n : f[i] = IF i = 1 THEN 0 ELSE f[i - 1] + d[i]
    BY DEF Sums
  <1>2. ASSUME NEW i \in 1 .. n + 1
        PROVE  g[i] = IF i = 1 THEN 0 ELSE g[i - 1] + c[i]
    <2>1. CASE i = n + 1
      <3>1. i - 1 = n /\ n \in 1 .. n + 1 /\ n # n + 1  BY <2>1
      <3>2. g[i - 1] = f[n]  BY <3>1
      <3>. QED  BY <2>1, <3>1, <3>2
    <2>2. CASE i # n + 1
      <3>1. i \in 1 .. n  BY <2>2
      <3>2. g[i] = f[i]  BY <2>2
      <3>3. CASE i = 1  BY <1>1, <3>1, <3>2, <3>3
      <3>4. CASE i # 1
        <4>1. i - 1 \in 1 .. n + 1 /\ i - 1 # n + 1  BY <3>1, <3>4
        <4>2. g[i - 1] = f[i - 1]  BY <4>1
        <4>. QED  BY <1>1, <3>1, <3>2, <3>4, <4>2
      <3>. QED  BY <3>3, <3>4
    <2>. QED  BY <2>1, <2>2
  <1>3. g = [i \in 1 .. n + 1 |-> IF i = 1 THEN 0 ELSE g[i - 1] + c[i]]
    <2>. HIDE DEF g
    <2>1. g = [i \in 1 .. n + 1 |-> g[i]]  BY DEF g
    <2>. QED  BY <2>1, <1>2
  <1>. QED  BY <1>3 DEF Sums

\* So the sums of any terms exist.
LEMMA SumsExist ==
  ASSUME NEW n \in Nat \ {0}, NEW c \in [1 .. n -> Int]
  PROVE  \E f : Sums(f, n, c)
  <1>. DEFINE Bad == {k \in 1 .. n : ~ \E f : Sums(f, k, c)}
  <1>1. SUFFICES ASSUME Bad # {} PROVE FALSE  OBVIOUS
  <1>2. PICK k \in Bad : \A j \in Bad : k <= j
    <2>1. Bad \in SUBSET Nat  OBVIOUS
    <2>. HIDE DEF Bad
    <2>. QED  BY <1>1, <2>1, LeastNumber
  <1>3. CASE k = 1
    <2>1. Sums([i \in 1 .. 1 |-> 0], 1, c)  BY DEF Sums
    <2>. QED  BY <1>2, <1>3, <2>1
  <1>4. CASE k # 1
    <2>1. k - 1 \in Nat /\ k - 1 > 0 /\ k - 1 \in 1 .. n /\ k \in 1 .. n /\ (k - 1) + 1 = k
      BY <1>4
    <2>2. k - 1 \notin Bad  BY <1>2, <2>1
    <2>3. PICK f : Sums(f, k - 1, c)  BY <2>1, <2>2
    <2>. DEFINE e == [i \in 1 .. k |-> c[i]]
    <2>4. e \in [1 .. (k - 1) + 1 -> Int] /\ \A i \in 1 .. k - 1 : c[i] = e[i]
      BY <2>1
    <2>5. PICK g : Sums(g, k, e)
      <3>. HIDE DEF e, Bad
      <3>. QED  BY <2>1, <2>3, <2>4, SumsExtended
    <2>6. Sums(g, k, c)  BY <2>5 DEF Sums
    <2>. QED  BY <1>2, <2>6
  <1>. QED  BY <1>3, <1>4

\* f is the function whose last value Propagated adds up to.
Predicted(f, v) ==
  f = [i \in 1 .. Len(v) |-> IF i = 1 THEN 0 ELSE f[i - 1] + Interval(v[i - 1], v[i])]

\* The recursion of Propagated has a solution, and its value is one's last.
LEMMA PropagatedSolved ==
  ASSUME NEW v \in Seq(Int), v # <<>>, NEW end, last_lidar_end_time_ \in Int
  PROVE  \E f : Predicted(f, v) /\ Propagated(v, end) = f[Len(v)] + Size(end - v[Len(v)])
  <1>. DEFINE c == [i \in 1 .. Len(v) |-> IF i = 1 THEN 0 ELSE Interval(v[i - 1], v[i])]
  <1>1. c \in [1 .. Len(v) -> Int] /\ Len(v) \in Nat \ {0}
    BY DEF Interval
  <1>2. PICK f : Sums(f, Len(v), c)
    <2>. HIDE DEF c
    <2>. QED  BY <1>1, SumsExist
  <1>3. Predicted(f, v)
    <2>1. \A i \in 1 .. Len(v) : i # 1 => c[i] = Interval(v[i - 1], v[i])  OBVIOUS
    <2>. HIDE DEF c
    <2>. QED  BY <1>2, <2>1 DEF Sums, Predicted
  <1>4. PICK g : g = CHOOSE h : Predicted(h, v)  OBVIOUS
  <1>5. Predicted(g, v)  BY <1>3, <1>4
  <1>6. Propagated(v, end) = g[Len(v)] + Size(end - v[Len(v)])
    BY <1>4, Zenon DEF Propagated, Predicted
  <1>. QED  BY <1>5, <1>6

\* Over samples in order the intervals telescope: from the first sample or the
\* end of the last scan, whichever is later.
LEMMA PredictedTelescopes ==
  ASSUME NEW v \in Seq(Int), v # <<>>, NEW f, Predicted(f, v),
         last_lidar_end_time_ \in Int,
         \A i, j \in 1 .. Len(v) : i <= j => v[i] <= v[j]
  PROVE  f[Len(v)] = IF v[Len(v)] < last_lidar_end_time_ THEN 0
                     ELSE v[Len(v)] - (IF v[1] < last_lidar_end_time_
                                       THEN last_lidar_end_time_ ELSE v[1])
  <1>. DEFINE Closed(i) == IF v[i] < last_lidar_end_time_ THEN 0
                           ELSE v[i] - (IF v[1] < last_lidar_end_time_
                                        THEN last_lidar_end_time_ ELSE v[1])
              Bad == {i \in 1 .. Len(v) : f[i] # Closed(i)}
  <1>0. Len(v) \in Nat \ {0} /\ \A i \in 1 .. Len(v) : v[i] \in Int  OBVIOUS
  <1>1. \A i \in 1 .. Len(v) :
          f[i] = IF i = 1 THEN 0 ELSE f[i - 1] + Interval(v[i - 1], v[i])
    BY DEF Predicted
  <1>2. ASSUME Bad # {} PROVE FALSE
    <2>1. PICK k \in Bad : \A j \in Bad : k <= j
      <3>1. Bad \in SUBSET Nat  OBVIOUS
      <3>. HIDE DEF Bad
      <3>. QED  BY <1>2, <3>1, LeastNumber
    <2>2. k \in 1 .. Len(v) /\ f[k] # Closed(k)  BY <2>1
    <2>3. CASE k = 1
      <3>1. f[1] = 0  BY <1>1, <2>2, <2>3
      <3>2. v[1] \in Int  BY <1>0
      <3>3. Closed(1) = 0  BY <3>2
      <3>. HIDE DEF Closed
      <3>. QED  BY <2>2, <2>3, <3>1, <3>3
    <2>4. CASE k # 1
      <3>1. k - 1 \in 1 .. Len(v) /\ ~ k <= k - 1  BY <1>0, <2>2, <2>4
      <3>2. k - 1 \notin Bad  BY <2>1, <3>1
      <3>3. f[k - 1] = Closed(k - 1)  BY <3>1, <3>2
      <3>4. f[k] = f[k - 1] + Interval(v[k - 1], v[k])  BY <1>1, <2>2, <2>4
      <3>5. v[1] <= v[k - 1] /\ v[k - 1] <= v[k]
        <4>1. 1 \in 1 .. Len(v) /\ 1 <= k - 1 /\ k - 1 <= k  BY <1>0, <2>2, <3>1
        <4>. QED  BY <2>2, <3>1, <4>1
      <3>6. v[1] \in Int /\ v[k - 1] \in Int /\ v[k] \in Int  BY <1>0, <2>2, <3>1
      <3>7. PICK a, b, d : a = v[1] /\ b = v[k - 1] /\ d = v[k]  OBVIOUS
      <3>8. Closed(k - 1) + Interval(v[k - 1], v[k]) = Closed(k)
        BY <3>5, <3>6, <3>7 DEF Interval
      <3>. QED  BY <2>2, <3>3, <3>4, <3>8
    <2>. QED  BY <2>3, <2>4
  <1>3. Len(v) \in 1 .. Len(v)  BY <1>0
  <1>. QED  BY <1>2, <1>3

\* Over any samples it is a number.
LEMMA PropagatedNumber ==
  ASSUME NEW v \in Seq(Int), v # <<>>, NEW end \in Int, last_lidar_end_time_ \in Int
  PROVE  Propagated(v, end) \in Int
  <1>1. PICK f : Predicted(f, v) /\ Propagated(v, end) = f[Len(v)] + Size(end - v[Len(v)])
    BY PropagatedSolved
  <1>. DEFINE Bad == {i \in 1 .. Len(v) : f[i] \notin Int}
  <1>2. Len(v) \in Nat \ {0} /\ \A i \in 1 .. Len(v) : v[i] \in Int  OBVIOUS
  <1>3. \A i \in 1 .. Len(v) :
          f[i] = IF i = 1 THEN 0 ELSE f[i - 1] + Interval(v[i - 1], v[i])
    BY <1>1 DEF Predicted
  <1>4. ASSUME Bad # {} PROVE FALSE
    <2>1. PICK k \in Bad : \A j \in Bad : k <= j
      <3>1. Bad \in SUBSET Nat  OBVIOUS
      <3>. HIDE DEF Bad
      <3>. QED  BY <1>4, <3>1, LeastNumber
    <2>2. k \in 1 .. Len(v) /\ f[k] \notin Int  BY <2>1
    <2>3. k # 1  BY <1>3, <2>2
    <2>4. k - 1 \in 1 .. Len(v) /\ ~ k <= k - 1  BY <1>2, <2>2, <2>3
    <2>5. f[k - 1] \in Int  BY <2>1, <2>4
    <2>6. Interval(v[k - 1], v[k]) \in Int  BY <1>2, <2>2, <2>4 DEF Interval
    <2>. QED  BY <1>3, <2>2, <2>3, <2>5, <2>6
  <1>5. f[Len(v)] \in Int /\ v[Len(v)] \in Int  BY <1>2, <1>4
  <1>. QED  BY <1>1, <1>5 DEF Size

-----------------------------------------------------------------------------
(* What a package takes.                                                    *)

\* Of samples in order exactly those up to the end of the scan are taken, and
\* the ones at the end itself may stay. The first one taken is before the end.
LEMMA TakenToTheEnd ==
  ASSUME imu_buffer \in Seq(Stamp), ImuSorted, NEW end \in Int
  PROVE  /\ ImuTaken(end) \in 0 .. Len(imu_buffer)
         /\ \A i \in DOMAIN imu_buffer : i <= ImuTaken(end) => imu_buffer[i] <= end
         /\ \A i \in DOMAIN imu_buffer : i > ImuTaken(end) => imu_buffer[i] >= end
         /\ ImuTaken(end) > 0 => imu_buffer[1] < end
  <1>. DEFINE early == {i \in DOMAIN imu_buffer : imu_buffer[i] < end}
  <1>1. PICK n : n = Len(imu_buffer)  OBVIOUS
  <1>2. n \in Nat /\ DOMAIN imu_buffer = 1 .. n
        /\ \A i \in 1 .. n : imu_buffer[i] \in Int
    BY <1>1, SyncAssumption DEF Stamp
  <1>3. early \subseteq 1 .. n /\ IsFiniteSet(1 .. n) /\ Cardinality(1 .. n) = n
    BY <1>2, FS_Interval
  <1>4. PICK k : k = Cardinality(early)  OBVIOUS
  <1>5. IsFiniteSet(early) /\ k \in Nat /\ k <= n
    BY <1>3, <1>4, FS_Subset, FS_CardinalityType
  <1>6. ASSUME NEW x \in early PROVE x <= k
    <2>1. x \in Nat /\ x >= 1 /\ x <= n  BY <1>2, <1>3
    <2>2. 1 .. x \subseteq early
      <3>. SUFFICES ASSUME NEW i \in 1 .. x PROVE i \in early  OBVIOUS
      <3>1. i \in 1 .. n /\ x \in 1 .. n /\ i <= x  BY <2>1, <1>2
      <3>2. imu_buffer[i] <= imu_buffer[x]  BY <3>1, <1>2 DEF ImuSorted
      <3>. QED  BY <1>2, <3>1, <3>2
    <2>3. Cardinality(1 .. x) = x  BY <2>1, FS_Interval
    <2>4. PICK D : D = 1 .. x  OBVIOUS
    <2>5. D \in SUBSET early /\ Cardinality(D) = x  BY <2>2, <2>3, <2>4
    <2>. HIDE DEF early
    <2>6. Cardinality(D) <= Cardinality(early)  BY <1>5, <2>5, FS_Subset
    <2>. QED  BY <1>4, <2>5, <2>6
  <1>7. early = 1 .. k
    <2>1. early \subseteq 1 .. k  BY <1>2, <1>3, <1>5, <1>6
    <2>2. IsFiniteSet(1 .. k) /\ Cardinality(1 .. k) = k  BY <1>5, FS_Interval
    <2>. HIDE DEF early
    <2>. QED  BY <1>4, <2>1, <2>2, FS_Subset
  <1>8. \A i \in 1 .. n : i <= k <=> imu_buffer[i] < end
    BY <1>2, <1>5, <1>7
  <1>9. ImuTaken(end) = IF k > 0 /\ k < n /\ imu_buffer[k + 1] = end THEN k + 1 ELSE k
    BY <1>1, <1>4 DEF ImuTaken
  <1>. HIDE DEF early
  <1>first. ImuTaken(end) > 0 => imu_buffer[1] < end
    <2>1. k > 0 => 1 \in 1 .. n /\ 1 <= k  BY <1>2, <1>5
    <2>2. ImuTaken(end) > 0 => k > 0  BY <1>5, <1>9
    <2>. QED  BY <1>8, <2>1, <2>2
  <1>10. CASE k > 0 /\ k < n /\ imu_buffer[k + 1] = end
    <2>1. k + 1 \in 1 .. n  BY <1>2, <1>5, <1>10
    <2>2. ASSUME NEW i \in 1 .. n, i > k + 1 PROVE imu_buffer[i] >= end
      BY <1>2, <1>10, <1>5, <2>1, <2>2 DEF ImuSorted
    <2>3. ASSUME NEW i \in 1 .. n, i <= k + 1 PROVE imu_buffer[i] <= end
      <3>1. CASE i <= k  BY <1>2, <1>8, <3>1
      <3>2. CASE i = k + 1  BY <1>2, <1>10, <3>2
      <3>. QED  BY <1>5, <2>3, <3>1, <3>2
    <2>. QED  BY <1>1, <1>2, <1>5, <1>9, <1>10, <1>first, <2>1, <2>2, <2>3
  <1>11. CASE ~(k > 0 /\ k < n /\ imu_buffer[k + 1] = end)
    <2>1. \A i \in 1 .. n : /\ i <= k => imu_buffer[i] <= end
                            /\ i > k => imu_buffer[i] >= end
      BY <1>2, <1>5, <1>8
    <2>. QED  BY <1>1, <1>2, <1>5, <1>9, <1>11, <1>first, <2>1
  <1>. QED  BY <1>10, <1>11

MeasureGroup == [lidar : Scan, beg : Stamp, end : Nat, imu : Seq(Stamp)]

\* The scan packaged is the one pushed before, or the next one with its stamp.
LEMMA PushedCases ==
  ASSUME NEW p \in Pushed
  PROVE  \/ lidar_pushed /\ p.m = Measures /\ p.mean = lidar_mean_scantime
         \/ /\ ~lidar_pushed
            /\ p.m = [lidar |-> Head(lidar_buffer), beg |-> Head(time_buffer),
                      end |-> p.m.end, imu |-> Measures.imu]
            /\ \/ /\ Counts(Head(lidar_buffer))
                  /\ p.m.end = Head(time_buffer) + Head(lidar_buffer).dur
                  /\ p.mean \in Means(Head(lidar_buffer).dur)
               \/ /\ ~Counts(Head(lidar_buffer))
                  /\ p.m.end = Head(time_buffer) + lidar_mean_scantime
                  /\ p.mean = lidar_mean_scantime
  <1>1. CASE lidar_pushed  BY <1>1 DEF Pushed
  <1>2. CASE ~lidar_pushed /\ Counts(Head(lidar_buffer))
    <2>. DEFINE end == Head(time_buffer) + Head(lidar_buffer).dur
    <2>1. PICK mean \in Means(Head(lidar_buffer).dur) :
            p = [m |-> [lidar |-> Head(lidar_buffer), beg |-> Head(time_buffer),
                        end |-> end, imu |-> Measures.imu], mean |-> mean]
      BY <1>2, Zenon DEF Pushed
    <2>. HIDE DEF end
    <2>2. p.m.end = end /\ p.mean = mean  BY <2>1
    <2>. QED  BY <1>2, <2>1, <2>2 DEF end
  <1>3. CASE ~lidar_pushed /\ ~Counts(Head(lidar_buffer))
    <2>. DEFINE end == Head(time_buffer) + lidar_mean_scantime
    <2>1. p = [m |-> [lidar |-> Head(lidar_buffer), beg |-> Head(time_buffer),
                      end |-> end, imu |-> Measures.imu], mean |-> lidar_mean_scantime]
      BY <1>3, Zenon DEF Pushed
    <2>. HIDE DEF end
    <2>2. p.m.end = end /\ p.mean = lidar_mean_scantime  BY <2>1
    <2>. QED  BY <1>3, <2>1, <2>2 DEF end
  <1>. QED  BY <1>1, <1>2, <1>3

\* Durations and means are numbers.
LEMMA MeansTyped ==
  ASSUME TypeOK, NEW dur \in Duration \cup {0}, NEW mean \in Means(dur)
  PROVE  dur \in Nat /\ mean \in Nat
  BY SyncAssumption DEF TypeOK, Means

\* Heads of the two queues are a scan and a stamp.
LEMMA HeadsTyped ==
  ASSUME TypeOK, ScansBuffered, lidar_buffer # <<>>
  PROVE  /\ Head(lidar_buffer) \in Scan /\ Head(lidar_buffer) = lidar_buffer[1]
         /\ Head(lidar_buffer).dur \in Duration \cup {0}
         /\ time_buffer # <<>>
         /\ Head(time_buffer) \in Stamp /\ Head(time_buffer) = time_buffer[1]
         /\ Head(time_buffer) \in Nat
  <1>1. PICK S : S = Scan  OBVIOUS
  <1>2. lidar_buffer \in Seq(S)  BY <1>1 DEF TypeOK
  <1>3. Len(lidar_buffer) > 0 /\ Head(lidar_buffer) \in S /\ Head(lidar_buffer) = lidar_buffer[1]
    BY <1>2
  <1>4. Head(lidar_buffer).dur \in Duration \cup {0}  BY <1>1, <1>3 DEF Scan
  <1>5. time_buffer \in Seq(Stamp) /\ Len(time_buffer) > 0
    BY <1>2, <1>3 DEF TypeOK, ScansBuffered
  <1>6. time_buffer # <<>> /\ Head(time_buffer) \in Stamp /\ Head(time_buffer) = time_buffer[1]
    BY <1>5
  <1>7. \A x \in Stamp : x \in Nat  BY SyncAssumption DEF Stamp
  <1>. QED  BY <1>1, <1>3, <1>4, <1>6, <1>7

LEMMA PushedTyped ==
  ASSUME TypeOK, ScansBuffered, lidar_buffer # <<>>, NEW p \in Pushed
  PROVE  p.m \in MeasureGroup /\ p.mean \in Nat
  <1>1. CASE lidar_pushed
    BY <1>1, PushedCases DEF TypeOK, MeasureGroup
  <1>2. CASE ~lidar_pushed
    <2>1. /\ Head(lidar_buffer) \in Scan /\ Head(time_buffer) \in Stamp
          /\ Head(time_buffer) \in Nat /\ Head(lidar_buffer).dur \in Duration \cup {0}
      BY HeadsTyped
    <2>2. lidar_mean_scantime \in Nat /\ Measures.imu \in Seq(Stamp)  BY DEF TypeOK
    <2>3. PICK scan, stamp, dur, end :
            scan = Head(lidar_buffer) /\ stamp = Head(time_buffer) /\ dur = scan.dur /\ end = p.m.end
      OBVIOUS
    <2>4. scan \in Scan /\ stamp \in Stamp /\ stamp \in Nat /\ dur \in Duration \cup {0}
          /\ dur \in Nat
      <3>1. Duration \subseteq Nat  BY SyncAssumption
      <3>2. dur \in Duration \cup {0}  BY <2>1, <2>3
      <3>3. dur \in Nat  BY <3>1, <3>2
      <3>. QED  BY <2>1, <2>3, <3>2, <3>3
    <2>5. /\ p.m = [lidar |-> scan, beg |-> stamp, end |-> end, imu |-> Measures.imu]
          /\ \/ end = stamp + dur /\ p.mean \in Means(dur)
             \/ end = stamp + lidar_mean_scantime /\ p.mean = lidar_mean_scantime
      BY <1>2, <2>3, PushedCases
    <2>6. end \in Nat /\ p.mean \in Nat
      BY <2>2, <2>4, <2>5, MeansTyped
    <2>. QED  BY <2>2, <2>4, <2>5, <2>6 DEF MeasureGroup
  <1>. QED  BY <1>1, <1>2

\* A package: the samples up to its end go into it, in order, and those from
\* its end on stay.
Takes(p) ==
  /\ p.m \in MeasureGroup /\ p.mean \in Nat
  /\ Measures' \in MeasureGroup /\ lidar_mean_scantime' = p.mean
  /\ Measures'.lidar = p.m.lidar /\ Measures'.beg = p.m.beg /\ Measures'.end = p.m.end
  /\ last_timestamp_imu >= p.m.end
  /\ \A i \in DOMAIN Measures'.imu :
       /\ i \in DOMAIN imu_buffer
       /\ Measures'.imu[i] = imu_buffer[i] /\ imu_buffer[i] <= p.m.end
  /\ Measures'.imu # <<>> => 1 \in DOMAIN imu_buffer /\ imu_buffer[1] < p.m.end
  /\ imu_buffer' \in Seq(Stamp)
  /\ Len(imu_buffer') = Len(imu_buffer) - Len(Measures'.imu)
  /\ \A i \in DOMAIN imu_buffer' :
       /\ Len(Measures'.imu) + i \in DOMAIN imu_buffer
       /\ imu_buffer'[i] = imu_buffer[Len(Measures'.imu) + i]
       /\ imu_buffer'[i] >= p.m.end

LEMMA PackageTakes ==
  ASSUME TypeOK, ScansBuffered, ImuSorted, Package
  PROVE  \E p \in Pushed :
           /\ Takes(p)
           /\ IF flg_first_scan THEN UNCHANGED <<imuproc, registered>>
              ELSE Process(Measures') /\ Register(Measures')
  <1>. DEFINE Packaged(p, k, M) ==
          /\ k = ImuTaken(p.m.end)
          /\ M = [p.m EXCEPT !.imu = SubSeq(imu_buffer, 1, k)]
          /\ last_timestamp_imu >= p.m.end
          /\ Measures' = M /\ lidar_mean_scantime' = p.mean
          /\ imu_buffer' = SubSeq(imu_buffer, k + 1, Len(imu_buffer))
          /\ IF flg_first_scan THEN UNCHANGED <<imuproc, registered>>
             ELSE Process(M) /\ Register(M)
  <1>0. PICK p \in Pushed : \E k, M : Packaged(p, k, M)  BY Zenon DEF Package
  <1>1. PICK k, M : Packaged(p, k, M)  BY Zenon, <1>0
  <1>2. lidar_buffer # <<>>  BY DEF Package
  <1>3. p.m \in MeasureGroup /\ p.mean \in Nat  BY <1>2, PushedTyped
  <1>4. p.m.end \in Int  BY <1>3 DEF MeasureGroup
  <1>5. imu_buffer \in Seq(Stamp)  BY DEF TypeOK
  <1>6. PICK n : n = Len(imu_buffer)  OBVIOUS
  <1>7. n \in Nat /\ DOMAIN imu_buffer = 1 .. n /\ \A i \in 1 .. n : imu_buffer[i] \in Stamp
    BY <1>5, <1>6
  <1>8. /\ k \in 0 .. n
        /\ \A i \in 1 .. n : i <= k => imu_buffer[i] <= p.m.end
        /\ \A i \in 1 .. n : i > k => imu_buffer[i] >= p.m.end
        /\ k > 0 => imu_buffer[1] < p.m.end
    BY <1>1, <1>4, <1>5, <1>6, <1>7, TakenToTheEnd
  <1>9. PICK taken, left : /\ taken = SubSeq(imu_buffer, 1, k)
                           /\ left = SubSeq(imu_buffer, k + 1, n)
    OBVIOUS
  <1>10. /\ taken \in Seq(Stamp) /\ Len(taken) = k
         /\ \A i \in 1 .. k : taken[i] = imu_buffer[i]
    <2>1. \A i \in 1 .. k : imu_buffer[i] \in Stamp  BY <1>7, <1>8
    <2>2. k \in Int /\ 1 \in Int /\ k - 1 + 1 = k /\ (1 <= k => k >= 1) /\ (~ 1 <= k => k = 0)
      BY <1>8
    <2>. QED  BY <1>9, <2>1, <2>2, SubSeqProperties
  <1>11. /\ left \in Seq(Stamp) /\ Len(left) = n - k
         /\ \A i \in 1 .. n - k : left[i] = imu_buffer[k + i]
    <2>1. \A i \in k + 1 .. n : imu_buffer[i] \in Stamp  BY <1>7, <1>8
    <2>2. PICK k1 : k1 = k + 1  OBVIOUS
    <2>3. k1 \in Int /\ n \in Int /\ n - k1 + 1 = n - k
          /\ (IF k1 <= n THEN n - k1 + 1 ELSE 0) = n - k
          /\ \A i \in 1 .. n - k : k1 + i - 1 = k + i
      BY <1>7, <1>8, <2>2
    <2>4. /\ left \in Seq(Stamp) /\ Len(left) = IF k1 <= n THEN n - k1 + 1 ELSE 0
          /\ \A i \in 1 .. n - k1 + 1 : left[i] = imu_buffer[k1 + i - 1]
      BY <1>9, <2>1, <2>2, <2>3, SubSeqProperties
    <2>. QED  BY <2>3, <2>4
  <1>12. M \in MeasureGroup /\ M.imu = taken /\ M.lidar = p.m.lidar /\ M.beg = p.m.beg
         /\ M.end = p.m.end
    BY <1>1, <1>3, <1>9, <1>10 DEF MeasureGroup
  <1>13. DOMAIN taken = 1 .. k /\ DOMAIN left = 1 .. n - k
    BY <1>10, <1>11, <1>7, <1>8
  <1>14. \A i \in 1 .. n - k : k + i \in 1 .. n /\ k + i > k
    BY <1>7, <1>8
  <1>15. \A i \in 1 .. k : i \in 1 .. n /\ i <= k
    BY <1>7, <1>8
  <1>16. \A i \in DOMAIN taken : /\ i \in DOMAIN imu_buffer
                                 /\ taken[i] = imu_buffer[i] /\ imu_buffer[i] <= p.m.end
    BY <1>7, <1>8, <1>10, <1>13, <1>15
  <1>17. \A i \in DOMAIN left : /\ k + i \in DOMAIN imu_buffer
                                /\ left[i] = imu_buffer[k + i]
                                /\ left[i] >= p.m.end
    BY <1>7, <1>8, <1>11, <1>13, <1>14
  <1>18. imu_buffer' = left  BY <1>1, <1>6, <1>9
  <1>19. PICK P : P = MeasureGroup  OBVIOUS
  <1>20. M \in P /\ p.m \in P  BY <1>3, <1>12, <1>19
  <1>21. Len(left) = Len(imu_buffer) - Len(taken)  BY <1>6, <1>10, <1>11
  <1>first. taken # <<>> => 1 \in DOMAIN imu_buffer /\ imu_buffer[1] < p.m.end
    <2>1. taken # <<>> => k > 0  BY <1>8, <1>10
    <2>2. k > 0 => 1 \in 1 .. n  BY <1>7, <1>8
    <2>. QED  BY <1>7, <1>8, <2>1, <2>2
  <1>22. Takes(p)
    BY <1>first, <1>1, <1>3, <1>10, <1>11, <1>12, <1>16, <1>17, <1>18, <1>19, <1>20, <1>21 DEF Takes
  <1>23. IF flg_first_scan THEN UNCHANGED <<imuproc, registered>>
         ELSE Process(Measures') /\ Register(Measures')
    BY <1>1
  <1>. QED  BY <1>22, <1>23

-----------------------------------------------------------------------------
(* Any source.                                                              *)

LEMMA Numbers == /\ MaxTime \in Nat /\ MaxScans \in Nat /\ Stamp \subseteq Nat
                 /\ MAX_INI_COUNT \in Nat /\ Duration \subseteq Nat
                 /\ LidarStep \subseteq Nat \ {0} /\ ImuStep \subseteq Nat \ {0}
  BY SyncAssumption DEF Stamp

\* What Append does.
LEMMA Appended ==
  ASSUME NEW S, NEW s \in Seq(S), NEW e \in S
  PROVE  /\ Append(s, e) \in Seq(S) /\ Append(s, e) # <<>>
         /\ Len(s) \in Nat /\ Len(Append(s, e)) = Len(s) + 1
         /\ DOMAIN s = 1 .. Len(s) /\ DOMAIN Append(s, e) = 1 .. Len(s) + 1
         /\ Append(s, e)[Len(s) + 1] = e
         /\ \A i \in 1 .. Len(s) : s[i] \in S /\ Append(s, e)[i] = s[i]
  OBVIOUS

LEMMA InitSource == Init => SourceInv
  <1>. SUFFICES ASSUME Init PROVE SourceInv  OBVIOUS
  <1>1. NoScan \in Scan /\ 0 \in Stamp /\ last_lidar_end_time_ \in Int
    BY SyncAssumption DEF NoScan, Scan, Stamp, Init
  <1>2. <<>> \in Seq(Scan) /\ <<>> \in Seq(Stamp)
        /\ <<>> \in Seq([stamp : Nat, scan : 1 .. MaxScans])
    OBVIOUS
  <1>3. Measures \in [lidar : Scan, beg : Stamp, end : Nat, imu : Seq(Stamp)]
    BY <1>1, <1>2 DEF Init
  <1>4. TypeOK
    <2>1. /\ lidar_buffer \in Seq(Scan) /\ time_buffer \in Seq(Stamp)
          /\ imu_buffer \in Seq(Stamp)
          /\ registered \in Seq([stamp : Nat, scan : 1 .. MaxScans])
      BY <1>2 DEF Init
    <2>2. /\ last_timestamp_lidar \in Stamp /\ last_timestamp_imu \in Stamp \cup {-1}
          /\ scan_count \in 0 .. MaxScans
          /\ lidar_mean_scantime \in Nat /\ init_iter_num \in Nat \ {0}
          /\ last_imu_ \in Stamp /\ feats_undistort \in 0 .. MaxScans /\ kf_time \in Int
      BY <1>1, Numbers DEF Init
    <2>3. lidar_pushed \in BOOLEAN /\ flg_first_scan \in BOOLEAN /\ imu_need_init_ \in BOOLEAN
      BY DEF Init
    <2>. QED  BY <1>1, <1>3, <2>1, <2>2, <2>3 DEF TypeOK
  <1>. QED  BY <1>4 DEF Init, SourceInv, ImuSorted, ScansBuffered

LEMMA ScanArrives ==
  ASSUME SourceInv, NEW stamp \in 1 .. MaxTime, NEW dur \in Duration,
         LidarCallback(stamp, dur)
  PROVE  SourceInv'
  <1>. DEFINE scan == [n |-> scan_count + 1, stamp |-> stamp, dur |-> dur]
  <1>1. scan_count \in Nat /\ scan_count + 1 \in 0 .. MaxScans /\ scan_count + 1 \in Nat
        /\ scan_count <= scan_count + 1
    BY Numbers DEF LidarCallback, SourceInv, TypeOK
  <1>2. stamp \in Stamp  BY Numbers DEF Stamp
  <1>3. scan \in Scan /\ scan.n = scan_count + 1  BY <1>1, <1>2 DEF Scan
  <1>4. lidar_buffer' = <<scan>> \/ lidar_buffer' = Append(lidar_buffer, scan)
    BY DEF LidarCallback
  <1>5. /\ time_buffer' = Append(time_buffer, stamp) /\ scan_count' = scan_count + 1
        /\ last_timestamp_lidar' = stamp
        /\ UNCHANGED <<imu_buffer, last_timestamp_imu, lidar_pushed, Measures,
             lidar_mean_scantime, flg_first_scan, imu_need_init_, init_iter_num,
             last_imu_, last_lidar_end_time_, feats_undistort, kf_time, registered>>
    BY DEF LidarCallback, package, imuproc
  <1>. HIDE DEF scan
  <1>6. PICK S : S = Scan  OBVIOUS
  <1>7. lidar_buffer \in Seq(S) /\ scan \in S /\ time_buffer \in Seq(Stamp)
    BY <1>3, <1>6 DEF SourceInv, TypeOK
  <1>8. /\ lidar_buffer' \in Seq(S) /\ time_buffer' \in Seq(Stamp)
        /\ Len(lidar_buffer') <= Len(lidar_buffer) + 1
        /\ Len(time_buffer') = Len(time_buffer) + 1
        /\ \A i \in DOMAIN lidar_buffer' :
             lidar_buffer'[i] = scan \/ (i \in DOMAIN lidar_buffer /\ lidar_buffer'[i] = lidar_buffer[i])
    <2>1. time_buffer' \in Seq(Stamp) /\ Len(time_buffer') = Len(time_buffer) + 1
      BY <1>2, <1>5, <1>7, Appended
    <2>2. CASE lidar_buffer' = <<scan>>
      <3>1. lidar_buffer' \in Seq(S) /\ Len(lidar_buffer') = 1 /\ DOMAIN lidar_buffer' = 1 .. 1
            /\ lidar_buffer'[1] = scan /\ Len(lidar_buffer) \in Nat
        BY <1>7, <2>2
      <3>. QED  BY <2>1, <3>1
    <2>3. CASE lidar_buffer' = Append(lidar_buffer, scan)
      <3>1. PICK n : n = Len(lidar_buffer)  OBVIOUS
      <3>2. lidar_buffer' \in Seq(S) /\ n \in Nat /\ Len(lidar_buffer') = n + 1
            /\ DOMAIN lidar_buffer = 1 .. n
            /\ DOMAIN lidar_buffer' = 1 .. n + 1 /\ lidar_buffer'[n + 1] = scan
            /\ \A i \in 1 .. n : lidar_buffer'[i] = lidar_buffer[i]
        BY <1>7, <2>3, <3>1, Appended
      <3>. QED  BY <2>1, <3>1, <3>2
    <2>. QED  BY <1>4, <2>2, <2>3
  <1>9. TypeOK'
    BY <1>1, <1>2, <1>5, <1>6, <1>8 DEF SourceInv, TypeOK
  <1>10. ImuSorted'  BY <1>5 DEF SourceInv, ImuSorted
  <1>11. ASSUME NEW i \in DOMAIN lidar_buffer' PROVE lidar_buffer'[i].n <= scan_count'
    <2>1. CASE lidar_buffer'[i] = scan  BY <1>1, <1>3, <1>5, <2>1
    <2>2. CASE i \in DOMAIN lidar_buffer /\ lidar_buffer'[i] = lidar_buffer[i]
      <3>1. lidar_buffer[i].n <= scan_count  BY <2>2 DEF SourceInv, ScansBuffered
      <3>2. lidar_buffer[i] \in S  BY <1>7, <2>2
      <3>3. lidar_buffer[i].n \in Int  BY <1>6, <3>2, Numbers DEF Scan
      <3>. QED  BY <1>1, <1>5, <2>2, <3>1, <3>3
    <2>. QED  BY <1>8, <2>1, <2>2
  <1>12. Len(lidar_buffer') <= Len(time_buffer')
    <2>1. Len(lidar_buffer') \in Nat /\ Len(time_buffer') \in Nat
          /\ Len(lidar_buffer) \in Nat /\ Len(time_buffer) \in Nat
      BY <1>7, <1>8
    <2>. QED  BY <1>8, <2>1 DEF SourceInv, ScansBuffered
  <1>. QED  BY <1>9, <1>10, <1>11, <1>12 DEF SourceInv, ScansBuffered

LEMMA SampleArrives ==
  ASSUME SourceInv, NEW stamp \in 1 .. MaxTime, ImuCallback(stamp)
  PROVE  SourceInv'
  <1>1. stamp \in Stamp /\ stamp \in Nat  BY Numbers DEF Stamp
  <1>2. /\ imu_buffer' = IF stamp < last_timestamp_imu THEN <<stamp>>
                         ELSE Append(imu_buffer, stamp)
        /\ last_timestamp_imu' = stamp
        /\ UNCHANGED <<lidar_buffer, time_buffer, last_timestamp_lidar, scan_count,
             lidar_pushed, Measures, lidar_mean_scantime, flg_first_scan,
             imu_need_init_, init_iter_num, last_imu_, last_lidar_end_time_,
             feats_undistort, kf_time, registered>>
    BY DEF ImuCallback, package, imuproc
  <1>3. imu_buffer \in Seq(Stamp) /\ last_timestamp_imu \in Int
    BY Numbers DEF SourceInv, TypeOK
  <1>4. imu_buffer' \in Seq(Stamp)  BY <1>1, <1>2, <1>3
  <1>5. TypeOK'  BY <1>1, <1>2, <1>4 DEF SourceInv, TypeOK
  <1>6. ImuSorted'
    <2>1. CASE stamp < last_timestamp_imu
      <3>1. imu_buffer' = <<stamp>>  BY <1>2, <2>1
      <3>. QED  BY <1>1, <1>2, <3>1 DEF ImuSorted
    <2>2. CASE ~(stamp < last_timestamp_imu)
      <3>1. imu_buffer' = Append(imu_buffer, stamp)  BY <1>2, <2>2
      <3>2. PICK n : n = Len(imu_buffer)  OBVIOUS
      <3>3. n \in Nat /\ DOMAIN imu_buffer = 1 .. n /\ DOMAIN imu_buffer' = 1 .. n + 1
            /\ imu_buffer'[n + 1] = stamp
            /\ \A i \in 1 .. n : imu_buffer'[i] = imu_buffer[i] /\ imu_buffer[i] \in Nat
        <4>1. n \in Nat /\ DOMAIN imu_buffer = 1 .. n /\ DOMAIN imu_buffer' = 1 .. n + 1
              /\ imu_buffer'[n + 1] = stamp
              /\ \A i \in 1 .. n : imu_buffer'[i] = imu_buffer[i] /\ imu_buffer[i] \in Stamp
          BY <1>1, <1>3, <3>1, <3>2, Appended
        <4>2. \A x \in Stamp : x \in Nat  BY Numbers
        <4>. QED  BY <4>1, <4>2
      <3>4. \A i \in 1 .. n : imu_buffer[i] <= stamp
        BY <1>1, <1>3, <2>2, <3>3 DEF SourceInv, ImuSorted
      <3>5. ASSUME NEW i \in 1 .. n + 1 PROVE imu_buffer'[i] <= stamp
        BY <1>1, <3>3, <3>4
      <3>6. ASSUME NEW i \in 1 .. n + 1, NEW j \in 1 .. n + 1, i <= j
            PROVE  imu_buffer'[i] <= imu_buffer'[j]
        <4>1. CASE j = n + 1  BY <3>3, <3>5, <4>1
        <4>2. CASE j # n + 1
          <5>1. i \in 1 .. n /\ j \in 1 .. n  BY <3>3, <3>6, <4>2
          <5>. QED  BY <3>3, <3>6, <5>1 DEF SourceInv, ImuSorted
        <4>. QED  BY <4>1, <4>2
      <3>. QED  BY <1>2, <3>3, <3>5, <3>6 DEF ImuSorted
    <2>. QED  BY <2>1, <2>2
  <1>7. ScansBuffered'  BY <1>2 DEF SourceInv, ScansBuffered
  <1>. QED  BY <1>5, <1>6, <1>7 DEF SourceInv

\* A scan waits for its samples.
LEMMA ScanWaits ==
  ASSUME SourceInv, Wait
  PROVE  SourceInv'
  <1>1. PICK p \in Pushed : Measures' = p.m /\ lidar_mean_scantime' = p.mean
    BY DEF Wait
  <1>2. p.m \in MeasureGroup /\ p.mean \in Nat
    BY PushedTyped DEF Wait, SourceInv
  <1>3. UNCHANGED <<lidar_buffer, time_buffer, imu_buffer, last_timestamp_lidar,
          last_timestamp_imu, scan_count, flg_first_scan, imu_need_init_, init_iter_num,
          last_imu_, last_lidar_end_time_, feats_undistort, kf_time, registered>>
        /\ lidar_pushed' = TRUE
    BY DEF Wait, buffers, stamps, imuproc
  <1>4. TypeOK'  BY <1>1, <1>2, <1>3 DEF SourceInv, TypeOK, MeasureGroup
  <1>. QED  BY <1>3, <1>4 DEF SourceInv, ImuSorted, ScansBuffered

\* The last sample of a package.
LEMMA LastSample ==
  ASSUME NEW m \in MeasureGroup, m.imu # <<>>
  PROVE  /\ m.imu \in Seq(Stamp) /\ Len(m.imu) \in Nat \ {0}
         /\ DOMAIN m.imu = 1 .. Len(m.imu)
         /\ Last(m.imu) = m.imu[Len(m.imu)] /\ Last(m.imu) \in Stamp /\ Last(m.imu) \in Int
  <1>1. m.imu \in Seq(Stamp)  BY DEF MeasureGroup
  <1>2. PICK s : s = m.imu  OBVIOUS
  <1>3. s \in Seq(Stamp) /\ s # <<>>  BY <1>1, <1>2
  <1>4. Len(s) \in Nat \ {0} /\ DOMAIN s = 1 .. Len(s) /\ s[Len(s)] \in Stamp  BY <1>3
  <1>5. \A x \in Stamp : x \in Int  BY Numbers
  <1>6. s[Len(s)] \in Int  BY <1>4, <1>5
  <1>. QED  BY <1>2, <1>3, <1>4, <1>6 DEF Last

\* The samples UndistortPcl looks at: the last one used and those of the scan.
LEMMA SamplesSeen ==
  ASSUME TypeOK, NEW m \in MeasureGroup, m.imu # <<>>
  PROVE  LET v == <<last_imu_>> \o m.imu IN
         /\ v \in Seq(Int) /\ v # <<>> /\ Len(v) = Len(m.imu) + 1
         /\ v[1] = last_imu_ /\ v[Len(v)] = Last(m.imu)
         /\ \A i \in 1 .. Len(m.imu) : v[i + 1] = m.imu[i]
  <1>1. PICK s : s = m.imu  OBVIOUS
  <1>2. \A x \in Stamp : x \in Int  BY Numbers
  <1>3. s \in Seq(Stamp) /\ Len(s) \in Nat \ {0} /\ last_imu_ \in Int
        /\ Last(s) = s[Len(s)]
    BY <1>1, <1>2, LastSample DEF TypeOK
  <1>4. s \in Seq(Int) /\ <<last_imu_>> \in Seq(Int) /\ Len(<<last_imu_>>) = 1
        /\ <<last_imu_>>[1] = last_imu_
    BY <1>2, <1>3
  <1>5. PICK v : v = <<last_imu_>> \o s  OBVIOUS
  <1>6. /\ v \in Seq(Int) /\ Len(v) = 1 + Len(s)
        /\ \A i \in 1 .. 1 + Len(s) : v[i] = IF i <= 1 THEN <<last_imu_>>[i] ELSE s[i - 1]
    BY <1>4, <1>5, ConcatProperties
  <1>7. v[1] = last_imu_  BY <1>3, <1>4, <1>6
  <1>8. \A i \in 1 .. Len(s) : v[i + 1] = s[i]
    <2>1. ASSUME NEW i \in 1 .. Len(s) PROVE v[i + 1] = s[i]
      <3>1. i + 1 \in 1 .. 1 + Len(s) /\ ~ (i + 1 <= 1) /\ i + 1 - 1 = i  BY <1>3
      <3>. QED  BY <1>6, <3>1
    <2>. QED  BY <2>1
  <1>9. v[Len(v)] = Last(s) /\ Len(v) = Len(s) + 1 /\ v # <<>>
    <2>1. Len(s) \in 1 .. Len(s) /\ Len(v) = Len(s) + 1  BY <1>3, <1>6
    <2>2. v[Len(v)] = s[Len(s)]  BY <1>8, <2>1
    <2>3. v # <<>>  BY <1>3, <1>6
    <2>. QED  BY <1>3, <2>1, <2>2, <2>3
  <1>. QED  BY <1>1, <1>5, <1>6, <1>7, <1>8, <1>9

LEMMA ProcessTyped ==
  ASSUME TypeOK, Measures' \in MeasureGroup, Process(Measures')
  PROVE  /\ imu_need_init_' \in BOOLEAN /\ init_iter_num' \in Nat \ {0}
         /\ last_imu_' \in Stamp /\ last_lidar_end_time_' \in Int
         /\ feats_undistort' \in 0 .. MaxScans /\ kf_time' \in Int
  <1>0. PICK m : m = Measures'  OBVIOUS
  <1>. /\ m \in MeasureGroup
       /\ imu_need_init_ \in BOOLEAN /\ init_iter_num \in Nat \ {0}
       /\ last_imu_ \in Stamp /\ last_lidar_end_time_ \in Int
       /\ feats_undistort \in 0 .. MaxScans /\ kf_time \in Int
    BY <1>0 DEF TypeOK
  <1>1. CASE UNCHANGED imuproc  BY <1>1 DEF imuproc
  <1>2. CASE m.imu # <<>> /\ ImuInit(m)
    <2>1. Last(m.imu) \in Stamp /\ Last(m.imu) \in Int /\ Len(m.imu) \in Nat
      BY <1>2, LastSample
    <2>2. init_iter_num' \in Nat \ {0}  BY <1>2, <2>1 DEF ImuInit
    <2>3. imu_need_init_' \in BOOLEAN  BY <1>2 DEF ImuInit
    <2>. QED  BY <1>2, <2>1, <2>2, <2>3 DEF ImuInit
  <1>3. CASE m.imu # <<>> /\ UndistortPcl(m)
    <2>1. Last(m.imu) \in Stamp  BY <1>3, LastSample
    <2>2. m.end \in Int /\ m.lidar.n \in 0 .. MaxScans  BY DEF MeasureGroup, Scan
    <2>3. Propagated(<<last_imu_>> \o m.imu, m.end) \in Int
      <3>1. PICK v : v = <<last_imu_>> \o m.imu  OBVIOUS
      <3>2. v \in Seq(Int) /\ v # <<>>  BY <1>3, <3>1, SamplesSeen
      <3>. QED  BY <2>2, <3>1, <3>2, PropagatedNumber
    <2>4. kf_time' \in Int  BY <1>3, <2>3 DEF UndistortPcl
    <2>5. feats_undistort' \in 0 .. MaxScans  BY <1>3, <2>2, Numbers DEF UndistortPcl
    <2>. QED  BY <1>3, <2>1, <2>2, <2>4, <2>5 DEF UndistortPcl
  <1>. QED  BY <1>0, <1>1, <1>2, <1>3 DEF Process

LEMMA RegisterTyped ==
  ASSUME TypeOK, Measures' \in MeasureGroup, feats_undistort' \in 0 .. MaxScans,
         Register(Measures')
  PROVE  registered' \in Seq([stamp : Nat, scan : 1 .. MaxScans])
  <1>1. PICK R : R = [stamp : Nat, scan : 1 .. MaxScans]  OBVIOUS
  <1>2. PICK r : r = [stamp |-> Measures'.end, scan |-> feats_undistort']  OBVIOUS
  <1>3. registered \in Seq(R)  BY <1>1 DEF TypeOK
  <1>4. CASE feats_undistort' = 0  BY <1>1, <1>3, <1>4 DEF Register
  <1>5. CASE feats_undistort' # 0
    <2>0. registered' = Append(registered, r)  BY <1>2, <1>5 DEF Register
    <2>1. feats_undistort' \in 1 .. MaxScans  BY <1>5, Numbers
    <2>2. r \in R  BY <1>1, <1>2, <2>1 DEF MeasureGroup
    <2>. QED  BY <1>1, <1>3, <2>0, <2>2, Appended
  <1>. QED  BY <1>4, <1>5

\* The tail of a queue.
LEMMA Tailed ==
  ASSUME NEW S, NEW s \in Seq(S), s # <<>>
  PROVE  /\ Tail(s) \in Seq(S) /\ Len(s) \in Nat \ {0} /\ Len(Tail(s)) = Len(s) - 1
         /\ DOMAIN s = 1 .. Len(s) /\ DOMAIN Tail(s) = 1 .. Len(s) - 1
         /\ \A i \in 1 .. Len(s) - 1 : i + 1 \in 1 .. Len(s) /\ Tail(s)[i] = s[i + 1]
  OBVIOUS

LEMMA PackageLeaves ==
  ASSUME SourceInv, Package
  PROVE  SourceInv'
  <1>0. TypeOK /\ ImuSorted /\ ScansBuffered  BY DEF SourceInv
  <1>1. PICK p \in Pushed :
           /\ Takes(p)
           /\ IF flg_first_scan THEN UNCHANGED <<imuproc, registered>>
              ELSE Process(Measures') /\ Register(Measures')
    BY <1>0, PackageTakes
  <1>2. /\ lidar_buffer # <<>>
        /\ lidar_buffer' = Tail(lidar_buffer) /\ time_buffer' = Tail(time_buffer)
        /\ lidar_pushed' = FALSE /\ flg_first_scan' = FALSE
        /\ UNCHANGED <<last_timestamp_lidar, last_timestamp_imu, scan_count>>
    BY DEF Package, stamps
  <1>3. PICK S : S = Scan  OBVIOUS
  <1>4. lidar_buffer \in Seq(S) /\ time_buffer \in Seq(Stamp) /\ time_buffer # <<>>
    BY <1>0, <1>2, <1>3, HeadsTyped DEF TypeOK
  <1>5. /\ lidar_buffer' \in Seq(S) /\ Len(lidar_buffer) \in Nat \ {0}
        /\ Len(lidar_buffer') = Len(lidar_buffer) - 1
        /\ DOMAIN lidar_buffer = 1 .. Len(lidar_buffer)
        /\ DOMAIN lidar_buffer' = 1 .. Len(lidar_buffer) - 1
        /\ \A i \in 1 .. Len(lidar_buffer) - 1 : i + 1 \in 1 .. Len(lidar_buffer)
                                                /\ lidar_buffer'[i] = lidar_buffer[i + 1]
        /\ time_buffer' \in Seq(Stamp) /\ Len(time_buffer) \in Nat \ {0}
        /\ Len(time_buffer') = Len(time_buffer) - 1
    BY <1>2, <1>4, Tailed
  <1>6. Measures' \in MeasureGroup /\ lidar_mean_scantime' \in Nat /\ imu_buffer' \in Seq(Stamp)
    BY <1>1 DEF Takes
  <1>7. /\ imu_need_init_' \in BOOLEAN /\ init_iter_num' \in Nat \ {0}
        /\ last_imu_' \in Stamp /\ last_lidar_end_time_' \in Int
        /\ feats_undistort' \in 0 .. MaxScans /\ kf_time' \in Int
        /\ registered' \in Seq([stamp : Nat, scan : 1 .. MaxScans])
    <2>1. CASE flg_first_scan
      <3>1. UNCHANGED <<imuproc, registered>>  BY <1>1, <2>1
      <3>. QED  BY <1>0, <3>1 DEF TypeOK, imuproc
    <2>2. CASE ~flg_first_scan
      <3>1. Process(Measures') /\ Register(Measures')  BY <1>1, <2>2
      <3>. QED  BY <1>0, <1>6, <3>1, ProcessTyped, RegisterTyped
    <2>. QED  BY <2>1, <2>2
  <1>8. TypeOK'
    <2>1. lidar_buffer' \in Seq(Scan)  BY <1>3, <1>5
    <2>2. /\ last_timestamp_lidar' \in Stamp /\ last_timestamp_imu' \in Stamp \cup {-1}
          /\ scan_count' \in 0 .. MaxScans /\ lidar_pushed' \in BOOLEAN
          /\ flg_first_scan' \in BOOLEAN
      BY <1>0, <1>2 DEF TypeOK
    <2>. QED  BY <1>5, <1>6, <1>7, <2>1, <2>2 DEF TypeOK, MeasureGroup
  <1>9. ImuSorted'
    <2>1. PICK k, n, m : k = Len(Measures'.imu) /\ n = Len(imu_buffer) /\ m = Len(imu_buffer')
      OBVIOUS
    <2>2. n \in Nat /\ m \in Nat /\ k \in Nat /\ DOMAIN imu_buffer = 1 .. n
          /\ DOMAIN imu_buffer' = 1 .. m
      BY <1>0, <1>6, <2>1 DEF TypeOK, MeasureGroup
    <2>3. \A i \in 1 .. m : k + i \in 1 .. n /\ imu_buffer'[i] = imu_buffer[k + i]
      BY <1>1, <2>1, <2>2 DEF Takes
    <2>4. ASSUME NEW i \in 1 .. m, NEW j \in 1 .. m, i <= j
          PROVE  imu_buffer'[i] <= imu_buffer'[j]
      <3>1. k + i <= k + j  BY <2>2, <2>4
      <3>. QED  BY <1>0, <2>2, <2>3, <3>1 DEF ImuSorted
    <2>5. \A i \in 1 .. m : imu_buffer'[i] <= last_timestamp_imu'
      BY <1>0, <1>2, <2>2, <2>3 DEF ImuSorted
    <2>. QED  BY <2>2, <2>4, <2>5 DEF ImuSorted
  <1>10. ScansBuffered'
    <2>1. Len(lidar_buffer') <= Len(time_buffer')
      BY <1>0, <1>5 DEF ScansBuffered
    <2>2. ASSUME NEW i \in DOMAIN lidar_buffer' PROVE lidar_buffer'[i].n <= scan_count'
      BY <1>0, <1>2, <1>5, <2>2 DEF ScansBuffered
    <2>. QED  BY <2>1, <2>2 DEF ScansBuffered
  <1>. QED  BY <1>8, <1>9, <1>10 DEF SourceInv

LEMMA NextSource ==
  ASSUME SourceInv, [Next]_vars
  PROVE  SourceInv'
  <1>1. CASE UNCHANGED vars
    BY <1>1 DEF vars, buffers, stamps, package, imuproc, SourceInv, TypeOK, ImuSorted,
                ScansBuffered
  <1>2. CASE Idle
    <2>1. UNCHANGED vars  BY <1>2 DEF Idle
    <2>. QED  BY <1>1, <2>1
  <1>. QED  BY <1>1, <1>2, ScanArrives, SampleArrives, ScanWaits, PackageLeaves DEF Next

-----------------------------------------------------------------------------
(* A source whose stamps move forward.                                      *)

\* What is registered has a stamp.
LEMMA RegisteredTyped ==
  ASSUME TypeOK, NEW i \in DOMAIN registered
  PROVE  registered[i].stamp \in Nat
  <1>1. PICK R : R = [stamp : Nat, scan : 1 .. MaxScans]  OBVIOUS
  <1>2. registered \in Seq(R)  BY <1>1 DEF TypeOK
  <1>3. registered[i] \in R  BY <1>2
  <1>. QED  BY <1>1, <1>3

LEMMA InitForward == Init => ForwardInv
  <1>. SUFFICES ASSUME Init PROVE ForwardInv  OBVIOUS
  <1>1. /\ lidar_buffer = <<>> /\ time_buffer = <<>> /\ imu_buffer = <<>>
        /\ registered = <<>> /\ lidar_pushed = FALSE
        /\ Measures.lidar.stamp = 0 /\ Measures.beg = 0 /\ Measures.end = 0
        /\ feats_undistort = 0 /\ last_imu_ = 0 /\ kf_time = 0
    BY DEF Init, NoScan
  <1>2. InStep  BY <1>1 DEF InStep
  <1>3. RegisteredBefore /\ FilterInv
    BY <1>1 DEF RegisteredBefore, OdometryAdvances, FilterInv
  <1>. QED  BY <1>2, <1>3 DEF ForwardInv

LEMMA ScanForward ==
  ASSUME ~LoopBack, SourceInv, ForwardInv, NEW stamp \in 1 .. MaxTime,
         NEW dur \in Duration, LidarCallback(stamp, dur)
  PROVE  ForwardInv'
  <1>1. PICK scan : scan = [n |-> scan_count + 1, stamp |-> stamp, dur |-> dur]  OBVIOUS
  <1>2. stamp \in Stamp /\ last_timestamp_lidar \in Nat /\ stamp \in Nat
    BY Numbers DEF Stamp, SourceInv, TypeOK
  <1>3. stamp - last_timestamp_lidar \in LidarStep  BY DEF LidarCallback
  <1>4. ~(stamp < last_timestamp_lidar)  BY <1>2, <1>3, Numbers
  <1>5. /\ lidar_buffer' = Append(lidar_buffer, scan)
        /\ time_buffer' = Append(time_buffer, stamp)
        /\ UNCHANGED <<imu_buffer, last_timestamp_imu, lidar_pushed, Measures, last_imu_,
             last_lidar_end_time_, feats_undistort, kf_time, registered>>
    BY <1>1, <1>4 DEF LidarCallback, package, imuproc
  <1>6. PICK S : S = Scan  OBVIOUS
  <1>7. scan \in S /\ scan.stamp = stamp
    <2>1. scan_count + 1 \in 0 .. MaxScans
      BY Numbers DEF LidarCallback, SourceInv, TypeOK
    <2>. QED  BY <1>1, <1>2, <1>6, <2>1 DEF Scan
  <1>8. lidar_buffer \in Seq(S) /\ time_buffer \in Seq(Stamp)
    BY <1>6 DEF SourceInv, TypeOK
  <1>9. PICK n : n = Len(time_buffer)  OBVIOUS
  <1>10. InStep  BY DEF ForwardInv
  <1>11. /\ n \in Nat /\ Len(lidar_buffer) = n
         /\ Len(lidar_buffer') = n + 1 /\ Len(time_buffer') = n + 1
         /\ DOMAIN lidar_buffer = 1 .. n /\ DOMAIN lidar_buffer' = 1 .. n + 1
         /\ DOMAIN time_buffer = 1 .. n /\ DOMAIN time_buffer' = 1 .. n + 1
         /\ lidar_buffer' # <<>> /\ time_buffer' # <<>>
         /\ lidar_buffer'[n + 1] = scan /\ time_buffer'[n + 1] = stamp
         /\ \A i \in 1 .. n : lidar_buffer'[i] = lidar_buffer[i]
                              /\ time_buffer'[i] = time_buffer[i]
    BY <1>2, <1>5, <1>7, <1>8, <1>9, <1>10, Appended DEF InStep
  <1>12. InStep'
    <2>1. ASSUME NEW i \in 1 .. n + 1 PROVE lidar_buffer'[i].stamp = time_buffer'[i]
      BY <1>7, <1>10, <1>11 DEF InStep
    <2>2. lidar_pushed => Measures.beg = time_buffer'[1]
      <3>. SUFFICES ASSUME lidar_pushed PROVE Measures.beg = time_buffer'[1]  OBVIOUS
      <3>1. lidar_buffer # <<>> /\ Measures.beg = time_buffer[1]  BY <1>10 DEF InStep
      <3>2. n > 0  BY <1>8, <1>11, <3>1
      <3>3. 1 \in 1 .. n  BY <1>11, <3>2
      <3>. QED  BY <1>11, <3>1, <3>3
    <2>. QED  BY <1>5, <1>10, <1>11, <2>1, <2>2 DEF InStep
  <1>13. (RegisteredBefore /\ FilterInv)'
    BY <1>5 DEF ForwardInv, RegisteredBefore, OdometryAdvances, FilterInv
  <1>. QED  BY <1>12, <1>13 DEF ForwardInv

LEMMA SampleForward ==
  ASSUME ~LoopBack, SourceInv, ForwardInv, NEW stamp \in 1 .. MaxTime, ImuCallback(stamp)
  PROVE  ForwardInv'
  <1>1. stamp \in Nat /\ stamp \in Stamp /\ stamp >= 1 /\ last_timestamp_imu \in Int
        /\ last_imu_ \in Nat /\ last_lidar_end_time_ \in Int
    BY Numbers DEF Stamp, SourceInv, TypeOK
  <1>2. last_timestamp_imu = -1 \/ stamp - last_timestamp_imu \in ImuStep
    BY DEF ImuCallback
  <1>3. last_timestamp_imu <= stamp  BY <1>1, <1>2, Numbers
  <1>4. /\ imu_buffer' = Append(imu_buffer, stamp)
        /\ last_timestamp_imu' = stamp
        /\ UNCHANGED <<lidar_buffer, time_buffer, lidar_pushed, Measures, last_imu_,
             last_lidar_end_time_, feats_undistort, kf_time, registered>>
    BY <1>1, <1>3 DEF ImuCallback, package, imuproc
  <1>5. InStep'  BY <1>4 DEF ForwardInv, InStep
  <1>6. PICK n : n = Len(imu_buffer)  OBVIOUS
  <1>7. n \in Nat /\ DOMAIN imu_buffer = 1 .. n /\ DOMAIN imu_buffer' = 1 .. n + 1
        /\ imu_buffer'[n + 1] = stamp /\ \A i \in 1 .. n : imu_buffer'[i] = imu_buffer[i]
    BY <1>1, <1>4, <1>6, Appended DEF SourceInv, TypeOK
  <1>8. ASSUME NEW t \in Int, t <= stamp, \A i \in 1 .. n : t <= imu_buffer[i]
        PROVE  \A i \in 1 .. n + 1 : t <= imu_buffer'[i]
    BY <1>7, <1>8
  <1>10. RegisteredBefore'
    <2>0. RegisteredBefore  BY DEF ForwardInv
    <2>1. ASSUME NEW i \in DOMAIN registered
          PROVE  /\ registered[i].stamp <= stamp
                 /\ \A j \in 1 .. n + 1 : registered[i].stamp <= imu_buffer'[j]
      <3>1. registered[i].stamp \in Nat  BY RegisteredTyped DEF SourceInv
      <3>2. /\ registered[i].stamp <= last_timestamp_imu
            /\ \A j \in 1 .. n : registered[i].stamp <= imu_buffer[j]
        BY <1>7, <2>0 DEF RegisteredBefore
      <3>3. registered[i].stamp <= stamp  BY <1>1, <1>3, <3>1, <3>2
      <3>. QED  BY <1>8, <3>1, <3>2, <3>3
    <2>. QED  BY <1>4, <1>7, <2>0, <2>1 DEF RegisteredBefore, OdometryAdvances
  <1>9. FilterInv'
    <2>0. FilterInv  BY DEF ForwardInv
    <2>1. last_imu_ <= stamp  BY <1>1, <1>3, <2>0 DEF FilterInv
    <2>2. \A i \in 1 .. n + 1 : last_imu_ <= imu_buffer'[i]
      BY <1>1, <1>7, <1>8, <2>0, <2>1 DEF FilterInv
    <2>3. CASE kf_time = last_imu_  BY <1>4, <1>7, <2>1, <2>2, <2>3 DEF FilterInv
    <2>4. CASE kf_time # last_imu_
      <3>1. /\ last_imu_ <= last_lidar_end_time_
            /\ last_lidar_end_time_ <= last_timestamp_imu
            /\ \A i \in 1 .. n : last_lidar_end_time_ <= imu_buffer[i]
        BY <1>7, <2>0, <2>4 DEF FilterInv
      <3>2. last_lidar_end_time_ <= stamp  BY <1>1, <1>3, <3>1
      <3>3. \A i \in 1 .. n + 1 : last_lidar_end_time_ <= imu_buffer'[i]
        BY <1>1, <1>8, <3>1, <3>2
      <3>. QED  BY <1>4, <1>7, <2>1, <2>2, <3>1, <3>2, <3>3 DEF FilterInv
    <2>. QED  BY <2>3, <2>4
  <1>. QED  BY <1>5, <1>9, <1>10 DEF ForwardInv

\* The package at hand has the stamp of its scan, the first one buffered.
LEMMA PushedInStep ==
  ASSUME SourceInv, InStep, lidar_buffer # <<>>, NEW p \in Pushed
  PROVE  p.m.lidar.stamp = p.m.beg /\ p.m.beg = time_buffer[1]
  <1>1. CASE lidar_pushed
    BY <1>1, PushedCases DEF InStep
  <1>2. CASE ~lidar_pushed
    <2>1. p.m.lidar = Head(lidar_buffer) /\ p.m.beg = Head(time_buffer)
      <3>1. PICK end : p.m = [lidar |-> Head(lidar_buffer), beg |-> Head(time_buffer),
                              end |-> end, imu |-> Measures.imu]
        BY <1>2, PushedCases
      <3>. QED  BY <3>1
    <2>2. Head(lidar_buffer) = lidar_buffer[1] /\ Head(time_buffer) = time_buffer[1]
      BY HeadsTyped DEF SourceInv
    <2>3. 1 \in DOMAIN lidar_buffer  BY DEF SourceInv, TypeOK
    <2>. QED  BY <2>1, <2>2, <2>3 DEF InStep
  <1>. QED  BY <1>1, <1>2

LEMMA WaitForward ==
  ASSUME SourceInv, ForwardInv, Wait
  PROVE  ForwardInv'
  <1>1. PICK p \in Pushed : Measures' = p.m  BY DEF Wait
  <1>2. /\ lidar_buffer # <<>> /\ lidar_pushed' = TRUE
        /\ UNCHANGED <<lidar_buffer, time_buffer, imu_buffer, last_timestamp_imu,
             last_imu_, last_lidar_end_time_, feats_undistort, kf_time, registered>>
    BY DEF Wait, buffers, stamps, imuproc
  <1>3. p.m.lidar.stamp = p.m.beg /\ p.m.beg = time_buffer[1]
    BY <1>2, PushedInStep DEF ForwardInv
  <1>4. InStep'  BY <1>1, <1>2, <1>3 DEF ForwardInv, InStep
  <1>5. (RegisteredBefore /\ FilterInv)'
    BY <1>2 DEF ForwardInv, RegisteredBefore, OdometryAdvances, FilterInv
  <1>. QED  BY <1>4, <1>5 DEF ForwardInv

\* The last sample of a package lies between those before it and those left,
\* and not after the end of the scan.
LEMMA LastTaken ==
  ASSUME SourceInv, FilterInv, NEW p \in Pushed, Takes(p), Measures'.imu # <<>>
  PROVE  /\ last_imu_ <= Last(Measures'.imu) /\ Last(Measures'.imu) <= p.m.end
         /\ Last(Measures'.imu) <= last_timestamp_imu
         /\ \A i \in DOMAIN imu_buffer' : Last(Measures'.imu) <= imu_buffer'[i]
         /\ \A i, j \in 1 .. Len(Measures'.imu) :
              i <= j => Measures'.imu[i] <= Measures'.imu[j]
         /\ \A i \in 1 .. Len(Measures'.imu) : last_imu_ <= Measures'.imu[i]
  <1>1. PICK m, k, n : m = Measures'.imu /\ k = Len(m) /\ n = Len(imu_buffer)  OBVIOUS
  <1>2. /\ k \in Nat \ {0} /\ DOMAIN m = 1 .. k /\ Last(m) = m[k] /\ k \in 1 .. k
        /\ n \in Nat /\ DOMAIN imu_buffer = 1 .. n
    BY <1>1, LastSample DEF Takes, SourceInv, TypeOK
  <1>3. \A i \in 1 .. k : i \in 1 .. n /\ m[i] = imu_buffer[i] /\ m[i] <= p.m.end
    BY <1>1, <1>2 DEF Takes
  <1>4. \A i, j \in 1 .. n : i <= j => imu_buffer[i] <= imu_buffer[j]
    BY <1>2 DEF SourceInv, ImuSorted
  <1>5. \A i \in 1 .. n : imu_buffer[i] <= last_timestamp_imu /\ last_imu_ <= imu_buffer[i]
    BY <1>2 DEF SourceInv, ImuSorted, FilterInv
  <1>6. PICK d : d = Len(imu_buffer')  OBVIOUS
  <1>7. DOMAIN imu_buffer' = 1 .. d /\ d \in Nat  BY <1>6 DEF Takes
  <1>8. \A i \in 1 .. d : k + i \in 1 .. n /\ imu_buffer'[i] = imu_buffer[k + i] /\ k <= k + i
    <2>1. \A i \in 1 .. d : k + i \in DOMAIN imu_buffer /\ imu_buffer'[i] = imu_buffer[k + i]
      BY <1>1, <1>7 DEF Takes
    <2>2. \A i \in 1 .. d : k <= k + i  BY <1>2, <1>7
    <2>. QED  BY <1>2, <2>1, <2>2
  <1>9. \A i \in DOMAIN imu_buffer' : m[k] <= imu_buffer'[i]
    BY <1>2, <1>3, <1>4, <1>7, <1>8
  <1>10. \A i, j \in 1 .. k : i <= j => m[i] <= m[j]  BY <1>3, <1>4
  <1>11. \A i \in 1 .. k : last_imu_ <= m[i] /\ m[i] <= last_timestamp_imu
    BY <1>3, <1>5
  <1>. QED  BY <1>1, <1>2, <1>3, <1>9, <1>10, <1>11

\* The samples that stay are after the end of the scan and, as before, after
\* those used before.
LEMMA LeftAfter ==
  ASSUME SourceInv, NEW p \in Pushed, Takes(p), NEW t,
         \A i \in DOMAIN imu_buffer : t <= imu_buffer[i]
  PROVE  \A i \in DOMAIN imu_buffer' : t <= imu_buffer'[i] /\ p.m.end <= imu_buffer'[i]
  <1>1. \A i \in DOMAIN imu_buffer' : t <= imu_buffer'[i]  BY DEF Takes
  <1>2. p.m.end \in Int  BY DEF Takes, MeasureGroup
  <1>3. \A i \in DOMAIN imu_buffer' : imu_buffer'[i] \in Stamp /\ imu_buffer'[i] >= p.m.end
    BY DEF Takes
  <1>4. \A x \in Stamp : x \in Int /\ (x >= p.m.end => p.m.end <= x)  BY <1>2, Numbers
  <1>. QED  BY <1>1, <1>3, <1>4

LEMMA FilterForward ==
  ASSUME SourceInv, FilterInv, NEW p \in Pushed, Takes(p),
         UNCHANGED imuproc \/ Process(Measures'),
         UNCHANGED last_timestamp_imu
  PROVE  FilterInv'
  <1>1. /\ last_imu_ = 0 \/ last_imu_ <= last_timestamp_imu
        /\ \A i \in DOMAIN imu_buffer : last_imu_ <= imu_buffer[i]
    BY DEF FilterInv
  <1>2. \A i \in DOMAIN imu_buffer' : last_imu_ <= imu_buffer'[i] /\ p.m.end <= imu_buffer'[i]
    BY <1>1, LeftAfter
  <1>3. CASE UNCHANGED imuproc
    <2>1. UNCHANGED <<last_imu_, kf_time, last_lidar_end_time_>>  BY <1>3 DEF imuproc
    <2>2. CASE kf_time = last_imu_  BY <1>1, <1>2, <2>1, <2>2 DEF FilterInv
    <2>3. CASE kf_time # last_imu_
      <3>1. /\ last_imu_ <= last_lidar_end_time_
            /\ last_lidar_end_time_ <= last_timestamp_imu
            /\ \A i \in DOMAIN imu_buffer : last_lidar_end_time_ <= imu_buffer[i]
        BY <2>3 DEF FilterInv
      <3>2. \A i \in DOMAIN imu_buffer' : last_lidar_end_time_ <= imu_buffer'[i]
        BY <3>1, LeftAfter
      <3>. QED  BY <1>1, <1>2, <2>1, <3>1, <3>2 DEF FilterInv
    <2>. QED  BY <2>2, <2>3
  <1>4. CASE Measures'.imu # <<>> /\ ImuInit(Measures')
    <2>1. last_imu_' = Last(Measures'.imu) /\ kf_time' = last_imu_'
      BY <1>4 DEF ImuInit
    <2>. QED  BY <1>4, <2>1, LastTaken DEF FilterInv
  <1>5. CASE Measures'.imu # <<>> /\ UndistortPcl(Measures')
    <2>1. last_imu_' = Last(Measures'.imu) /\ last_lidar_end_time_' = p.m.end
      BY <1>5 DEF UndistortPcl, Takes
    <2>2. p.m.end <= last_timestamp_imu
      <3>1. p.m.end \in Int /\ last_timestamp_imu \in Int
        <4>1. p.m.end \in Int  BY DEF Takes, MeasureGroup
        <4>2. last_timestamp_imu \in Stamp \cup {-1}  BY DEF SourceInv, TypeOK
        <4>. QED  BY <4>1, <4>2, Numbers
      <3>2. last_timestamp_imu >= p.m.end  BY DEF Takes
      <3>. QED  BY <3>1, <3>2
    <2>. QED  BY <1>2, <1>5, <2>1, <2>2, LastTaken DEF FilterInv
  <1>. QED  BY <1>3, <1>4, <1>5 DEF Process

\* A scan processed has a sample before its end, and no registered end is after
\* that sample; without one the scan before is registered again.
LEMMA RegisteredForward ==
  ASSUME SourceInv, RegisteredBefore, NEW p \in Pushed, Takes(p),
         Process(Measures'), Register(Measures'), UNCHANGED last_timestamp_imu
  PROVE  RegisteredBefore'
  <1>0. TypeOK  BY DEF SourceInv
  <1>1. PICK R, l, e, r : /\ R = [stamp : Nat, scan : 1 .. MaxScans]
                          /\ l = Len(registered) /\ e = Measures'.end
                          /\ r = [stamp |-> e, scan |-> feats_undistort']
    OBVIOUS
  <1>2. /\ registered \in Seq(R) /\ l \in Nat /\ DOMAIN registered = 1 .. l
        /\ \A i \in 1 .. l : registered[i] \in R
    BY <1>0, <1>1, LenProperties, ElementOfSeq DEF TypeOK
  <1>3. e \in Nat /\ e = p.m.end /\ last_timestamp_imu \in Int /\ e <= last_timestamp_imu
    <2>1. e \in Nat /\ e = p.m.end  BY <1>1 DEF Takes, MeasureGroup
    <2>2. last_timestamp_imu \in Int  BY <1>0, Numbers DEF TypeOK
    <2>3. last_timestamp_imu >= p.m.end  BY DEF Takes
    <2>. QED  BY <2>1, <2>2, <2>3
  <1>4. ASSUME NEW i \in 1 .. l
        PROVE  /\ registered[i].stamp \in Nat
               /\ registered[i].stamp <= last_timestamp_imu
               /\ \A j \in DOMAIN imu_buffer : registered[i].stamp <= imu_buffer[j]
               /\ \A j \in DOMAIN imu_buffer' : registered[i].stamp <= imu_buffer'[j]
    <2>1. registered[i].stamp \in Nat  BY <1>0, <1>2, RegisteredTyped
    <2>2. /\ registered[i].stamp <= last_timestamp_imu
          /\ \A j \in DOMAIN imu_buffer : registered[i].stamp <= imu_buffer[j]
      BY <1>2 DEF RegisteredBefore
    <2>. QED  BY <2>1, <2>2, LeftAfter
  <1>5. \A j \in DOMAIN imu_buffer' : e <= imu_buffer'[j]
    <2>1. \A j \in DOMAIN imu_buffer' : imu_buffer'[j] \in Stamp /\ imu_buffer'[j] >= e
      BY <1>3 DEF Takes
    <2>2. \A x \in Stamp : x \in Int /\ (x >= e => e <= x)  BY <1>3, Numbers
    <2>. QED  BY <2>1, <2>2
  <1>6. CASE feats_undistort' = 0
    <2>1. registered' = registered  BY <1>6 DEF Register
    <2>. QED  BY <1>2, <1>4, <1>6, <2>1 DEF RegisteredBefore, OdometryAdvances
  <1>7. CASE feats_undistort' # 0
    <2>1. registered' = Append(registered, r)  BY <1>1, <1>7 DEF Register
    <2>2. r \in R
      <3>1. Measures' \in MeasureGroup  BY DEF Takes
      <3>2. feats_undistort' \in 1 .. MaxScans
        BY <1>0, <1>7, <3>1, ProcessTyped, Numbers
      <3>. QED  BY <1>1, <1>3, <3>2
    <2>3. /\ DOMAIN registered' = 1 .. l + 1 /\ Len(registered') = l + 1
          /\ registered' # <<>> /\ registered'[l + 1] = r
          /\ \A i \in 1 .. l : registered'[i] = registered[i]
      BY <1>1, <1>2, <2>1, <2>2, Appended
    <2>4. r.stamp = e /\ r.scan = feats_undistort'  BY <1>1
    <2>5. \/ l + 1 > 1 /\ r.scan = registered[l].scan
          \/ \A i \in 1 .. l : registered[i].stamp < e
      <3>1. CASE feats_undistort' = feats_undistort
        <4>1. registered # <<>> /\ registered[l].scan = feats_undistort
          BY <1>1, <1>7, <3>1 DEF RegisteredBefore
        <4>2. l # 0  BY <1>1, <1>2, <4>1
        <4>. QED  BY <1>2, <2>4, <3>1, <4>1, <4>2
      <3>2. CASE Measures'.imu # <<>> /\ UndistortPcl(Measures')
        <4>1. PICK t : t = imu_buffer[1]  OBVIOUS
        <4>2. 1 \in DOMAIN imu_buffer /\ t < e  BY <1>3, <3>2, <4>1 DEF Takes
        <4>3. t \in Int
          <5>1. imu_buffer \in Seq(Stamp)  BY <1>0 DEF TypeOK
          <5>2. t \in Stamp  BY <4>1, <4>2, <5>1
          <5>. QED  BY <5>2, Numbers
        <4>4. \A i \in 1 .. l : registered[i].stamp <= t /\ registered[i].stamp \in Nat
          BY <1>4, <4>1, <4>2
        <4>. QED  BY <1>3, <4>2, <4>3, <4>4
      <3>. QED  BY <3>1, <3>2 DEF Process, ImuInit, imuproc
    <2>6. OdometryAdvances'
      <3>1. ASSUME NEW j \in 1 .. l + 1
            PROVE  \/ j > 1 /\ registered'[j].scan = registered'[j - 1].scan
                   \/ \A i \in 1 .. j - 1 : registered'[i].stamp < registered'[j].stamp
        <4>1. CASE j = l + 1
          <5>1. j - 1 = l /\ (l + 1 > 1 => l \in 1 .. l)  BY <1>2, <4>1
          <5>. QED  BY <2>3, <2>4, <2>5, <4>1, <5>1
        <4>2. CASE j # l + 1
          <5>1. j \in 1 .. l /\ (j > 1 => j - 1 \in 1 .. l)
                /\ \A i \in 1 .. j - 1 : i \in 1 .. l
            BY <1>2, <4>2
          <5>2. \/ j > 1 /\ registered[j].scan = registered[j - 1].scan
                \/ \A i \in 1 .. j - 1 : registered[i].stamp < registered[j].stamp
            BY <1>2, <5>1 DEF RegisteredBefore, OdometryAdvances
          <5>. QED  BY <2>3, <5>1, <5>2
        <4>. QED  BY <4>1, <4>2
      <3>. QED  BY <2>3, <3>1 DEF OdometryAdvances
    <2>7. ASSUME NEW i \in 1 .. l + 1
          PROVE  /\ registered'[i].stamp <= last_timestamp_imu'
                 /\ \A j \in DOMAIN imu_buffer' : registered'[i].stamp <= imu_buffer'[j]
      <3>1. CASE i = l + 1  BY <1>3, <1>5, <2>3, <2>4, <3>1
      <3>2. CASE i # l + 1
        <4>1. i \in 1 .. l  BY <1>2, <3>2
        <4>. QED  BY <1>4, <2>3, <4>1
      <3>. QED  BY <3>1, <3>2
    <2>. QED  BY <2>3, <2>4, <2>6, <2>7 DEF RegisteredBefore
  <1>. QED  BY <1>6, <1>7

LEMMA PackageForward ==
  ASSUME SourceInv, ForwardInv, Package
  PROVE  ForwardInv'
  <1>0. TypeOK /\ ImuSorted /\ ScansBuffered /\ InStep /\ RegisteredBefore /\ FilterInv
    BY DEF SourceInv, ForwardInv
  <1>1. PICK p \in Pushed :
           /\ Takes(p)
           /\ IF flg_first_scan THEN UNCHANGED <<imuproc, registered>>
              ELSE Process(Measures') /\ Register(Measures')
    BY <1>0, PackageTakes
  <1>2. /\ lidar_buffer # <<>>
        /\ lidar_buffer' = Tail(lidar_buffer) /\ time_buffer' = Tail(time_buffer)
        /\ lidar_pushed' = FALSE /\ UNCHANGED last_timestamp_imu
    BY DEF Package, stamps
  <1>3. Measures'.lidar.stamp = Measures'.beg
    BY <1>0, <1>1, <1>2, PushedInStep DEF Takes
  <1>4. PICK S, n : S = Scan /\ n = Len(time_buffer)  OBVIOUS
  <1>5. lidar_buffer \in Seq(S) /\ time_buffer \in Seq(Stamp) /\ time_buffer # <<>>
    BY <1>0, <1>2, <1>4, HeadsTyped DEF TypeOK
  <1>6. /\ n \in Nat \ {0} /\ Len(lidar_buffer) = n
        /\ Len(lidar_buffer') = n - 1 /\ Len(time_buffer') = n - 1
        /\ DOMAIN lidar_buffer = 1 .. n /\ DOMAIN lidar_buffer' = 1 .. n - 1
        /\ \A i \in 1 .. n - 1 : /\ i + 1 \in 1 .. n
                                 /\ lidar_buffer'[i] = lidar_buffer[i + 1]
                                 /\ time_buffer'[i] = time_buffer[i + 1]
    BY <1>0, <1>2, <1>4, <1>5, Tailed DEF InStep
  <1>7. InStep'
    <2>1. ASSUME NEW i \in 1 .. n - 1 PROVE lidar_buffer'[i].stamp = time_buffer'[i]
      BY <1>0, <1>6, <2>1 DEF InStep
    <2>. QED  BY <1>2, <1>3, <1>6, <2>1 DEF InStep
  <1>8. RegisteredBefore'
    <2>1. CASE UNCHANGED <<imuproc, registered>>
      <3>1. ASSUME NEW i \in DOMAIN registered
            PROVE  \A j \in DOMAIN imu_buffer' : registered[i].stamp <= imu_buffer'[j]
        <4>1. \A j \in DOMAIN imu_buffer : registered[i].stamp <= imu_buffer[j]
          BY <1>0 DEF RegisteredBefore
        <4>. QED  BY <1>1, <4>1, LeftAfter
      <3>2. UNCHANGED <<feats_undistort, registered>>  BY <2>1 DEF imuproc
      <3>. QED  BY <1>0, <1>2, <3>1, <3>2 DEF RegisteredBefore, OdometryAdvances
    <2>. QED  BY <1>0, <1>1, <1>2, <2>1, RegisteredForward
  <1>9. FilterInv'
    <2>1. UNCHANGED imuproc \/ Process(Measures')  BY <1>1
    <2>. QED  BY <1>0, <1>1, <1>2, <2>1, FilterForward DEF SourceInv
  <1>. QED  BY <1>7, <1>8, <1>9 DEF ForwardInv

LEMMA NextForward ==
  ASSUME ~LoopBack, SourceInv, ForwardInv, [Next]_vars
  PROVE  ForwardInv'
  <1>1. CASE UNCHANGED vars
    BY <1>1 DEF vars, buffers, stamps, package, imuproc, ForwardInv, InStep, RegisteredBefore,
                OdometryAdvances, FilterInv
  <1>2. CASE Idle
    <2>1. UNCHANGED vars  BY <1>2 DEF Idle
    <2>. QED  BY <1>1, <2>1
  <1>. QED  BY <1>1, <1>2, ScanForward, SampleForward, WaitForward, PackageForward DEF Next

-----------------------------------------------------------------------------
(* What single steps do.                                                    *)

\* Only a package takes a scan out of the buffer.
LEMMA OnlyPackageTakes ==
  ASSUME SourceInv, Next, lidar_buffer # <<>>, lidar_buffer' = Tail(lidar_buffer)
  PROVE  Package
  <1>1. PICK S, n : S = Scan /\ n = Len(lidar_buffer)  OBVIOUS
  <1>2. lidar_buffer \in Seq(S)  BY <1>1 DEF SourceInv, TypeOK
  <1>3. /\ n \in Nat \ {0} /\ Len(lidar_buffer') = n - 1 /\ DOMAIN lidar_buffer = 1 .. n
        /\ \A i \in 1 .. n - 1 : i + 1 \in 1 .. n /\ lidar_buffer'[i] = lidar_buffer[i + 1]
    BY <1>1, <1>2, Tailed
  <1>4. lidar_buffer' # lidar_buffer  BY <1>1, <1>3
  <1>5. ASSUME NEW stamp \in 1 .. MaxTime, NEW dur \in Duration, LidarCallback(stamp, dur)
        PROVE  FALSE
    <2>1. PICK scan : scan = [n |-> scan_count + 1, stamp |-> stamp, dur |-> dur]  OBVIOUS
    <2>2. lidar_buffer' = <<scan>> \/ lidar_buffer' = Append(lidar_buffer, scan)
      BY <1>5, <2>1 DEF LidarCallback
    <2>3. scan_count \in Nat /\ scan_count + 1 \in 0 .. MaxScans
      BY <1>5, Numbers DEF LidarCallback, SourceInv, TypeOK
    <2>4. scan \in S
      <3>1. stamp \in Stamp  BY Numbers DEF Stamp
      <3>. QED  BY <1>1, <2>1, <2>3, <3>1 DEF Scan
    <2>5. lidar_buffer' # Append(lidar_buffer, scan)
      <3>1. Len(Append(lidar_buffer, scan)) = n + 1  BY <1>1, <1>2, <2>4, Appended
      <3>. QED  BY <1>3, <3>1
    <2>6. lidar_buffer' = <<scan>>  BY <2>2, <2>5
    <2>7. n - 1 = 1 /\ lidar_buffer'[1] = scan
      <3>1. Len(<<scan>>) = 1 /\ <<scan>>[1] = scan  OBVIOUS
      <3>. QED  BY <1>3, <2>6, <3>1
    <2>8. 1 \in 1 .. n - 1 /\ 1 + 1 \in 1 .. n /\ 1 + 1 = 2  BY <1>3, <2>7
    <2>9. lidar_buffer[2] = scan /\ 2 \in DOMAIN lidar_buffer  BY <1>3, <2>7, <2>8
    <2>10. scan.n <= scan_count  BY <2>9 DEF SourceInv, ScansBuffered
    <2>. QED  BY <2>1, <2>3, <2>10
  <1>6. ASSUME NEW stamp \in 1 .. MaxTime, ImuCallback(stamp) PROVE FALSE
    BY <1>4, <1>6 DEF ImuCallback
  <1>7. ASSUME Idle PROVE FALSE  BY <1>4, <1>7 DEF Idle, vars, buffers
  <1>8. ASSUME Wait PROVE FALSE  BY <1>4, <1>8 DEF Wait, buffers
  <1>. QED  BY <1>5, <1>6, <1>7, <1>8 DEF Next

LEMMA StepTakesItsSamples ==
  ASSUME SourceInv, [Next]_vars
  PROVE  [lidar_buffer # <<>> /\ lidar_buffer' = Tail(lidar_buffer) =>
            /\ \A i \in DOMAIN Measures'.imu : Measures'.imu[i] <= Measures'.end
            /\ \A i \in DOMAIN imu_buffer' : imu_buffer'[i] >= Measures'.end]_vars
  <1>1. CASE UNCHANGED vars  BY <1>1
  <1>2. CASE Next /\ lidar_buffer # <<>> /\ lidar_buffer' = Tail(lidar_buffer)
    <2>1. Package  BY <1>2, OnlyPackageTakes
    <2>2. PICK p \in Pushed : Takes(p)  BY <2>1, PackageTakes DEF SourceInv
    <2>3. /\ \A i \in DOMAIN Measures'.imu : Measures'.imu[i] <= Measures'.end
          /\ \A i \in DOMAIN imu_buffer' : imu_buffer'[i] >= Measures'.end
      BY <2>2 DEF Takes
    <2>. QED  BY <2>3
  <1>. QED  BY <1>1, <1>2

\* A scan undistorted leaves the filter at its end: the intervals are those from
\* the last sample used, where the filter stands, or from the end of the last
\* scan.
LEMMA UndistortedToEnd ==
  ASSUME SourceInv, FilterInv, NEW p \in Pushed, Takes(p),
         Measures'.imu # <<>>, UndistortPcl(Measures'),
         last_lidar_end_time_ <= last_imu_'
  PROVE  \/ kf_time' = last_lidar_end_time_'
         \/ kf_time' - kf_time = last_lidar_end_time_' - last_lidar_end_time_
  <1>1. PICK m, v : m = Measures' /\ v = <<last_imu_>> \o m.imu  OBVIOUS
  <1>2. m \in MeasureGroup /\ m.imu # <<>> /\ m.end = p.m.end  BY <1>1 DEF Takes
  <1>3. PICK k, end, last, L, kf, head :
          /\ k = Len(m.imu) /\ end = m.end /\ last = Last(m.imu)
          /\ L = last_lidar_end_time_ /\ kf = kf_time /\ head = last_imu_
    OBVIOUS
  <1>4. /\ k \in Nat \ {0} /\ end \in Int /\ last \in Int /\ L \in Int /\ kf \in Int
        /\ head \in Int
    <2>1. k \in Nat \ {0} /\ last \in Int  BY <1>2, <1>3, LastSample
    <2>2. end \in Int  BY <1>2, <1>3 DEF MeasureGroup
    <2>3. L \in Int /\ kf \in Int /\ last_imu_ \in Stamp  BY <1>3 DEF SourceInv, TypeOK
    <2>4. \A x \in Stamp : x \in Int  BY Numbers
    <2>. QED  BY <1>3, <2>1, <2>2, <2>3, <2>4
  <1>5. /\ v \in Seq(Int) /\ v # <<>> /\ Len(v) = k + 1
        /\ v[1] = head /\ v[k + 1] = last
        /\ \A i \in 1 .. k : v[i + 1] = m.imu[i]
    BY <1>1, <1>2, <1>3, SamplesSeen DEF SourceInv
  <1>6. /\ head <= last /\ last <= end
        /\ \A i, j \in 1 .. k : i <= j => m.imu[i] <= m.imu[j]
        /\ \A i \in 1 .. k : head <= m.imu[i]
    BY <1>1, <1>2, <1>3, LastTaken
  <1>7. ASSUME NEW i \in 1 .. k + 1, NEW j \in 1 .. k + 1, i <= j PROVE v[i] <= v[j]
    <2>1. CASE i = 1 /\ j = 1  BY <1>4, <1>5, <2>1
    <2>2. CASE i = 1 /\ j # 1
      <3>1. PICK b : b = j - 1  OBVIOUS
      <3>2. b \in 1 .. k /\ b + 1 = j  BY <1>4, <2>2, <3>1
      <3>. QED  BY <1>5, <1>6, <2>2, <3>2
    <2>3. CASE i # 1
      <3>1. PICK a, b : a = i - 1 /\ b = j - 1  OBVIOUS
      <3>2. a \in 1 .. k /\ a + 1 = i /\ b \in 1 .. k /\ b + 1 = j /\ a <= b
        BY <1>4, <1>7, <2>3, <3>1
      <3>. QED  BY <1>5, <1>6, <3>2
    <2>. QED  BY <2>1, <2>2, <2>3
  <1>8. PICK f : Predicted(f, v) /\ Propagated(v, end) = f[Len(v)] + Size(end - v[Len(v)])
    BY <1>3, <1>4, <1>5, PropagatedSolved
  <1>9. f[Len(v)] = IF v[Len(v)] < L THEN 0
                    ELSE v[Len(v)] - (IF v[1] < L THEN L ELSE v[1])
    BY <1>3, <1>4, <1>5, <1>7, <1>8, PredictedTelescopes
  <1>10. last_imu_' = last /\ last_lidar_end_time_' = end /\ kf_time' = kf + Propagated(v, end)
    BY <1>1, <1>3 DEF UndistortPcl
  <1>11. Propagated(v, end) = end - (IF head < L THEN L ELSE head)
    <2>1. L <= last  BY <1>3, <1>10
    <2>2. f[Len(v)] = last - (IF head < L THEN L ELSE head)
      BY <1>4, <1>5, <1>9, <2>1
    <2>3. Size(end - v[Len(v)]) = end - last  BY <1>4, <1>5, <1>6 DEF Size
    <2>. QED  BY <1>4, <1>8, <2>2, <2>3
  <1>12. kf = head \/ head <= L  BY <1>3 DEF FilterInv
  <1>13. kf_time' = end \/ kf_time' - kf = end - L
    BY <1>4, <1>10, <1>11, <1>12
  <1>. QED  BY <1>3, <1>10, <1>13

LEMMA StepToScanEnd ==
  ASSUME SourceInv, FilterInv, [Next]_vars
  PROVE  [LET end == last_lidar_end_time_' IN
          end # last_lidar_end_time_ /\ last_lidar_end_time_ <= last_imu_' =>
            \/ kf_time' = end
            \/ kf_time' - kf_time = end - last_lidar_end_time_]_vars
  <1>. SUFFICES ASSUME Next, last_lidar_end_time_' # last_lidar_end_time_,
                       last_lidar_end_time_ <= last_imu_'
                PROVE  \/ kf_time' = last_lidar_end_time_'
                       \/ kf_time' - kf_time = last_lidar_end_time_' - last_lidar_end_time_
    OBVIOUS
  <1>1. Package
    <2>1. ASSUME NEW stamp \in 1 .. MaxTime, NEW dur \in Duration, LidarCallback(stamp, dur)
          PROVE  FALSE
      BY <2>1 DEF LidarCallback, imuproc
    <2>2. ASSUME NEW stamp \in 1 .. MaxTime, ImuCallback(stamp) PROVE FALSE
      BY <2>2 DEF ImuCallback, imuproc
    <2>3. ASSUME Idle PROVE FALSE  BY <2>3 DEF Idle, vars, imuproc
    <2>4. ASSUME Wait PROVE FALSE  BY <2>4 DEF Wait, imuproc
    <2>. QED  BY <2>1, <2>2, <2>3, <2>4 DEF Next
  <1>2. PICK p \in Pushed :
           /\ Takes(p)
           /\ IF flg_first_scan THEN UNCHANGED <<imuproc, registered>>
              ELSE Process(Measures') /\ Register(Measures')
    BY <1>1, PackageTakes DEF SourceInv
  <1>3. Process(Measures')  BY <1>2 DEF imuproc
  <1>4. Measures'.imu # <<>> /\ UndistortPcl(Measures')
    BY <1>3 DEF Process, ImuInit, imuproc
  <1>. QED  BY <1>2, <1>4, UndistortedToEnd

-----------------------------------------------------------------------------
(* Theorems of the specification.                                           *)

LEMMA AlwaysSource == Spec => []SourceInv
  <1>1. SourceInv /\ [Next]_vars => SourceInv'  BY NextSource
  <1>. QED  BY <1>1, InitSource, PTL DEF Spec

LEMMA AlwaysForward ==
  ASSUME ~LoopBack
  PROVE  Spec => []ForwardInv
  <1>1. SourceInv /\ ForwardInv /\ [Next]_vars => ForwardInv'  BY NextForward
  <1>. QED  BY <1>1, InitForward, AlwaysSource, PTL DEF Spec

\* Every variable keeps its type, also behind a source that jumps back.
THEOREM SyncTypeCorrect == Spec => []TypeOK
  <1>1. SourceInv => TypeOK  BY DEF SourceInv
  <1>. QED  BY <1>1, AlwaysSource, PTL

\* A package takes every buffered IMU sample before the end of its scan and none
\* from after it, for any durations, steps and losses, also when stamps jump back
\* (laserMapping.cpp 423-432).
THEOREM SamplesOfScan == Spec => ImuOfScan
  <1>1. SourceInv /\ [Next]_vars =>
          [lidar_buffer # <<>> /\ lidar_buffer' = Tail(lidar_buffer) =>
             /\ \A i \in DOMAIN Measures'.imu : Measures'.imu[i] <= Measures'.end
             /\ \A i \in DOMAIN imu_buffer' : imu_buffer'[i] >= Measures'.end]_vars
    BY StepTakesItsSamples
  <1>. QED  BY <1>1, AlwaysSource, PTL DEF Spec, ImuOfScan

\* Behind a source that does not jump back a scan is processed under its own
\* stamp (laserMapping.cpp 304-305, 345-346, 395-396, 434-435).
THEOREM ScansKeepStamps ==
  ASSUME ~LoopBack
  PROVE  Spec => []PairedStamp
  <1>1. ForwardInv => PairedStamp  BY DEF ForwardInv, InStep, PairedStamp
  <1>. QED  BY <1>1, AlwaysForward, PTL

\* Behind such a source odometry moves forward in time with every scan it comes
\* from, for any durations, also where scans reach into each other or have no
\* offsets at all, and however their running mean changes (laserMapping.cpp
\* 397-416, 631-635).
THEOREM OdometryForward ==
  ASSUME ~LoopBack
  PROVE  Spec => []OdometryAdvances
  <1>1. ForwardInv => OdometryAdvances  BY DEF ForwardInv, RegisteredBefore
  <1>. QED  BY <1>1, AlwaysForward, PTL

\* Behind such a source the intervals the filter is predicted over, any number of
\* them, add up to the time up to the end of the scan (IMU_Processing.hpp 237-299).
THEOREM FilterReachesEnd ==
  ASSUME ~LoopBack
  PROVE  Spec => FilterAtScanEnd
  <1>1. ForwardInv => FilterInv  BY DEF ForwardInv
  <1>2. SourceInv /\ FilterInv /\ [Next]_vars =>
          [LET end == last_lidar_end_time_' IN
           end # last_lidar_end_time_ /\ last_lidar_end_time_ <= last_imu_' =>
             \/ kf_time' = end
             \/ kf_time' - kf_time = end - last_lidar_end_time_]_vars
    BY StepToScanEnd
  <1>. QED  BY <1>1, <1>2, AlwaysSource, AlwaysForward, PTL DEF Spec, FilterAtScanEnd

=============================================================================
