-------------------------- MODULE KeyframeFrontend --------------------------
(***************************************************************************)
(* The keyframe front end of one UAV (keyframe_frontend_node.cpp,          *)
(* keyframe_manager.cpp, submap_builder.cpp) behind FAST-LIO, which sends  *)
(* odometry and the registered cloud of a scan on two best-effort topics.  *)
(* The node has one executor thread: a callback is one step.               *)
(*                                                                         *)
(* The plane stands for space: a position is a pair of integers and yaw is *)
(* counted in quarter turns, so that poses compose exactly.                *)
(***************************************************************************)
EXTENDS Integers, SequencesExt

CONSTANTS
  World,       \* points of the surroundings
  Views,       \* the sets of them a scan may show
  Moves,       \* the motions of the UAV from scan to scan, in its own frame
  Steps,       \* times from scan to scan
  SyncTolerance, TMin, TMax, DMin, DThresh, YawMin, YawThresh,
  SubmapWindow, RangeMin, RangeMax, BodyExclusionRadius, MaxPoints,
  ClockRestarts,            \* TRUE if stamps start over with the source
  MaxScans, MaxRestarts     \* bounds

Point == Int \X Int
Pose == [pos : Point, yaw : 0 .. 3]

ASSUME FrontendAssumption ==
  /\ World \subseteq Point /\ Views \subseteq SUBSET World /\ Moves \subseteq Pose
  /\ Steps \subseteq Nat \ {0}
  /\ {SyncTolerance, TMin, TMax, DMin, DThresh, YawMin, YawThresh} \subseteq Nat
  /\ {SubmapWindow, RangeMin, RangeMax, BodyExclusionRadius, MaxPoints} \subseteq Nat
  /\ ClockRestarts \in BOOLEAN /\ MaxScans \in Nat /\ MaxRestarts \in Nat

VARIABLES
  truth, stamp,       \* where the UAV is, and the time of the last scan
  origin,             \* where FAST-LIO was started: the origin of its frame
  scans, restarts,    \* how many there were
  odom_msgs, cloud_msgs,            \* under way to the node
  latest_odom_, keyframes_, next_keyframe_id_,
  submap_cloud,       \* the submap published last
  shown, windows      \* history, per keyframe: what its cloud showed in which
                      \* frame, and the keyframes in its submap

source == <<truth, stamp, origin, scans, restarts>>
frontend == <<keyframes_, next_keyframe_id_, submap_cloud, shown, windows>>
vars == <<source, odom_msgs, cloud_msgs, latest_odom_, frontend>>

-----------------------------------------------------------------------------
(* Rigid motions.                                                           *)

Plus(u, v) == <<u[1] + v[1], u[2] + v[2]>>
Minus(u, v) == <<u[1] - v[1], u[2] - v[2]>>
NormSq(u) == u[1] * u[1] + u[2] * u[2]

Rotated(yaw, u) ==
  CASE yaw = 0 -> u
    [] yaw = 1 -> <<-u[2], u[1]>>
    [] yaw = 2 -> <<-u[1], -u[2]>>
    [] yaw = 3 -> <<u[2], -u[1]>>

\* A point given in the frame of pose t, in the frame t is given in.
Apply(t, u) == Plus(t.pos, Rotated(t.yaw, u))
Compose(t, s) == [pos |-> Apply(t, s.pos), yaw |-> (t.yaw + s.yaw) % 4]
InversePose(t) == LET back == (4 - t.yaw) % 4
               IN [pos |-> Rotated(back, Minus(<<0, 0>>, t.pos)), yaw |-> back]
Image(t, cloud) == {Apply(t, u) : u \in cloud}

Identity == [pos |-> <<0, 0>>, yaw |-> 0]

\* The yaw of the rotation from one to the other, normalised, without sign.
YawDifference(lhs, rhs) ==
  LET d == ((rhs.yaw - lhs.yaw + 2) % 4) - 2 IN IF d < 0 THEN -d ELSE d

-----------------------------------------------------------------------------
(* KeyframeManager.                                                         *)

NoOdom == [stamp |-> -1, pose |-> Identity, at |-> Identity]

Elapsed(odom) ==
  LET dt == odom.stamp - Last(keyframes_).stamp IN IF dt < 0 THEN 0 ELSE dt

DistanceSq(odom) == NormSq(Minus(odom.pose.pos, Last(keyframes_).pose.pos))
Yaw(odom) == YawDifference(Last(keyframes_).pose, odom.pose)

\* create_keyframe of the decision; the first candidate is always taken.
Evaluate(odom) ==
  keyframes_ # <<>> =>
    /\ Elapsed(odom) >= TMin
    /\ \/ DistanceSq(odom) >= DMin * DMin
       \/ Yaw(odom) >= YawMin
       \/ Elapsed(odom) >= TMax
    /\ \/ DistanceSq(odom) > DThresh * DThresh
       \/ Yaw(odom) > YawThresh
       \/ Elapsed(odom) > TMax

\* Mutant: a keyframe carries the stamp of its cloud.
CreateKeyframeAtCloud(id, msg, odom, local) ==
  [id |-> id, stamp |-> msg.stamp, pose |-> odom.pose, cloud |-> local, at |-> odom.at]

\* A keyframe; "at", where the UAV really was, is history.
CreateKeyframe(id, msg, odom, local) ==
  [id |-> id, stamp |-> odom.stamp, pose |-> odom.pose, cloud |-> local, at |-> odom.at]

-----------------------------------------------------------------------------
(* SubmapBuilder.                                                           *)

InRange(u) == NormSq(u) >= RangeMin * RangeMin /\ NormSq(u) <= RangeMax * RangeMax
OffBody(u) == NormSq(u) >= BodyExclusionRadius * BodyExclusionRadius

\* What is left of a cloud of more than MaxPoints points depends on their order.
Limited(cloud) ==
  IF MaxPoints = 0 \/ Cardinality(cloud) <= MaxPoints THEN {cloud}
  ELSE kSubset(MaxPoints, cloud)

\* Cropped to a range, without the points near the body, then thinned.  The
\* voxel grid of a cloud is taken to have a point per voxel already.
Preprocessed(cloud) == Limited({u \in cloud : InRange(u) /\ OffBody(u)})

\* The keyframes around the center that exist, by their place in the sequence.
WindowOf(keyframes, center) ==
  {i \in DOMAIN keyframes : i >= center - SubmapWindow /\ i <= center + SubmapWindow}

\* Mutant: the pose of the source is inverted, not that of the center.
RelativeOfSource(center, src) == Compose(InversePose(src.pose), center.pose)

\* From the frame of a keyframe to that of the center.
Relative(center, src) == Compose(InversePose(center.pose), src.pose)

BuildSubmap(keyframes, center) ==
  IF center \notin DOMAIN keyframes THEN {{}}
  ELSE Preprocessed(UNION {Image(Relative(keyframes[center], keyframes[i]),
                                 keyframes[i].cloud) :
                             i \in WindowOf(keyframes, center)})

-----------------------------------------------------------------------------
(* The node.                                                                *)

OdomCallback(i) ==
  /\ latest_odom_' = odom_msgs[i]
  /\ odom_msgs' = SubSeq(odom_msgs, i + 1, Len(odom_msgs))
  /\ UNCHANGED <<source, cloud_msgs, frontend>>

Synced(msg, odom) == msg.stamp - odom.stamp \in -SyncTolerance .. SyncTolerance

\* Mutant: the pose is not inverted.
LocalCloudsNotInverted(msg, odom) == Preprocessed(Image(odom.pose, msg.points))

\* The ways a cloud can come out of preprocessing, in the frame of the pose.
LocalClouds(msg, odom) == Preprocessed(Image(InversePose(odom.pose), msg.points))

\* Mutant: the id is taken before the cloud is looked at.
SkippedTakesId(msg) ==
  /\ \/ latest_odom_ = NoOdom
     \/ ~Synced(msg, latest_odom_)
     \/ ~Evaluate(latest_odom_)
     \/ {} \in LocalClouds(msg, latest_odom_)
  /\ next_keyframe_id_' = next_keyframe_id_
       + (IF latest_odom_ # NoOdom /\ Synced(msg, latest_odom_) /\ Evaluate(latest_odom_)
          THEN 1 ELSE 0)
  /\ UNCHANGED <<keyframes_, submap_cloud, shown, windows>>

\* A cloud that does not become a keyframe.
Skipped(msg) ==
  /\ \/ latest_odom_ = NoOdom
     \/ ~Synced(msg, latest_odom_)
     \/ ~Evaluate(latest_odom_)
     \/ {} \in LocalClouds(msg, latest_odom_)
  /\ UNCHANGED frontend

PublishSubmap(keyframes) ==
  /\ submap_cloud' \in BuildSubmap(keyframes, Len(keyframes))
  /\ windows' = Append(windows, WindowOf(keyframes, Len(keyframes)))

\* Mutant: a cloud that preprocessing empties is not rejected.
CreatedEmpty(msg) ==
  /\ latest_odom_ # NoOdom /\ Synced(msg, latest_odom_) /\ Evaluate(latest_odom_)
  /\ \E local \in LocalClouds(msg, latest_odom_) :
       keyframes_' = Append(keyframes_,
         CreateKeyframe(next_keyframe_id_, msg, latest_odom_, local))
  /\ next_keyframe_id_' = next_keyframe_id_ + 1
  /\ PublishSubmap(keyframes_')
  /\ shown' = Append(shown, msg.seen)

Created(msg) ==
  /\ latest_odom_ # NoOdom /\ Synced(msg, latest_odom_) /\ Evaluate(latest_odom_)
  /\ \E local \in LocalClouds(msg, latest_odom_) \ {{}} :
       keyframes_' = Append(keyframes_,
         CreateKeyframe(next_keyframe_id_, msg, latest_odom_, local))
  /\ next_keyframe_id_' = next_keyframe_id_ + 1
  /\ PublishSubmap(keyframes_')
  /\ shown' = Append(shown, msg.seen)

CloudCallback(i) ==
  /\ \/ Skipped(cloud_msgs[i])
     \/ Created(cloud_msgs[i])
  /\ cloud_msgs' = SubSeq(cloud_msgs, i + 1, Len(cloud_msgs))
  /\ UNCHANGED <<source, odom_msgs, latest_odom_>>

-----------------------------------------------------------------------------
(* FAST-LIO and the UAV.                                                    *)

\* The UAV has moved, and a scan is registered: odometry and the cloud have
\* one stamp and are given in the frame of FAST-LIO.
Scan(move, step, view) ==
  /\ scans < MaxScans
  /\ scans' = scans + 1
  /\ truth' = Compose(truth, move) /\ stamp' = stamp + step
  /\ odom_msgs' = Append(odom_msgs,
       [stamp |-> stamp', pose |-> Compose(InversePose(origin), truth'), at |-> truth'])
  /\ cloud_msgs' = Append(cloud_msgs,
       [stamp |-> stamp', points |-> Image(InversePose(origin), view),
        seen |-> [view |-> view, origin |-> origin]])
  /\ UNCHANGED <<origin, restarts, latest_odom_, frontend>>

\* FAST-LIO is started again under a running front end, with or without the
\* simulation its clock comes from.
Restart ==
  /\ restarts < MaxRestarts
  /\ restarts' = restarts + 1
  /\ origin' = truth
  /\ stamp' = IF ClockRestarts THEN 0 ELSE stamp
  /\ UNCHANGED <<truth, scans, odom_msgs, cloud_msgs, latest_odom_, frontend>>

Init ==
  /\ truth = Identity /\ origin = Identity /\ stamp = 0
  /\ scans = 0 /\ restarts = 0
  /\ odom_msgs = <<>> /\ cloud_msgs = <<>>
  /\ latest_odom_ = NoOdom /\ keyframes_ = <<>> /\ next_keyframe_id_ = 0
  /\ submap_cloud = {} /\ shown = <<>> /\ windows = <<>>

\* A callback gets any message under way; those sent before it are lost.
Next ==
  \/ \E move \in Moves, step \in Steps, view \in Views : Scan(move, step, view)
  \/ Restart
  \/ \E i \in DOMAIN odom_msgs : OdomCallback(i)
  \/ \E i \in DOMAIN cloud_msgs : CloudCallback(i)

Spec == Init /\ [][Next]_vars

-----------------------------------------------------------------------------
(* Properties.                                                              *)

Seen == [view : Views, origin : Pose]
OdomMsg == [stamp : Nat, pose : Pose, at : Pose]
Keyframe == [id : Nat, stamp : Nat, pose : Pose, cloud : (SUBSET Point) \ {{}}, at : Pose]

\* The type of every variable; a keyframe has a point.
TypeOK ==
  /\ truth \in Pose /\ origin \in Pose /\ stamp \in Nat
  /\ scans \in 0 .. MaxScans /\ restarts \in 0 .. MaxRestarts
  /\ odom_msgs \in Seq(OdomMsg)
  /\ cloud_msgs \in Seq([stamp : Nat, points : SUBSET Point, seen : Seen])
  /\ latest_odom_ \in OdomMsg \cup {NoOdom}
  /\ keyframes_ \in Seq(Keyframe) /\ next_keyframe_id_ \in Nat
  /\ submap_cloud \in SUBSET Point
  /\ shown \in Seq(Seen) /\ windows \in Seq(SUBSET Nat)

\* Any two keyframes are TMin or more apart, in the order of their ids, also
\* when a topic lags, loses messages, or the source starts over
\* (keyframe_manager.cpp 40-52, 82).
KeyframesSpaced ==
  \A i, j \in DOMAIN keyframes_ :
    i < j => keyframes_[j].stamp >= keyframes_[i].stamp + TMin

\* The ids are 0, 1, 2 ...: a candidate that is rejected takes none
\* (keyframe_frontend_node.cpp 139-147).
IdsContiguous ==
  /\ next_keyframe_id_ = Len(keyframes_)
  /\ \A i \in DOMAIN keyframes_ : keyframes_[i].id = i - 1

\* The frames a keyframe was put together from: of its pose and of its cloud.
Frames(i) ==
  {Compose(keyframes_[i].at, InversePose(keyframes_[i].pose)), shown[i].origin}
OneFrame(window) == \A f, g \in UNION {Frames(i) : i \in window} : f = g

\* The cloud of a keyframe, seen from where the UAV was, is part of what the
\* scan showed, though the pose may be that of another scan of the same run of
\* FAST-LIO (keyframe_frontend_node.cpp 129-138).
KeyframeCloudSeen ==
  \A i \in DOMAIN keyframes_ :
    OneFrame({i}) => Image(keyframes_[i].at, keyframes_[i].cloud) \subseteq shown[i].view

\* Every point of a submap, seen from its keyframe, is one that the scans of the
\* window showed: all clouds are in the frame of that keyframe
\* (submap_builder.cpp 50-54). It does not hold of a window over two runs of
\* FAST-LIO.
SubmapSeen ==
  keyframes_ # <<>> =>
    Image(Last(keyframes_).at, submap_cloud)
      \subseteq UNION {shown[i].view : i \in Last(windows)}

\* As long as all of a window comes from one run of FAST-LIO its submap holds,
\* in one frame, what the scans showed; it is never empty and the newest
\* keyframe is always part of it (submap_builder.cpp 31-68).
SubmapOfOneRun ==
  keyframes_ # <<>> =>
    /\ submap_cloud # {} /\ Len(keyframes_) \in Last(windows)
    /\ OneFrame(Last(windows)) => SubmapSeen
=============================================================================
