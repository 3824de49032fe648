----------------------- MODULE KeyframeFrontendProofs -----------------------
(***************************************************************************)
(* Proofs about the keyframe front end, for any surroundings, views and    *)
(* motions, any thresholds and any limits: that ids and stamps are those   *)
(* the back end counts on, and that every cloud is in the frame it is said *)
(* to be in. The proofs about the choice of points are at the end.         *)
(***************************************************************************)
EXTENDS KeyframeFrontend, PointLimit, FiniteSetTheorems, SequenceTheorems,
        TLAPS

-----------------------------------------------------------------------------
(* Rigid motions of the plane.                                              *)

LEMMA PointType ==
  /\ \A x, y \in Int : <<x, y>> \in Point
  /\ \A u \in Point : u[1] \in Int /\ u[2] \in Int /\ u = <<u[1], u[2]>>
  BY DEF Point

LEMMA SumType ==
  ASSUME NEW u \in Point, NEW v \in Point
  PROVE  Plus(u, v) \in Point /\ Minus(u, v) \in Point
  BY PointType DEF Plus, Minus

LEMMA Quarters ==
  ASSUME NEW a \in 0 .. 3, NEW b \in 0 .. 3
  PROVE  /\ (a + b) % 4 = IF a + b < 4 THEN a + b ELSE a + b - 4
         /\ (a + b) % 4 \in 0 .. 3
         /\ (4 - a) % 4 = IF a = 0 THEN 0 ELSE 4 - a
         /\ (4 - a) % 4 \in 0 .. 3
  OBVIOUS

LEMMA RotatedBy ==
  ASSUME NEW u
  PROVE  /\ Rotated(0, u) = u
         /\ Rotated(1, u) = <<-u[2], u[1]>>
         /\ Rotated(2, u) = <<-u[1], -u[2]>>
         /\ Rotated(3, u) = <<u[2], -u[1]>>
  BY DEF Rotated

\* Every rotation is made of quarter turns, four of which are none.
LEMMA QuarterTurn ==
  ASSUME NEW u \in Point
  PROVE  /\ Rotated(1, u) \in Point
         /\ Rotated(0, u) = u
         /\ Rotated(2, u) = Rotated(1, Rotated(1, u))
         /\ Rotated(3, u) = Rotated(1, Rotated(1, Rotated(1, u)))
         /\ Rotated(1, Rotated(1, Rotated(1, Rotated(1, u)))) = u
  <1>. DEFINE v == <<-u[2], u[1]>>
              w == <<-u[1], -u[2]>>
              z == <<u[2], -u[1]>>
  <1>1. u[1] \in Int /\ u[2] \in Int /\ u = <<u[1], u[2]>>  BY PointType
  <1>2. v \in Point /\ w \in Point /\ z \in Point  BY <1>1, PointType
  <1>3. Rotated(1, u) = v /\ Rotated(2, u) = w /\ Rotated(3, u) = z /\ Rotated(0, u) = u
    BY RotatedBy
  <1>4. /\ <<-v[2], v[1]>> = w /\ <<-w[2], w[1]>> = z /\ <<-z[2], z[1]>> = u
    BY <1>1
  <1>. HIDE DEF v, w, z
  <1>5. Rotated(1, v) = w /\ Rotated(1, w) = z /\ Rotated(1, z) = u
    BY <1>4, RotatedBy
  <1>. QED  BY <1>2, <1>3, <1>5

LEMMA RotatedType ==
  ASSUME NEW u \in Point, NEW a \in 0 .. 3
  PROVE  Rotated(a, u) \in Point
  <1>1. a \in {0, 1, 2, 3}  OBVIOUS
  <1>. QED  BY <1>1, QuarterTurn

\* Turning twice is turning once by the sum.
LEMMA RotatedTwice ==
  ASSUME NEW u \in Point, NEW a \in 0 .. 3, NEW b \in 0 .. 3
  PROVE  Rotated(a, Rotated(b, u)) = Rotated((a + b) % 4, u)
  <1>1. a \in {0, 1, 2, 3} /\ b \in {0, 1, 2, 3}  OBVIOUS
  <1>2. (a + b) % 4 = IF a + b < 4 THEN a + b ELSE a + b - 4  BY Quarters
  <1>. DEFINE c == (a + b) % 4
              q == Rotated(1, u)
              h == Rotated(1, q)
              t == Rotated(1, h)
  <1>3. /\ q \in Point /\ h \in Point /\ t \in Point /\ Rotated(1, t) = u
        /\ Rotated(0, u) = u /\ Rotated(1, u) = q
        /\ Rotated(2, u) = h /\ Rotated(3, u) = t
    BY QuarterTurn
  <1>. HIDE DEF q, h, t, c
  <1>4. /\ Rotated(0, q) = q /\ Rotated(1, q) = h /\ Rotated(2, q) = t /\ Rotated(3, q) = u
        /\ Rotated(0, h) = h /\ Rotated(1, h) = t /\ Rotated(2, h) = u /\ Rotated(3, h) = q
        /\ Rotated(0, t) = t /\ Rotated(1, t) = u /\ Rotated(2, t) = q /\ Rotated(3, t) = h
    BY <1>3, QuarterTurn DEF q, h, t
  <1>5. CASE b = 0
    <2>1. c = a  BY <1>1, <1>2, <1>5 DEF c
    <2>. QED  BY <1>3, <1>5, <2>1 DEF c
  <1>6. CASE b = 1
    <2>1. c = IF a = 3 THEN 0 ELSE a + 1  BY <1>1, <1>2, <1>6 DEF c
    <2>. QED  BY <1>1, <1>3, <1>4, <1>6, <2>1 DEF c
  <1>7. CASE b = 2
    <2>1. c = IF a > 1 THEN a - 2 ELSE a + 2  BY <1>1, <1>2, <1>7 DEF c
    <2>. QED  BY <1>1, <1>3, <1>4, <1>7, <2>1 DEF c
  <1>8. CASE b = 3
    <2>1. c = IF a > 0 THEN a - 1 ELSE 3  BY <1>1, <1>2, <1>8 DEF c
    <2>. QED  BY <1>1, <1>3, <1>4, <1>8, <2>1 DEF c
  <1>. QED  BY <1>1, <1>5, <1>6, <1>7, <1>8

LEMMA RotatedSum ==
  ASSUME NEW u \in Point, NEW v \in Point, NEW a \in 0 .. 3
  PROVE  Rotated(a, Plus(u, v)) = Plus(Rotated(a, u), Rotated(a, v))
  <1>1. a \in {0, 1, 2, 3}  OBVIOUS
  <1>2. \A x, y \in Point : Rotated(1, Plus(x, y)) = Plus(Rotated(1, x), Rotated(1, y))
    <2>. SUFFICES ASSUME NEW x \in Point, NEW y \in Point
                  PROVE  Rotated(1, Plus(x, y)) = Plus(Rotated(1, x), Rotated(1, y))
      OBVIOUS
    <2>1. x[1] \in Int /\ x[2] \in Int /\ y[1] \in Int /\ y[2] \in Int  BY PointType
    <2>2. Plus(x, y)[1] = x[1] + y[1] /\ Plus(x, y)[2] = x[2] + y[2]  BY DEF Plus
    <2>3. Rotated(1, Plus(x, y)) = <<-(x[2] + y[2]), x[1] + y[1]>>  BY <2>2, RotatedBy
    <2>4. Plus(Rotated(1, x), Rotated(1, y)) = <<(-x[2]) + (-y[2]), x[1] + y[1]>>
      <3>1. Rotated(1, x) = <<-x[2], x[1]>> /\ Rotated(1, y) = <<-y[2], y[1]>>
        BY RotatedBy
      <3>. QED  BY <3>1 DEF Plus
    <2>5. -(x[2] + y[2]) = (-x[2]) + (-y[2])  BY <2>1
    <2>. QED  BY <2>3, <2>4, <2>5
  <1>. DEFINE q(x) == Rotated(1, x)
  <1>3. /\ u \in Point /\ q(u) \in Point /\ q(q(u)) \in Point
        /\ v \in Point /\ q(v) \in Point /\ q(q(v)) \in Point
        /\ Plus(u, v) \in Point
    BY SumType, QuarterTurn
  <1>4. /\ q(Plus(u, v)) = Plus(q(u), q(v))
        /\ q(Plus(q(u), q(v))) = Plus(q(q(u)), q(q(v)))
        /\ q(Plus(q(q(u)), q(q(v)))) = Plus(q(q(q(u))), q(q(q(v))))
    BY <1>2, <1>3
  <1>5. \A x \in {u, v, Plus(u, v)} :
          Rotated(0, x) = x /\ Rotated(2, x) = q(q(x)) /\ Rotated(3, x) = q(q(q(x)))
    BY <1>3, QuarterTurn
  <1>. QED  BY <1>1, <1>4, <1>5

LEMMA PoseType ==
  ASSUME NEW t \in Pose
  PROVE  t.pos \in Point /\ t.yaw \in 0 .. 3
  BY DEF Pose

LEMMA ApplyType ==
  ASSUME NEW t \in Pose, NEW u \in Point
  PROVE  Apply(t, u) \in Point
  BY PoseType, RotatedType, SumType DEF Apply

LEMMA ComposeType ==
  ASSUME NEW t \in Pose, NEW s \in Pose
  PROVE  /\ Compose(t, s) \in Pose
         /\ Compose(t, s).pos = Apply(t, s.pos)
         /\ Compose(t, s).yaw = (t.yaw + s.yaw) % 4
  <1>1. Apply(t, s.pos) \in Point  BY PoseType, ApplyType
  <1>2. (t.yaw + s.yaw) % 4 \in 0 .. 3  BY PoseType, Quarters
  <1>. QED  BY <1>1, <1>2 DEF Compose, Pose

LEMMA Origin == <<0, 0>> \in Point /\ Identity \in Pose
  BY PointType DEF Identity, Pose

LEMMA InverseType ==
  ASSUME NEW t \in Pose
  PROVE  /\ InversePose(t) \in Pose
         /\ InversePose(t).yaw = (4 - t.yaw) % 4
         /\ InversePose(t).pos = Rotated((4 - t.yaw) % 4, Minus(<<0, 0>>, t.pos))
  <1>1. t.pos \in Point /\ t.yaw \in 0 .. 3  BY PoseType
  <1>2. (4 - t.yaw) % 4 \in 0 .. 3  BY <1>1, Quarters
  <1>3. Minus(<<0, 0>>, t.pos) \in Point  BY <1>1, Origin, SumType
  <1>4. Rotated((4 - t.yaw) % 4, Minus(<<0, 0>>, t.pos)) \in Point
    BY <1>2, <1>3, RotatedType
  <1>. QED  BY <1>2, <1>4 DEF InversePose, Pose

LEMMA PlusAssociates ==
  ASSUME NEW u \in Point, NEW v \in Point, NEW w \in Point
  PROVE  /\ Plus(Plus(u, v), w) = Plus(u, Plus(v, w))
         /\ Plus(u, Plus(Minus(<<0, 0>>, u), v)) = v
         /\ Plus(Minus(<<0, 0>>, u), Plus(u, v)) = v
  BY PointType DEF Plus, Minus

\* A motion after another moves a point as their composition does.
LEMMA ApplyCompose ==
  ASSUME NEW t \in Pose, NEW s \in Pose, NEW u \in Point
  PROVE  Apply(Compose(t, s), u) = Apply(t, Apply(s, u))
  <1>. DEFINE r == Rotated(s.yaw, u)
  <1>1. /\ t.pos \in Point /\ t.yaw \in 0 .. 3 /\ s.pos \in Point /\ s.yaw \in 0 .. 3
    BY PoseType
  <1>2. /\ r \in Point /\ Rotated(t.yaw, r) \in Point /\ Rotated(t.yaw, s.pos) \in Point
    BY <1>1, RotatedType
  <1>3. Apply(Compose(t, s), u)
          = Plus(Plus(t.pos, Rotated(t.yaw, s.pos)), Rotated((t.yaw + s.yaw) % 4, u))
    BY ComposeType DEF Apply
  <1>4. Rotated((t.yaw + s.yaw) % 4, u) = Rotated(t.yaw, r)
    BY <1>1, RotatedTwice
  <1>5. Apply(t, Apply(s, u)) = Plus(t.pos, Rotated(t.yaw, Plus(s.pos, r)))
    BY DEF Apply
  <1>6. Rotated(t.yaw, Plus(s.pos, r)) = Plus(Rotated(t.yaw, s.pos), Rotated(t.yaw, r))
    BY <1>1, <1>2, RotatedSum
  <1>. HIDE DEF r
  <1>. QED  BY <1>1, <1>2, <1>3, <1>4, <1>5, <1>6, PlusAssociates

\* The inverse undoes a motion and is undone by it.
LEMMA ApplyInverse ==
  ASSUME NEW t \in Pose, NEW u \in Point
  PROVE  /\ Apply(t, Apply(InversePose(t), u)) = u
         /\ Apply(InversePose(t), Apply(t, u)) = u
  <1>. DEFINE back == (4 - t.yaw) % 4
              o == Minus(<<0, 0>>, t.pos)
  <1>1. t.pos \in Point /\ t.yaw \in 0 .. 3  BY PoseType
  <1>2. /\ back \in 0 .. 3 /\ (t.yaw + back) % 4 = 0 /\ (back + t.yaw) % 4 = 0
    <2>1. back = IF t.yaw = 0 THEN 0 ELSE 4 - t.yaw  BY <1>1, Quarters
    <2>2. back \in 0 .. 3  BY <1>1, Quarters
    <2>. HIDE DEF back
    <2>3. t.yaw + back = 0 \/ t.yaw + back = 4  BY <1>1, <2>1
    <2>. QED  BY <1>1, <2>2, <2>3, Quarters
  <1>3. o \in Point  BY <1>1, Origin, SumType
  <1>4. InversePose(t).yaw = back /\ InversePose(t).pos = Rotated(back, o)
    BY InverseType
  <1>. HIDE DEF back, o
  <1>5. \A v \in Point : /\ Rotated(t.yaw, Rotated(back, v)) = v
                         /\ Rotated(back, Rotated(t.yaw, v)) = v
                         /\ Rotated(back, v) \in Point /\ Rotated(t.yaw, v) \in Point
    <2>. SUFFICES ASSUME NEW v \in Point
                  PROVE  /\ Rotated(t.yaw, Rotated(back, v)) = v
                         /\ Rotated(back, Rotated(t.yaw, v)) = v
                         /\ Rotated(back, v) \in Point /\ Rotated(t.yaw, v) \in Point
      OBVIOUS
    <2>1. Rotated(0, v) = v  BY QuarterTurn
    <2>2. Rotated(t.yaw, Rotated(back, v)) = Rotated((t.yaw + back) % 4, v)
      BY <1>1, <1>2, RotatedTwice
    <2>3. Rotated(back, Rotated(t.yaw, v)) = Rotated((back + t.yaw) % 4, v)
      BY <1>1, <1>2, RotatedTwice
    <2>. QED  BY <1>1, <1>2, <2>1, <2>2, <2>3, RotatedType
  <1>6. Apply(t, Apply(InversePose(t), u)) = u
    <2>1. Apply(t, Apply(InversePose(t), u))
            = Plus(t.pos, Rotated(t.yaw, Plus(Rotated(back, o), Rotated(back, u))))
      BY <1>4 DEF Apply
    <2>2. Plus(Rotated(back, o), Rotated(back, u)) = Rotated(back, Plus(o, u))
      BY <1>2, <1>3, RotatedSum
    <2>3. Plus(o, u) \in Point  BY <1>3, SumType
    <2>4. Plus(t.pos, Plus(o, u)) = u  BY <1>1, PlusAssociates DEF o
    <2>. QED  BY <1>5, <2>1, <2>2, <2>3, <2>4
  <1>7. Apply(InversePose(t), Apply(t, u)) = u
    <2>. DEFINE r == Rotated(t.yaw, u)
    <2>1. r \in Point /\ Plus(t.pos, r) \in Point  BY <1>1, <1>5, SumType
    <2>2. Apply(InversePose(t), Apply(t, u))
            = Plus(Rotated(back, o), Rotated(back, Plus(t.pos, r)))
      BY <1>4 DEF Apply
    <2>3. Plus(Rotated(back, o), Rotated(back, Plus(t.pos, r)))
            = Rotated(back, Plus(o, Plus(t.pos, r)))
      BY <1>2, <1>3, <2>1, RotatedSum
    <2>4. Plus(o, Plus(t.pos, r)) = r
      <3>. HIDE DEF r
      <3>. QED  BY <1>1, <2>1, PlusAssociates DEF o
    <2>. QED  BY <1>5, <2>2, <2>3, <2>4
  <1>. QED  BY <1>6, <1>7

LEMMA ImageType ==
  ASSUME NEW t \in Pose, NEW cloud \in SUBSET Point
  PROVE  Image(t, cloud) \in SUBSET Point
  BY ApplyType DEF Image

LEMMA ImageCompose ==
  ASSUME NEW t \in Pose, NEW s \in Pose, NEW cloud \in SUBSET Point
  PROVE  Image(Compose(t, s), cloud) = Image(t, Image(s, cloud))
  <1>1. \A u \in cloud : Apply(Compose(t, s), u) = Apply(t, Apply(s, u))
    BY ApplyCompose
  <1>. QED  BY <1>1 DEF Image

LEMMA ImageInverse ==
  ASSUME NEW t \in Pose, NEW cloud \in SUBSET Point
  PROVE  /\ Image(t, Image(InversePose(t), cloud)) = cloud
         /\ Image(InversePose(t), Image(t, cloud)) = cloud
  <1>1. \A u \in cloud : /\ Apply(t, Apply(InversePose(t), u)) = u
                         /\ Apply(InversePose(t), Apply(t, u)) = u
    BY ApplyInverse
  <1>. QED  BY <1>1 DEF Image

LEMMA ImageMonotonic ==
  ASSUME NEW t, NEW cloud, NEW more, cloud \subseteq more
  PROVE  Image(t, cloud) \subseteq Image(t, more)
  BY DEF Image

-----------------------------------------------------------------------------
(* Clouds.                                                                  *)

\* Thinning keeps a part of the cloud, and a part that is not empty.
LEMMA LimitedPart ==
  ASSUME NEW cloud, NEW part \in Limited(cloud)
  PROVE  part \subseteq cloud /\ (cloud # {} => part # {})
  <1>1. CASE MaxPoints = 0 \/ Cardinality(cloud) <= MaxPoints
    <2>1. part = cloud  BY <1>1 DEF Limited
    <2>. QED  BY <2>1
  <1>2. CASE ~(MaxPoints = 0 \/ Cardinality(cloud) <= MaxPoints)
    <2>1. part \in SUBSET cloud /\ Cardinality(part) = MaxPoints /\ MaxPoints # 0
      BY <1>2 DEF Limited, kSubset
    <2>2. Cardinality({}) = 0  BY FS_EmptySet
    <2>. QED  BY <2>1, <2>2
  <1>. QED  BY <1>1, <1>2

Useful(cloud) == {u \in cloud : InRange(u) /\ OffBody(u)}

LEMMA PreprocessedPart ==
  ASSUME NEW cloud, NEW part \in Preprocessed(cloud)
  PROVE  part \subseteq Useful(cloud) /\ (Useful(cloud) # {} => part # {})
  BY LimitedPart DEF Preprocessed, Useful

-----------------------------------------------------------------------------
(* The inductive invariant.                                                 *)

Message == [stamp : Nat, points : SUBSET Point, seen : Seen]

\* What a scan showed, in the frame of a run of FAST-LIO.
InFrame(seen) == Image(InversePose(seen.origin), seen.view)

CloudsInv == \A i \in DOMAIN cloud_msgs : cloud_msgs[i].points = InFrame(cloud_msgs[i].seen)

LengthsInv == Len(shown) = Len(keyframes_) /\ Len(windows) = Len(keyframes_)

\* The cloud of a keyframe is the useful part of a scan, seen from its pose.
LocalOf(keyframe, seen) ==
  keyframe.cloud \subseteq Useful(Image(InversePose(keyframe.pose), InFrame(seen)))

LocalsInv == \A i \in DOMAIN keyframes_ : LocalOf(keyframes_[i], shown[i])

\* The clouds of a window, in the frame of a keyframe.
Merged(keyframes, center, window) ==
  UNION {Image(Relative(keyframes[center], keyframes[i]), keyframes[i].cloud) :
           i \in window}

\* The submap published last is a part of the clouds of the window around the
\* newest keyframe, and a part that is not empty.
SubmapInv ==
  keyframes_ # <<>> =>
    LET newest == Len(keyframes_)
    IN /\ Last(windows) = WindowOf(keyframes_, newest)
       /\ submap_cloud # {}
       /\ submap_cloud \subseteq Merged(keyframes_, newest, Last(windows))

FrontendInv ==
  TypeOK /\ IdsContiguous /\ CloudsInv /\ LengthsInv /\ LocalsInv /\ SubmapInv

-----------------------------------------------------------------------------
(* Sequences.                                                               *)

LEMMA Appended ==
  ASSUME NEW S, NEW s \in Seq(S), NEW x \in S
  PROVE  /\ Append(s, x) \in Seq(S) /\ Append(s, x) # <<>>
         /\ Len(s) \in Nat /\ DOMAIN s = 1 .. Len(s)
         /\ Len(Append(s, x)) = Len(s) + 1
         /\ DOMAIN Append(s, x) = 1 .. Len(s) + 1
         /\ \A i \in 1 .. Len(s) : Append(s, x)[i] = s[i]
         /\ Append(s, x)[Len(s) + 1] = x
         /\ Last(Append(s, x)) = x
  BY DEF Last

LEMMA Remaining ==
  ASSUME NEW S, NEW s \in Seq(S), NEW i \in DOMAIN s
  PROVE  /\ SubSeq(s, i + 1, Len(s)) \in Seq(S)
         /\ \A j \in DOMAIN SubSeq(s, i + 1, Len(s)) :
              \E k \in DOMAIN s : SubSeq(s, i + 1, Len(s))[j] = s[k]
  <1>. DEFINE rest == SubSeq(s, i + 1, Len(s))
  <1>1. i \in Nat /\ i >= 1 /\ Len(s) \in Nat /\ DOMAIN s = 1 .. Len(s)
    OBVIOUS
  <1>2. \A k \in i + 1 .. Len(s) : s[k] \in S
    BY <1>1
  <1>3. /\ rest \in Seq(S)
        /\ Len(rest) = IF i + 1 <= Len(s) THEN Len(s) - (i + 1) + 1 ELSE 0
        /\ \A j \in 1 .. Len(s) - (i + 1) + 1 : rest[j] = s[(i + 1) + j - 1]
    BY <1>1, <1>2, SubSeqProperties
  <1>. HIDE DEF rest
  <1>4. ASSUME NEW j \in DOMAIN rest
        PROVE  \E k \in DOMAIN s : rest[j] = s[k]
    <2>1. j \in 1 .. Len(rest)  BY <1>3
    <2>2. j \in 1 .. Len(s) - (i + 1) + 1  BY <1>1, <1>3, <2>1
    <2>3. (i + 1) + j - 1 \in DOMAIN s  BY <1>1, <2>2
    <2>. QED  BY <1>3, <2>2, <2>3
  <1>. QED  BY <1>3, <1>4 DEF rest

-----------------------------------------------------------------------------
(* The source and the topics.                                               *)

LEMMA InitFrontend == Init => FrontendInv
  <1>. SUFFICES ASSUME Init PROVE FrontendInv
    OBVIOUS
  <1>. USE DEF Init
  <1>1. TypeOK
    BY FrontendAssumption, Origin DEF TypeOK, NoOdom
  <1>2. IdsContiguous /\ LengthsInv
    BY DEF IdsContiguous, LengthsInv
  <1>3. CloudsInv /\ LocalsInv /\ SubmapInv
    BY DEF CloudsInv, LocalsInv, SubmapInv
  <1>. QED  BY <1>1, <1>2, <1>3 DEF FrontendInv

\* Keyframes and the submap are left alone.
LEMMA FrontendSame ==
  ASSUME FrontendInv, UNCHANGED frontend
  PROVE  IdsContiguous' /\ LengthsInv' /\ LocalsInv' /\ SubmapInv'
  <1>. USE DEF FrontendInv, frontend
  <1>1. IdsContiguous' /\ LengthsInv'
    BY DEF IdsContiguous, LengthsInv
  <1>2. LocalsInv'
    BY DEF LocalsInv, LocalOf, InFrame
  <1>3. SubmapInv'
    BY DEF SubmapInv, Merged, WindowOf
  <1>. QED  BY <1>1, <1>2, <1>3

LEMMA ScanKeeps ==
  ASSUME FrontendInv, NEW move \in Moves, NEW step \in Steps, NEW view \in Views,
         Scan(move, step, view)
  PROVE  FrontendInv'
  <1>. USE DEF FrontendInv
  <1>. DEFINE now == Compose(truth, move)
              s == stamp + step
              o == [stamp |-> s, pose |-> Compose(InversePose(origin), now), at |-> now]
              seen == [view |-> view, origin |-> origin]
              c == [stamp |-> s, points |-> Image(InversePose(origin), view), seen |-> seen]
  <1>1. /\ truth' = now /\ stamp' = s /\ scans' = scans + 1 /\ scans < MaxScans
        /\ odom_msgs' = Append(odom_msgs, o) /\ cloud_msgs' = Append(cloud_msgs, c)
        /\ UNCHANGED <<origin, restarts, latest_odom_, frontend>>
    BY DEF Scan
  <1>2. /\ move \in Pose /\ step \in Nat /\ view \in SUBSET Point
        /\ truth \in Pose /\ origin \in Pose /\ stamp \in Nat
        /\ odom_msgs \in Seq(OdomMsg) /\ cloud_msgs \in Seq(Message)
    BY FrontendAssumption DEF TypeOK, Message
  <1>3. now \in Pose /\ s \in Nat /\ InversePose(origin) \in Pose
    BY <1>2, ComposeType, InverseType
  <1>. HIDE DEF now, s
  <1>4. /\ Compose(InversePose(origin), now) \in Pose
        /\ Image(InversePose(origin), view) \in SUBSET Point
    BY <1>2, <1>3, ComposeType, ImageType
  <1>5. o \in OdomMsg  BY <1>3, <1>4 DEF OdomMsg
  <1>6. seen \in Seen  BY <1>2 DEF Seen
  <1>7. c \in Message  BY <1>3, <1>4, <1>6 DEF Message
  <1>8. c.points = InFrame(c.seen)  BY DEF InFrame
  <1>. HIDE DEF o, c, seen
  <1>9. odom_msgs' \in Seq(OdomMsg)  BY <1>1, <1>2, <1>5, Appended
  <1>10. cloud_msgs' \in Seq(Message) /\ CloudsInv'
    <2>. DEFINE M == Append(cloud_msgs, c)
    <2>1. /\ M \in Seq(Message) /\ DOMAIN M = 1 .. Len(cloud_msgs) + 1
          /\ Len(cloud_msgs) \in Nat /\ DOMAIN cloud_msgs = 1 .. Len(cloud_msgs)
          /\ \A i \in 1 .. Len(cloud_msgs) : M[i] = cloud_msgs[i]
          /\ M[Len(cloud_msgs) + 1] = c
      BY <1>2, <1>7, Appended
    <2>. HIDE DEF M
    <2>2. \A i \in DOMAIN M : M[i].points = InFrame(M[i].seen)
      <3>. SUFFICES ASSUME NEW i \in DOMAIN M
                    PROVE  M[i].points = InFrame(M[i].seen)
        OBVIOUS
      <3>1. CASE i = Len(cloud_msgs) + 1  BY <1>8, <2>1, <3>1
      <3>2. CASE i # Len(cloud_msgs) + 1
        <4>1. i \in DOMAIN cloud_msgs /\ M[i] = cloud_msgs[i]  BY <2>1, <3>2
        <4>. QED  BY <4>1 DEF CloudsInv
      <3>. QED  BY <3>1, <3>2
    <2>3. cloud_msgs' = M  BY <1>1 DEF M
    <2>. QED  BY <2>1, <2>2, <2>3 DEF CloudsInv, InFrame
  <1>11. TypeOK'
    <2>1. scans \in 0 .. MaxScans /\ MaxScans \in Nat
      BY FrontendAssumption DEF TypeOK
    <2>2. scans' \in 0 .. MaxScans  BY <1>1, <2>1
    <2>. QED  BY <1>1, <1>3, <1>9, <1>10, <2>2 DEF TypeOK, Message, frontend
  <1>. QED  BY <1>1, <1>10, <1>11, FrontendSame

LEMMA RestartKeeps ==
  ASSUME FrontendInv, Restart
  PROVE  FrontendInv'
  <1>. USE DEF FrontendInv
  <1>1. /\ restarts < MaxRestarts /\ restarts' = restarts + 1 /\ origin' = truth
        /\ stamp' \in {0, stamp}
        /\ UNCHANGED <<truth, scans, odom_msgs, cloud_msgs, latest_odom_, frontend>>
    BY DEF Restart
  <1>2. TypeOK'
    <2>1. restarts' \in 0 .. MaxRestarts  BY <1>1, FrontendAssumption DEF TypeOK
    <2>. QED  BY <1>1, <2>1 DEF TypeOK, frontend
  <1>3. CloudsInv'  BY <1>1 DEF CloudsInv, InFrame
  <1>. QED  BY <1>1, <1>2, <1>3, FrontendSame

LEMMA OdomKeeps ==
  ASSUME FrontendInv, NEW i \in DOMAIN odom_msgs, OdomCallback(i)
  PROVE  FrontendInv'
  <1>. USE DEF FrontendInv
  <1>1. /\ latest_odom_' = odom_msgs[i]
        /\ odom_msgs' = SubSeq(odom_msgs, i + 1, Len(odom_msgs))
        /\ UNCHANGED <<truth, stamp, origin, scans, restarts, cloud_msgs, frontend>>
    BY DEF OdomCallback, source
  <1>2. odom_msgs \in Seq(OdomMsg)  BY DEF TypeOK
  <1>3. odom_msgs' \in Seq(OdomMsg)  BY <1>1, <1>2, Remaining
  <1>4. latest_odom_' \in OdomMsg  BY <1>1, <1>2
  <1>5. TypeOK'  BY <1>1, <1>3, <1>4 DEF TypeOK, frontend
  <1>6. CloudsInv'  BY <1>1 DEF CloudsInv, InFrame
  <1>. QED  BY <1>1, <1>5, <1>6, FrontendSame

-----------------------------------------------------------------------------
(* The cloud callback.                                                      *)

\* What is left of the messages.
LEMMA CloudTaken ==
  ASSUME FrontendInv, NEW i \in DOMAIN cloud_msgs, CloudCallback(i)
  PROVE  /\ cloud_msgs' \in Seq(Message) /\ CloudsInv'
         /\ cloud_msgs[i] \in Message
         /\ cloud_msgs[i].points = InFrame(cloud_msgs[i].seen)
  <1>. USE DEF FrontendInv
  <1>. DEFINE M == SubSeq(cloud_msgs, i + 1, Len(cloud_msgs))
  <1>1. cloud_msgs' = M  BY DEF CloudCallback
  <1>2. cloud_msgs \in Seq(Message)  BY DEF TypeOK, Message
  <1>3. /\ M \in Seq(Message)
        /\ \A j \in DOMAIN M : \E k \in DOMAIN cloud_msgs : M[j] = cloud_msgs[k]
    BY <1>2, Remaining
  <1>. HIDE DEF M
  <1>4. \A j \in DOMAIN M : M[j].points = InFrame(M[j].seen)
    BY <1>3 DEF CloudsInv
  <1>. QED  BY <1>1, <1>2, <1>3, <1>4 DEF CloudsInv, InFrame

LEMMA SkippedKeeps ==
  ASSUME FrontendInv, NEW i \in DOMAIN cloud_msgs, CloudCallback(i),
         Skipped(cloud_msgs[i])
  PROVE  FrontendInv'
  <1>. USE DEF FrontendInv
  <1>1. UNCHANGED frontend /\ UNCHANGED <<source, odom_msgs, latest_odom_>>
    BY DEF Skipped, CloudCallback
  <1>2. cloud_msgs' \in Seq(Message) /\ CloudsInv'  BY CloudTaken
  <1>3. TypeOK'  BY <1>1, <1>2 DEF TypeOK, Message, frontend, source
  <1>. QED  BY <1>1, <1>2, <1>3, FrontendSame

LEMMA RelativeSelf ==
  ASSUME NEW kf, kf.pose \in Pose, NEW u \in Point
  PROVE  Apply(Relative(kf, kf), u) = u
  BY InverseType, ApplyCompose, ApplyInverse DEF Relative

\* The keyframe that a cloud becomes, and the submap around it.
LEMMA NewKeyframe ==
  ASSUME FrontendInv, NEW msg \in Message, msg.points = InFrame(msg.seen),
         latest_odom_ # NoOdom,
         NEW local \in LocalClouds(msg, latest_odom_) \ {{}}
  PROVE  LET kf == CreateKeyframe(next_keyframe_id_, msg, latest_odom_, local)
         IN  /\ kf \in Keyframe /\ kf.id = Len(keyframes_)
             /\ kf.stamp = latest_odom_.stamp /\ LocalOf(kf, msg.seen)
  <1>. USE DEF FrontendInv
  <1>. DEFINE odom == latest_odom_
              kf == CreateKeyframe(next_keyframe_id_, msg, odom, local)
  <1>1. odom \in OdomMsg  BY DEF TypeOK
  <1>2. odom.stamp \in Nat /\ odom.pose \in Pose /\ odom.at \in Pose
    BY <1>1 DEF OdomMsg
  <1>3. msg.points \in SUBSET Point  BY DEF Message
  <1>4. Image(InversePose(odom.pose), msg.points) \in SUBSET Point
    BY <1>2, <1>3, InverseType, ImageType
  <1>5. local \subseteq Useful(Image(InversePose(odom.pose), msg.points)) /\ local # {}
    BY PreprocessedPart DEF LocalClouds
  <1>6. local \in (SUBSET Point) \ {{}}  BY <1>4, <1>5 DEF Useful
  <1>7. next_keyframe_id_ \in Nat /\ next_keyframe_id_ = Len(keyframes_)
    BY DEF TypeOK, IdsContiguous
  <1>8. kf.pose = odom.pose /\ kf.cloud = local /\ kf.id = next_keyframe_id_
        /\ kf.stamp = odom.stamp
    BY DEF CreateKeyframe
  <1>9. kf \in Keyframe  BY <1>2, <1>6, <1>7 DEF CreateKeyframe, Keyframe
  <1>10. LocalOf(kf, msg.seen)  BY <1>5, <1>8 DEF LocalOf
  <1>. QED  BY <1>7, <1>8, <1>9, <1>10

LEMMA NewSubmap ==
  ASSUME NEW K \in Seq(Keyframe), K # <<>>, NEW seen, LocalOf(K[Len(K)], seen),
         NEW map \in BuildSubmap(K, Len(K))
  PROVE  /\ map # {} /\ map \in SUBSET Point
         /\ WindowOf(K, Len(K)) \in SUBSET Nat
         /\ map \subseteq Merged(K, Len(K), WindowOf(K, Len(K)))
  <1>. DEFINE n == Len(K)
              W == WindowOf(K, n)
              M == Merged(K, n, W)
  <1>1. n \in Nat \ {0} /\ DOMAIN K = 1 .. n /\ n \in DOMAIN K
    OBVIOUS
  <1>2. W \subseteq DOMAIN K /\ n \in W
    BY <1>1, FrontendAssumption DEF WindowOf
  <1>3. map \subseteq Useful(M) /\ (Useful(M) # {} => map # {})
    <2>1. map \in Preprocessed(M)  BY <1>1 DEF BuildSubmap, Merged
    <2>. QED  BY <2>1, PreprocessedPart
  <1>4. \A i \in DOMAIN K : K[i].pose \in Pose /\ K[i].cloud \in (SUBSET Point) \ {{}}
    <2>1. \A i \in DOMAIN K : K[i] \in Keyframe  BY <1>1
    <2>. QED  BY <2>1 DEF Keyframe
  <1>5. M \in SUBSET Point
    <2>1. \A i \in W : Relative(K[n], K[i]) \in Pose
      BY <1>1, <1>2, <1>4, InverseType, ComposeType DEF Relative
    <2>2. \A i \in W : Image(Relative(K[n], K[i]), K[i].cloud) \in SUBSET Point
      BY <1>2, <1>4, <2>1, ImageType
    <2>. QED  BY <2>2 DEF Merged
  <1>6. Useful(M) # {}
    <2>1. PICK u \in K[n].cloud : InRange(u) /\ OffBody(u)
      <3>1. K[n].cloud # {}  BY <1>1, <1>4
      <3>. QED  BY <3>1 DEF LocalOf, Useful
    <2>2. u \in Point  BY <1>1, <1>4
    <2>3. Apply(Relative(K[n], K[n]), u) = u  BY <1>1, <1>4, <2>2, RelativeSelf
    <2>4. u \in Image(Relative(K[n], K[n]), K[n].cloud)  BY <2>3 DEF Image
    <2>5. u \in M  BY <1>2, <2>4 DEF Merged
    <2>. QED  BY <2>1, <2>5 DEF Useful
  <1>. QED  BY <1>1, <1>2, <1>3, <1>5, <1>6 DEF Useful

LEMMA CreatedKeeps ==
  ASSUME FrontendInv, NEW i \in DOMAIN cloud_msgs, CloudCallback(i),
         Created(cloud_msgs[i])
  PROVE  FrontendInv'
  <1>. USE DEF FrontendInv
  <1>1. PICK msg : msg = cloud_msgs[i]  OBVIOUS
  <1>2. /\ cloud_msgs' \in Seq(Message) /\ CloudsInv'
        /\ msg \in Message /\ msg.points = InFrame(msg.seen)
    BY <1>1, CloudTaken
  <1>3. latest_odom_ # NoOdom  BY DEF Created
  <1>4. PICK local \in LocalClouds(msg, latest_odom_) \ {{}} :
          keyframes_' = Append(keyframes_,
            CreateKeyframe(next_keyframe_id_, msg, latest_odom_, local))
    BY <1>1 DEF Created
  <1>. DEFINE kf == CreateKeyframe(next_keyframe_id_, msg, latest_odom_, local)
  <1>5. /\ kf \in Keyframe /\ kf.id = Len(keyframes_) /\ LocalOf(kf, msg.seen)
    BY <1>2, <1>3, NewKeyframe
  <1>. HIDE DEF kf
  <1>6. /\ keyframes_ \in Seq(Keyframe) /\ shown \in Seq(Seen) /\ msg.seen \in Seen
        /\ windows \in Seq(SUBSET Nat)
        /\ Len(shown) = Len(keyframes_) /\ Len(windows) = Len(keyframes_)
    BY <1>2 DEF TypeOK, Message, LengthsInv
  <1>7. PICK K : K = Append(keyframes_, kf)  OBVIOUS
  <1>8. /\ K \in Seq(Keyframe) /\ K # <<>> /\ Len(K) = Len(keyframes_) + 1
        /\ DOMAIN K = 1 .. Len(keyframes_) + 1 /\ K[Len(keyframes_) + 1] = kf
        /\ \A j \in 1 .. Len(keyframes_) : K[j] = keyframes_[j]
        /\ Len(keyframes_) \in Nat /\ DOMAIN keyframes_ = 1 .. Len(keyframes_)
    BY <1>5, <1>6, <1>7, Appended
  <1>9. PICK T : T = Append(shown, msg.seen)  OBVIOUS
  <1>10. /\ T \in Seq(Seen) /\ Len(T) = Len(K)
         /\ T[Len(keyframes_) + 1] = msg.seen
         /\ \A j \in 1 .. Len(keyframes_) : T[j] = shown[j]
    BY <1>6, <1>8, <1>9, Appended
  <1>11. PICK W : W = WindowOf(K, Len(K))  OBVIOUS
  <1>12. /\ keyframes_' = K /\ shown' = T
         /\ next_keyframe_id_' = next_keyframe_id_ + 1
         /\ submap_cloud' \in BuildSubmap(K, Len(K))
         /\ windows' = Append(windows, W)
         /\ UNCHANGED <<truth, stamp, origin, scans, restarts, odom_msgs, latest_odom_>>
    <2>1. keyframes_' = K  BY <1>4, <1>7 DEF kf
    <2>2. /\ submap_cloud' \in BuildSubmap(K, Len(K))
          /\ windows' = Append(windows, W)
      BY <1>11, <2>1 DEF Created, PublishSubmap
    <2>3. shown' = T /\ next_keyframe_id_' = next_keyframe_id_ + 1
      BY <1>1, <1>9 DEF Created
    <2>. QED  BY <2>1, <2>2, <2>3 DEF CloudCallback, source
  <1>13. PICK map : map = submap_cloud'  OBVIOUS
  <1>14. /\ map # {} /\ map \in SUBSET Point /\ W \in SUBSET Nat
         /\ map \subseteq Merged(K, Len(K), W)
    <2>1. LocalOf(K[Len(K)], msg.seen)  BY <1>5, <1>8
    <2>2. map \in BuildSubmap(K, Len(K))  BY <1>12, <1>13
    <2>. QED  BY <1>8, <1>11, <2>1, <2>2, NewSubmap
  <1>15. /\ windows' \in Seq(SUBSET Nat) /\ Len(windows') = Len(K) /\ Last(windows') = W
    <2>1. PICK V : V = Append(windows, W)  OBVIOUS
    <2>2. V \in Seq(SUBSET Nat) /\ Len(V) = Len(windows) + 1 /\ Last(V) = W
      <3>1. PICK S : S = SUBSET Nat  OBVIOUS
      <3>2. windows \in Seq(S) /\ W \in S  BY <1>6, <1>14, <3>1
      <3>3. V \in Seq(S) /\ Len(V) = Len(windows) + 1 /\ Last(V) = W
        BY <2>1, <3>2, Appended
      <3>. QED  BY <3>1, <3>3
    <2>. QED  BY <1>6, <1>8, <1>12, <2>1, <2>2
  <1>16. TypeOK'
    <2>1. next_keyframe_id_' \in Nat  BY <1>12 DEF TypeOK
    <2>. QED  BY <1>2, <1>8, <1>10, <1>12, <1>13, <1>14, <1>15, <2>1 DEF TypeOK, Message
  <1>17. IdsContiguous'
    <2>1. next_keyframe_id_ = Len(keyframes_)
          /\ \A j \in DOMAIN keyframes_ : keyframes_[j].id = j - 1
      BY DEF IdsContiguous
    <2>2. \A j \in DOMAIN K : K[j].id = j - 1
      BY <1>5, <1>8, <2>1
    <2>. QED  BY <1>8, <1>12, <2>1, <2>2 DEF IdsContiguous
  <1>18. LengthsInv'  BY <1>10, <1>12, <1>15 DEF LengthsInv
  <1>19. LocalsInv'
    <2>1. \A j \in DOMAIN K : LocalOf(K[j], T[j])
      <3>. SUFFICES ASSUME NEW j \in DOMAIN K PROVE LocalOf(K[j], T[j])
        OBVIOUS
      <3>1. CASE j = Len(keyframes_) + 1  BY <1>5, <1>8, <1>10, <3>1
      <3>2. CASE j # Len(keyframes_) + 1
        <4>1. j \in DOMAIN keyframes_ /\ K[j] = keyframes_[j] /\ T[j] = shown[j]
          BY <1>8, <1>10, <3>2
        <4>. QED  BY <4>1 DEF LocalsInv
      <3>. QED  BY <3>1, <3>2
    <2>. QED  BY <1>12, <2>1 DEF LocalsInv, LocalOf, InFrame
  <1>20. SubmapInv'
    BY <1>8, <1>11, <1>12, <1>13, <1>14, <1>15 DEF SubmapInv, Merged, WindowOf
  <1>. QED  BY <1>2, <1>16, <1>17, <1>18, <1>19, <1>20

LEMMA NextKeeps == FrontendInv /\ [Next]_vars => FrontendInv'
  <1>. SUFFICES ASSUME FrontendInv, [Next]_vars PROVE FrontendInv'
    OBVIOUS
  <1>1. CASE \E move \in Moves, step \in Steps, view \in Views : Scan(move, step, view)
    BY <1>1, ScanKeeps
  <1>2. CASE Restart  BY <1>2, RestartKeeps
  <1>3. CASE \E i \in DOMAIN odom_msgs : OdomCallback(i)
    BY <1>3, OdomKeeps
  <1>4. CASE \E i \in DOMAIN cloud_msgs : CloudCallback(i)
    <2>1. PICK i \in DOMAIN cloud_msgs : CloudCallback(i)  BY <1>4
    <2>2. Skipped(cloud_msgs[i]) \/ Created(cloud_msgs[i])  BY <2>1 DEF CloudCallback
    <2>. QED  BY <2>1, <2>2, SkippedKeeps, CreatedKeeps
  <1>5. CASE UNCHANGED vars
    <2>1. TypeOK' /\ CloudsInv'
      BY <1>5 DEF FrontendInv, TypeOK, CloudsInv, InFrame, vars, source, frontend
    <2>. QED  BY <1>5, <2>1, FrontendSame DEF FrontendInv, vars
  <1>. QED  BY <1>1, <1>2, <1>3, <1>4, <1>5 DEF Next

\* A keyframe's stamp is TMin or more after that of the keyframe before, if TMin
\* is more than 0: an age that would be negative counts as 0.
LEMMA SpacedKeeps ==
  ASSUME FrontendInv, KeyframesSpaced, TMin > 0, [Next]_vars
  PROVE  KeyframesSpaced'
  <1>. USE DEF FrontendInv
  <1>1. CASE UNCHANGED frontend
    BY <1>1 DEF KeyframesSpaced, frontend
  <1>2. CASE \E i \in DOMAIN cloud_msgs : Created(cloud_msgs[i])
    <2>1. PICK msg : Created(msg)  BY <1>2
    <2>2. PICK local :
            keyframes_' = Append(keyframes_,
              CreateKeyframe(next_keyframe_id_, msg, latest_odom_, local))
      BY <2>1 DEF Created
    <2>3. latest_odom_ # NoOdom /\ Evaluate(latest_odom_)  BY <2>1 DEF Created
    <2>4. latest_odom_.stamp \in Nat
      BY <2>3 DEF TypeOK, OdomMsg
    <2>. DEFINE kf == CreateKeyframe(next_keyframe_id_, msg, latest_odom_, local)
                K == Append(keyframes_, kf)
                n == Len(keyframes_)
                s == latest_odom_.stamp
    <2>5. kf.stamp = s  BY DEF CreateKeyframe
    <2>6. keyframes_ \in Seq(Keyframe)  BY DEF TypeOK
    <2>. HIDE DEF kf, s
    <2>7. /\ n \in Nat /\ DOMAIN keyframes_ = 1 .. n /\ DOMAIN K = 1 .. n + 1
          /\ K[n + 1] = kf /\ \A i \in 1 .. n : K[i] = keyframes_[i]
      BY <2>6
    <2>8. \A i \in 1 .. n : keyframes_[i].stamp \in Nat
      <3>1. \A i \in 1 .. n : keyframes_[i] \in Keyframe  BY <2>6
      <3>. QED  BY <3>1 DEF Keyframe
    <2>9. TMin \in Nat  BY FrontendAssumption
    <2>10. n > 0 => s >= keyframes_[n].stamp + TMin
      <3>1. SUFFICES ASSUME n > 0 PROVE s >= keyframes_[n].stamp + TMin
        OBVIOUS
      <3>2. Elapsed(latest_odom_) >= TMin
        BY <2>3, <2>6, <3>1 DEF Evaluate
      <3>3. Elapsed(latest_odom_) = IF s - keyframes_[n].stamp < 0 THEN 0
                                    ELSE s - keyframes_[n].stamp
        BY DEF Elapsed, Last, s
      <3>4. keyframes_[n].stamp \in Nat /\ s \in Nat
        BY <2>4, <2>7, <2>8, <3>1 DEF s
      <3>. QED  BY <2>9, <3>2, <3>3, <3>4
    <2>. HIDE DEF K, n
    <2>11. \A i, j \in 1 .. n + 1 : i < j => K[j].stamp >= K[i].stamp + TMin
      <3>. SUFFICES ASSUME NEW i \in 1 .. n + 1, NEW j \in 1 .. n + 1, i < j
                    PROVE  K[j].stamp >= K[i].stamp + TMin
        OBVIOUS
      <3>1. i \in 1 .. n /\ K[i] = keyframes_[i]  BY <2>7
      <3>2. CASE j = n + 1
        <4>1. K[j].stamp = s  BY <2>5, <2>7, <3>2
        <4>2. n \in 1 .. n /\ n > 0  BY <2>7, <3>1
        <4>3. i = n \/ keyframes_[n].stamp >= keyframes_[i].stamp + TMin
          BY <2>7, <3>1, <4>2 DEF KeyframesSpaced
        <4>4. keyframes_[n].stamp \in Nat /\ keyframes_[i].stamp \in Nat /\ s \in Nat
          BY <2>4, <2>8, <3>1, <4>2 DEF s
        <4>. QED  BY <2>9, <2>10, <3>1, <4>1, <4>2, <4>3, <4>4
      <3>3. CASE j # n + 1
        <4>1. j \in 1 .. n /\ K[j] = keyframes_[j]  BY <2>7, <3>3
        <4>. QED  BY <2>7, <3>1, <4>1 DEF KeyframesSpaced
      <3>. QED  BY <3>2, <3>3
    <2>12. keyframes_' = K  BY <2>2 DEF K, kf
    <2>. QED  BY <2>7, <2>11, <2>12 DEF KeyframesSpaced
  <1>. QED
    BY <1>1, <1>2 DEF Next, Scan, Restart, OdomCallback, CloudCallback, Skipped, vars

-----------------------------------------------------------------------------
(* Theorems of the specification.                                           *)

\* The front end keeps its clouds, ids and submap in order in every reachable
\* state, also over restarts of FAST-LIO (keyframe_frontend_node.cpp 96-175).
THEOREM FrontendInvariant == Spec => []FrontendInv
  <1>. QED  BY InitFrontend, NextKeeps, PTL DEF Spec

\* Every variable keeps its type; a keyframe has a point.
THEOREM FrontendTypeCorrect == Spec => []TypeOK
  <1>1. FrontendInv => TypeOK  BY DEF FrontendInv
  <1>. QED  BY <1>1, FrontendInvariant, PTL

\* The ids are 0, 1, 2 ...: a candidate that is rejected takes none
\* (keyframe_frontend_node.cpp 139-147).
THEOREM IdsInOrder == Spec => []IdsContiguous
  <1>1. FrontendInv => IdsContiguous  BY DEF FrontendInv
  <1>. QED  BY <1>1, FrontendInvariant, PTL

\* Keyframes are TMin or more apart, whatever topics lose and however the clock
\* of the source jumps, as long as TMin is more than 0: with a TMin of 0 the
\* clamp of a negative age (keyframe_manager.cpp 45) lets an older stamp in.
THEOREM SpacedByTMin ==
  ASSUME TMin > 0
  PROVE  Spec => []KeyframesSpaced
  <1>1. Init => KeyframesSpaced  BY DEF Init, KeyframesSpaced
  <1>2. FrontendInv /\ KeyframesSpaced /\ [Next]_vars => KeyframesSpaced'
    BY SpacedKeeps
  <1>. QED  BY <1>1, <1>2, FrontendInvariant, PTL DEF Spec

\* In one run of FAST-LIO, what is stored in the frame of a keyframe is seen
\* from where the UAV was.
LEMMA SeenFromKeyframe ==
  ASSUME FrontendInv, NEW i \in DOMAIN keyframes_, NEW frame \in Pose,
         Frames(i) = {frame}
  PROVE  /\ keyframes_[i] \in Keyframe
         /\ frame = Compose(keyframes_[i].at, InversePose(keyframes_[i].pose))
         /\ Image(frame, Image(keyframes_[i].pose, keyframes_[i].cloud))
              \subseteq shown[i].view
  <1>. USE DEF FrontendInv
  <1>. DEFINE kf == keyframes_[i]
              seen == shown[i]
  <1>1. kf \in Keyframe /\ seen \in Seen
    <2>1. /\ keyframes_ \in Seq(Keyframe) /\ shown \in Seq(Seen)
          /\ Len(shown) = Len(keyframes_)
      BY DEF TypeOK, LengthsInv
    <2>. QED  BY <2>1
  <1>2. /\ kf.pose \in Pose /\ kf.at \in Pose /\ kf.cloud \in SUBSET Point
        /\ seen.view \in SUBSET Point /\ seen.origin \in Pose
    <2>1. seen.view \in Views /\ seen.origin \in Pose  BY <1>1 DEF Seen
    <2>. QED  BY <1>1, <2>1, FrontendAssumption DEF Keyframe
  <1>3. frame = Compose(kf.at, InversePose(kf.pose)) /\ frame = seen.origin
    BY DEF Frames
  <1>4. kf.cloud \subseteq Image(InversePose(kf.pose), InFrame(seen))
    BY DEF LocalsInv, LocalOf, Useful
  <1>. HIDE DEF kf, seen
  <1>5. InFrame(seen) \in SUBSET Point
    BY <1>2, InverseType, ImageType DEF InFrame
  <1>6. Image(kf.pose, kf.cloud) \subseteq InFrame(seen)
    <2>1. Image(kf.pose, kf.cloud)
            \subseteq Image(kf.pose, Image(InversePose(kf.pose), InFrame(seen)))
      BY <1>4, ImageMonotonic
    <2>. QED  BY <1>2, <1>5, <2>1, ImageInverse
  <1>7. Image(frame, Image(kf.pose, kf.cloud)) \subseteq seen.view
    <2>1. Image(frame, Image(kf.pose, kf.cloud)) \subseteq Image(frame, InFrame(seen))
      BY <1>6, ImageMonotonic
    <2>2. Image(frame, InFrame(seen)) = seen.view
      BY <1>2, <1>3, ImageInverse DEF InFrame
    <2>. QED  BY <2>1, <2>2
  <1>. QED  BY <1>1, <1>3, <1>7 DEF kf, seen

LEMMA FramesOf ==
  ASSUME NEW window, NEW i \in window, OneFrame(window)
  PROVE  \A j \in window :
           Frames(j) = {Compose(keyframes_[i].at, InversePose(keyframes_[i].pose))}
  <1>1. \A j \in window : \A f \in Frames(j) :
          f \in UNION {Frames(k) : k \in window}
    OBVIOUS
  <1>. DEFINE frame == Compose(keyframes_[i].at, InversePose(keyframes_[i].pose))
  <1>2. frame \in Frames(i)  BY DEF Frames
  <1>3. \A j \in window : \E f \in Frames(j) : TRUE  BY DEF Frames
  <1>. HIDE DEF frame
  <1>4. \A j \in window : \A f \in Frames(j) : f = frame
    BY <1>1, <1>2 DEF OneFrame
  <1>. QED  BY <1>3, <1>4 DEF frame

\* The cloud of a keyframe, seen from where the UAV was, is part of what the
\* scan showed, for any motion, view and trigger, as long as its pose and its
\* scan come from one run of FAST-LIO (keyframe_frontend_node.cpp 129-138).
THEOREM CloudsAreSeen == Spec => []KeyframeCloudSeen
  <1>1. FrontendInv => KeyframeCloudSeen
    <2>. SUFFICES ASSUME FrontendInv, NEW i \in DOMAIN keyframes_, OneFrame({i})
                  PROVE  Image(keyframes_[i].at, keyframes_[i].cloud) \subseteq shown[i].view
      BY DEF KeyframeCloudSeen
    <2>. DEFINE kf == keyframes_[i]
                frame == Compose(kf.at, InversePose(kf.pose))
    <2>1. Frames(i) = {frame}  BY FramesOf
    <2>2. kf \in Keyframe
      <3>1. keyframes_ \in Seq(Keyframe)  BY DEF FrontendInv, TypeOK
      <3>. QED  BY <3>1
    <2>3. kf.pose \in Pose /\ kf.at \in Pose /\ kf.cloud \in SUBSET Point
      BY <2>2 DEF Keyframe
    <2>4. frame \in Pose  BY <2>3, ComposeType, InverseType
    <2>5. Image(frame, Image(kf.pose, kf.cloud)) \subseteq shown[i].view
      BY <2>1, <2>4, SeenFromKeyframe
    <2>. HIDE DEF kf
    <2>6. Image(frame, Image(kf.pose, kf.cloud)) = Image(kf.at, kf.cloud)
      <3>1. Image(kf.pose, kf.cloud) \in SUBSET Point  BY <2>3, ImageType
      <3>2. Image(frame, Image(kf.pose, kf.cloud))
              = Image(kf.at, Image(InversePose(kf.pose), Image(kf.pose, kf.cloud)))
        BY <2>3, <3>1, ImageCompose, InverseType
      <3>. QED  BY <2>3, <3>2, ImageInverse
    <2>. QED  BY <2>5, <2>6 DEF kf
  <1>. QED  BY <1>1, FrontendInvariant, PTL

\* A submap is never empty and holds its newest keyframe; as long as its window
\* comes from one run of FAST-LIO all of it, seen from the newest keyframe, is
\* what the scans of the window showed, for a window of any size and any motion
\* between its keyframes (submap_builder.cpp 31-68).
THEOREM SubmapsAreSeen == Spec => []SubmapOfOneRun
  <1>1. FrontendInv => SubmapOfOneRun
    <2>. SUFFICES ASSUME FrontendInv, keyframes_ # <<>>
                  PROVE  /\ submap_cloud # {} /\ Len(keyframes_) \in Last(windows)
                         /\ OneFrame(Last(windows)) => SubmapSeen
      BY DEF SubmapOfOneRun
    <2>. DEFINE n == Len(keyframes_)
                W == Last(windows)
    <2>1. /\ W = WindowOf(keyframes_, n) /\ submap_cloud # {}
          /\ submap_cloud \subseteq Merged(keyframes_, n, W)
      BY DEF FrontendInv, SubmapInv
    <2>2. keyframes_ \in Seq(Keyframe)  BY DEF FrontendInv, TypeOK
    <2>3. n \in DOMAIN keyframes_ /\ n \in Nat  BY <2>2
    <2>4. W \subseteq DOMAIN keyframes_ /\ n \in W
      BY <2>1, <2>3, FrontendAssumption DEF WindowOf
    <2>5. \A i \in DOMAIN keyframes_ :
            /\ keyframes_[i].pose \in Pose /\ keyframes_[i].at \in Pose
            /\ keyframes_[i].cloud \in SUBSET Point
      <3>1. \A i \in DOMAIN keyframes_ : keyframes_[i] \in Keyframe  BY <2>2
      <3>. QED  BY <3>1 DEF Keyframe
    <2>. DEFINE c == keyframes_[n]
                frame == Compose(c.at, InversePose(c.pose))
    <2>6. ASSUME OneFrame(W)
          PROVE  Image(c.at, submap_cloud) \subseteq UNION {shown[i].view : i \in W}
      <3>1. frame \in Pose  BY <2>3, <2>5, ComposeType, InverseType
      <3>2. \A i \in W : Frames(i) = {frame}  BY <2>4, <2>6, FramesOf
      <3>3. \A i \in W : Image(frame, Image(keyframes_[i].pose, keyframes_[i].cloud))
                           \subseteq shown[i].view
        BY <2>4, <3>1, <3>2, SeenFromKeyframe
      <3>4. \A i \in W : Image(c.at, Image(Relative(c, keyframes_[i]), keyframes_[i].cloud))
                           = Image(frame, Image(keyframes_[i].pose, keyframes_[i].cloud))
        <4>. SUFFICES ASSUME NEW i \in W
                      PROVE  Image(c.at, Image(Relative(c, keyframes_[i]), keyframes_[i].cloud))
                               = Image(frame, Image(keyframes_[i].pose, keyframes_[i].cloud))
          OBVIOUS
        <4>1. PICK kf : kf = keyframes_[i]  OBVIOUS
        <4>2. /\ kf.pose \in Pose /\ kf.cloud \in SUBSET Point
              /\ c.pose \in Pose /\ c.at \in Pose
          BY <2>3, <2>4, <2>5, <4>1
        <4>. HIDE DEF c
        <4>3. Image(kf.pose, kf.cloud) \in SUBSET Point /\ InversePose(c.pose) \in Pose
          BY <4>2, ImageType, InverseType
        <4>4. Image(Relative(c, kf), kf.cloud)
                = Image(InversePose(c.pose), Image(kf.pose, kf.cloud))
          BY <4>2, <4>3, ImageCompose DEF Relative
        <4>5. Image(frame, Image(kf.pose, kf.cloud))
                = Image(c.at, Image(InversePose(c.pose), Image(kf.pose, kf.cloud)))
          BY <4>2, <4>3, ImageCompose
        <4>. QED  BY <4>1, <4>4, <4>5
      <3>5. \A u \in submap_cloud : \E i \in W :
              u \in Image(Relative(c, keyframes_[i]), keyframes_[i].cloud)
        BY <2>1 DEF Merged
      <3>6. \A u \in submap_cloud : \E i \in W :
              Apply(c.at, u) \in Image(c.at, Image(Relative(c, keyframes_[i]), keyframes_[i].cloud))
        BY <3>5 DEF Image
      <3>7. \A u \in submap_cloud : \E i \in W : Apply(c.at, u) \in shown[i].view
        BY <3>3, <3>4, <3>6
      <3>. QED  BY <3>7 DEF Image
    <2>. QED  BY <2>1, <2>4, <2>6 DEF SubmapSeen, Last
  <1>. QED  BY <1>1, FrontendInvariant, PTL

-----------------------------------------------------------------------------
(* Which points of a large cloud are kept.                                  *)

\* A quotient lies between its bounds.
LEMMA Quotient ==
  ASSUME NEW a \in Nat, NEW m \in Nat \ {0}
  PROVE  /\ a \div m \in Nat
         /\ (a \div m) * m <= a
         /\ a < (a \div m) * m + m
  OBVIOUS

\* The quotient alone never passes the end of the cloud: min only guards
\* against rounding.
LEMMA BelowSize ==
  ASSUME NEW size \in Nat, NEW max \in Nat \ {0}, NEW idx \in 0 .. max - 1
  PROVE  size > 0 => (idx * size) \div max <= size - 1
  <1>. DEFINE q == (idx * size) \div max
  <1>1. idx * size \in Nat  OBVIOUS
  <1>2. q \in Nat /\ q * max <= idx * size  BY <1>1, Quotient
  <1>3. ASSUME size > 0, q >= size
        PROVE  FALSE
    <2>1. q * max >= size * max  BY <1>2, <1>3
    <2>2. idx * size + size <= max * size  OBVIOUS
    <2>. QED  BY <1>2, <1>3, <2>1, <2>2
  <1>. QED  BY <1>2, <1>3

\* From one index to a later one the quotient grows, for a point more than
\* max: size / max is more than 1.
LEMMA QuotientGrows ==
  ASSUME NEW size \in Nat, NEW max \in Nat \ {0}, size > max,
         NEW i \in Nat, NEW j \in Nat, i < j
  PROVE  (i * size) \div max < (j * size) \div max
  <1>. DEFINE p == (i * size) \div max
              q == (j * size) \div max
  <1>1. i * size \in Nat /\ j * size \in Nat  OBVIOUS
  <1>2. p \in Nat /\ p * max <= i * size  BY <1>1, Quotient
  <1>3. q \in Nat /\ j * size < q * max + max  BY <1>1, Quotient
  <1>4. i * size + size <= j * size  OBVIOUS
  <1>5. p * max + max < q * max + max
    BY <1>1, <1>2, <1>3, <1>4
  <1>6. ASSUME q <= p
        PROVE  FALSE
    <2>1. q * max <= p * max  BY <1>2, <1>3, <1>6
    <2>. QED  BY <1>2, <1>3, <1>5, <2>1
  <1>. QED  BY <1>2, <1>3, <1>6

\* Whatever the size and the limit, the indices of the points kept increase
\* strictly, so that no point is kept twice, and stay inside the cloud
\* (submap_builder.cpp 144-149).
THEOREM LimitIndices ==
  ASSUME NEW size \in Nat, NEW max \in Nat \ {0}, size > max
  PROVE  \A i, j \in 0 .. max - 1 :
           /\ Index(size, max, i) \in 0 .. size - 1
           /\ i < j => Index(size, max, i) < Index(size, max, j)
  <1>1. \A i \in 0 .. max - 1 :
          Index(size, max, i) = (i * size) \div max
          /\ (i * size) \div max \in 0 .. size - 1
    <2>. SUFFICES ASSUME NEW i \in 0 .. max - 1
                  PROVE  Index(size, max, i) = (i * size) \div max
                         /\ (i * size) \div max \in 0 .. size - 1
      OBVIOUS
    <2>. DEFINE q == (i * size) \div max
    <2>1. q \in Nat
      <3>1. i * size \in Nat  OBVIOUS
      <3>. QED  BY <3>1, Quotient
    <2>2. q <= size - 1  BY BelowSize
    <2>3. Index(size, max, i) = IF q < size - 1 THEN q ELSE size - 1
      BY DEF Index
    <2>. HIDE DEF q
    <2>4. Index(size, max, i) = q /\ q \in 0 .. size - 1
      BY <2>1, <2>2, <2>3
    <2>. QED  BY <2>4 DEF q
  <1>2. \A i, j \in 0 .. max - 1 :
          i < j => (i * size) \div max < (j * size) \div max
    BY QuotientGrows
  <1>. QED  BY <1>1, <1>2

\* What is published never exceeds a limit that is set, and every point of it
\* is one of the cloud's (submap_builder.cpp 133-154).
THEOREM LimitedCloud ==
  ASSUME NEW Data, NEW cloud \in Seq(Data), NEW max \in Nat
  PROVE  /\ LimitPointCount(cloud, max) \in Seq(Data)
         /\ max > 0 => Len(LimitPointCount(cloud, max)) <= max
  <1>1. CASE max = 0 \/ Len(cloud) <= max
    BY <1>1 DEF LimitPointCount
  <1>2. CASE max > 0 /\ Len(cloud) > max
    <2>. DEFINE kept == [k \in 1 .. max |-> cloud[Index(Len(cloud), max, k - 1) + 1]]
    <2>1. LimitPointCount(cloud, max) = kept  BY <1>2 DEF LimitPointCount
    <2>2. ASSUME NEW k \in 1 .. max
          PROVE  cloud[Index(Len(cloud), max, k - 1) + 1] \in Data
      <3>1. k - 1 \in 0 .. max - 1  OBVIOUS
      <3>2. Index(Len(cloud), max, k - 1) \in 0 .. Len(cloud) - 1
        BY <1>2, <3>1, LimitIndices
      <3>3. Index(Len(cloud), max, k - 1) + 1 \in 1 .. Len(cloud)  BY <3>2
      <3>. QED  BY <3>3
    <2>3. kept \in [1 .. max -> Data]  BY <2>2
    <2>4. kept \in Seq(Data) /\ Len(kept) = max  BY <2>3
    <2>. QED  BY <2>1, <2>4
  <1>. QED  BY <1>1, <1>2
=============================================================================
