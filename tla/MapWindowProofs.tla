--------------------------- MODULE MapWindowProofs ---------------------------
(* What holds of the map cube for every cube_len and det_range: it deletes    *)
(* exactly what it leaves; and when it is three detection ranges wide and the *)
(* lidar moves by no more than half of one per scan, it always holds all the  *)
(* lidar can see.                                                             *)
EXTENDS MapWindow, TLAPS

\* Lengths are whole metres, and the lidar may be anywhere.
Lengths == /\ cube_len \in Nat \ {0} /\ det_range \in Nat \ {0}
           /\ Step \in Nat /\ Reach \subseteq Int

\* The configurations under which nothing in view is ever deleted.
Roomy == cube_len >= 3 * det_range /\ Step <= 10 * det_range

-----------------------------------------------------------------------------
(* The cube's moves. *)

\* The distance the cube moves by is at least half a detection range.
LEMMA MoveType == ASSUME Lengths
                  PROVE  mov_dist \in Nat /\ mov_dist >= 10 * det_range
                         /\ mov_dist > 0
  BY DEF Lengths, mov_dist

\* A distance is a natural number, and its two cases.
LEMMA DistanceType ==
  ASSUME NEW a \in Int, NEW b \in Int
  PROVE  Distance(a, b) \in Nat /\ Distance(a, b) >= a - b
         /\ Distance(a, b) >= b - a
         /\ (Distance(a, b) = a - b \/ Distance(a, b) = b - a)
  BY DEF Distance

\* Along an axis the cube moves down, up or not at all, depending on which
\* edge is near.
LEMMA ShiftCases ==
  ASSUME Lengths, TypeOK, NEW p \in Corner, NEW i \in Axis
  PROVE  \/ /\ Shift(p, i) = -mov_dist /\ Shift(p, i) < 0
            /\ Distance(p[i], vertex_min[i]) <= Threshold
         \/ /\ Shift(p, i) = mov_dist /\ ~(Shift(p, i) < 0) /\ Shift(p, i) # 0
            /\ Distance(p[i], vertex_min[i]) > Threshold
            /\ Distance(p[i], vertex_max[i]) <= Threshold
         \/ /\ Shift(p, i) = 0
            /\ Distance(p[i], vertex_min[i]) > Threshold
            /\ Distance(p[i], vertex_max[i]) > Threshold
  <1>1. p[i] \in Int /\ vertex_min[i] \in Int /\ vertex_max[i] \in Int
    BY DEF TypeOK, Corner
  <1>2. /\ Distance(p[i], vertex_min[i]) \in Nat
        /\ Distance(p[i], vertex_max[i]) \in Nat
    BY <1>1, DistanceType
  <1>3. Threshold \in Nat  BY DEF Lengths, Threshold
  <1>4. mov_dist \in Nat /\ mov_dist > 0  BY MoveType
  <1>. QED  BY <1>2, <1>3, <1>4 DEF Shift

LEMMA ShiftType ==
  ASSUME Lengths, TypeOK, NEW p \in Corner, NEW i \in Axis
  PROVE  Shift(p, i) \in Int
  BY ShiftCases, MoveType

\* What is deleted along an axis is a box.
LEMMA LeftType ==
  ASSUME Lengths, TypeOK, NEW p \in Corner, NEW i \in Axis
  PROVE  Left(p, i) \in [min : Corner, max : Corner]
  <1>1. mov_dist \in Nat  BY MoveType
  <1>2. vertex_min \in Corner /\ vertex_max \in Corner  BY DEF TypeOK
  <1>3. [vertex_min EXCEPT ![i] = vertex_max[i] - mov_dist] \in Corner
    BY <1>1, <1>2 DEF Corner
  <1>4. [vertex_max EXCEPT ![i] = vertex_min[i] + mov_dist] \in Corner
    BY <1>1, <1>2 DEF Corner
  <1>. QED  BY <1>2, <1>3, <1>4 DEF Left

-----------------------------------------------------------------------------
(* Types. *)

LEMMA InitType == ASSUME Lengths, Init PROVE TypeOK
  <1>1. pos_lid \in Corner  BY DEF Lengths, Init, Corner
  <1>2. vertex_min \in Corner /\ vertex_max \in Corner  BY DEF Init, Corner
  <1>. QED  BY <1>1, <1>2 DEF Init, TypeOK

LEMMA NextType ==
  ASSUME Lengths, TypeOK, [Next]_vars
  PROVE  TypeOK'
  <1>1. CASE UNCHANGED vars  BY <1>1 DEF vars, cube, TypeOK
  <1>2. ASSUME NEW p \in [Axis -> Reach], Scan(p)
        PROVE  TypeOK'
    <2>1. p \in Corner  BY DEF Lengths, Corner
    <2>2. CASE FirstSegment(p)
      <3>1. vertex_min' \in Corner /\ vertex_max' \in Corner
        BY <2>1, <2>2 DEF FirstSegment, Corner, Lengths
      <3>. QED  BY <1>2, <2>1, <2>2, <3>1 DEF FirstSegment, Scan, TypeOK
    <2>3. CASE Segment(p)
      <3>1. \A i \in Axis : Shift(p, i) \in Int  BY <2>1, ShiftType
      <3>2. vertex_min' \in Corner /\ vertex_max' \in Corner
        BY <2>3, <3>1 DEF Segment, TypeOK, Corner
      <3>3. \A i \in Axis : Left(p, i) \in [min : Corner, max : Corner]
        BY <2>1, LeftType
      <3>4. cub_needrm' \subseteq [min : Corner, max : Corner]
        BY <2>3, <3>3 DEF Segment
      <3>. QED  BY <1>2, <2>1, <2>3, <3>2, <3>4 DEF Segment, Scan, TypeOK
    <2>. QED  BY <1>2, <2>2, <2>3 DEF Scan
  <1>. QED  BY <1>1, <1>2 DEF Next

\* The map cube keeps its types whatever its lengths are.
THEOREM MapTypeCorrect == ASSUME Lengths PROVE Spec => []TypeOK
  <1>1. Init => TypeOK  BY InitType
  <1>2. TypeOK /\ [Next]_vars => TypeOK'  BY NextType
  <1>. QED  BY <1>1, <1>2, PTL DEF Spec

-----------------------------------------------------------------------------
(* What is deleted is what the cube leaves. *)

\* A coordinate of the old cube that lies outside the moved one is in the
\* strip left along that axis.
LEMMA LeavesAlongAxis ==
  ASSUME Lengths, TypeOK, NEW p \in Corner, NEW q \in Corner,
         InBox(q, vertex_min, vertex_max), NEW i \in Axis,
         \/ q[i] < vertex_min[i] + Shift(p, i)
         \/ q[i] > vertex_max[i] + Shift(p, i)
  PROVE  Shift(p, i) # 0 /\ InBox(q, Left(p, i).min, Left(p, i).max)
  <1>1. /\ q[i] \in Int /\ vertex_min[i] \in Int /\ vertex_max[i] \in Int
        /\ vertex_min[i] <= q[i] /\ q[i] <= vertex_max[i]
    BY DEF TypeOK, Corner, InBox
  <1>2. mov_dist \in Nat /\ mov_dist > 0  BY MoveType
  <1>3. vertex_min \in Corner /\ vertex_max \in Corner  BY DEF TypeOK
  <1>4. CASE Shift(p, i) < 0
    <2>1. Shift(p, i) = -mov_dist  BY <1>2, <1>4, ShiftCases
    <2>2. q[i] >= vertex_max[i] - mov_dist  BY <1>1, <1>2, <2>1
    <2>. DEFINE low == [vertex_min EXCEPT ![i] = vertex_max[i] - mov_dist]
    <2>3. \A j \in Axis : low[j] <= q[j]
      BY <1>3, <2>2 DEF InBox, Corner
    <2>4. Left(p, i) = [min |-> low, max |-> vertex_max]  BY <1>4 DEF Left
    <2>5. Left(p, i).min = low /\ Left(p, i).max = vertex_max
      BY <2>4
    <2>6. Shift(p, i) # 0  BY <1>2, <2>1
    <2>. QED  BY <2>3, <2>5, <2>6 DEF InBox
  <1>5. CASE ~(Shift(p, i) < 0)
    <2>1. Shift(p, i) = mov_dist  BY <1>1, <1>2, <1>5, ShiftCases
    <2>2. q[i] <= vertex_min[i] + mov_dist  BY <1>1, <1>2, <2>1
    <2>. DEFINE high == [vertex_max EXCEPT ![i] = vertex_min[i] + mov_dist]
    <2>3. \A j \in Axis : q[j] <= high[j]
      BY <1>3, <2>2 DEF InBox, Corner
    <2>4. Left(p, i) = [min |-> vertex_min, max |-> high]  BY <1>5 DEF Left
    <2>5. Left(p, i).min = vertex_min /\ Left(p, i).max = high
      BY <2>4
    <2>6. Shift(p, i) # 0  BY <1>2, <2>1
    <2>. QED  BY <2>3, <2>5, <2>6 DEF InBox
  <1>. QED  BY <1>4, <1>5

\* A point strictly inside the moved cube is in no strip that is left.
LEMMA InsideIsKept ==
  ASSUME Lengths, TypeOK, NEW p \in Corner, NEW q \in Corner,
         NEW i \in Axis, Shift(p, i) # 0,
         vertex_min[i] + Shift(p, i) < q[i],
         q[i] < vertex_max[i] + Shift(p, i)
  PROVE  ~InBox(q, Left(p, i).min, Left(p, i).max)
  <1>1. q[i] \in Int /\ vertex_min[i] \in Int /\ vertex_max[i] \in Int
    BY DEF TypeOK, Corner
  <1>2. mov_dist \in Nat /\ mov_dist > 0  BY MoveType
  <1>3. vertex_min \in Corner /\ vertex_max \in Corner  BY DEF TypeOK
  <1>4. CASE Shift(p, i) < 0
    <2>1. Shift(p, i) = -mov_dist  BY <1>2, <1>4, ShiftCases
    <2>2. Left(p, i).min[i] = vertex_max[i] - mov_dist
      BY <1>3, <1>4 DEF Left, Corner
    <2>. QED  BY <1>1, <1>2, <2>1, <2>2 DEF InBox
  <1>5. CASE ~(Shift(p, i) < 0)
    <2>1. Shift(p, i) = mov_dist  BY <1>2, <1>5, ShiftCases
    <2>2. Left(p, i).max[i] = vertex_min[i] + mov_dist
      BY <1>3, <1>5 DEF Left, Corner
    <2>. QED  BY <1>1, <1>2, <2>1, <2>2 DEF InBox
  <1>. QED  BY <1>4, <1>5

LEMMA SegmentDeletes ==
  ASSUME Lengths, TypeOK, NEW p \in Corner, Segment(p),
         NEW q \in Corner, InBox(q, vertex_min, vertex_max)
  PROVE  /\ ~InBox(q, vertex_min', vertex_max') => Deleted(q)
         /\ InsideBox(q, vertex_min', vertex_max') => ~Deleted(q)
  <1>1. \A i \in Axis : /\ vertex_min'[i] = vertex_min[i] + Shift(p, i)
                        /\ vertex_max'[i] = vertex_max[i] + Shift(p, i)
    BY DEF Segment
  <1>2. \A i \in Axis : Shift(p, i) \in Int /\ vertex_min[i] \in Int
                        /\ vertex_max[i] \in Int /\ q[i] \in Int
    BY ShiftType DEF TypeOK, Corner
  <1>3. ASSUME ~InBox(q, vertex_min', vertex_max')
        PROVE  Deleted(q)
    <2>1. PICK i \in Axis : \/ q[i] < vertex_min[i] + Shift(p, i)
                           \/ q[i] > vertex_max[i] + Shift(p, i)
      BY <1>1, <1>2, <1>3 DEF InBox
    <2>2. Shift(p, i) # 0 /\ InBox(q, Left(p, i).min, Left(p, i).max)
      BY <2>1, LeavesAlongAxis
    <2>3. Left(p, i) \in cub_needrm'  BY <2>2 DEF Segment
    <2>. QED  BY <2>2, <2>3 DEF Deleted
  <1>4. ASSUME InsideBox(q, vertex_min', vertex_max'), Deleted(q)
        PROVE  FALSE
    <2>1. PICK i \in Axis : Shift(p, i) # 0 /\ InBox(q, Left(p, i).min, Left(p, i).max)
      BY <1>4 DEF Deleted, Segment
    <2>2. /\ vertex_min[i] + Shift(p, i) < q[i]
          /\ q[i] < vertex_max[i] + Shift(p, i)
      BY <1>1, <1>4 DEF InsideBox
    <2>. QED  BY <2>1, <2>2, InsideIsKept
  <1>. QED  BY <1>3, <1>4

\* Whatever the lengths, a move of the cube deletes all of the old cube that
\* the new one does not hold, and nothing inside the new one.
THEOREM DeletedIsLeft == ASSUME Lengths PROVE Spec => DeletesWhatLeaves
  <1>. DEFINE Step1 ==
         Localmap_Initialized => \A q \in Corner :
           InBox(q, vertex_min, vertex_max) =>
             /\ ~InBox(q, vertex_min', vertex_max') => Deleted(q)
             /\ InsideBox(q, vertex_min', vertex_max') => ~Deleted(q)
  <1>1. TypeOK /\ [Next]_vars => [Step1]_vars
    <2>. SUFFICES ASSUME TypeOK, Next, Localmap_Initialized,
                         NEW q \in Corner, InBox(q, vertex_min, vertex_max)
                  PROVE  /\ ~InBox(q, vertex_min', vertex_max') => Deleted(q)
                         /\ InsideBox(q, vertex_min', vertex_max') => ~Deleted(q)
      OBVIOUS
    <2>1. PICK p \in [Axis -> Reach] : Scan(p)  BY DEF Next
    <2>2. p \in Corner  BY DEF Lengths, Corner
    <2>3. Segment(p)  BY <2>1 DEF Scan, FirstSegment
    <2>. QED  BY <2>2, <2>3, SegmentDeletes
  <1>2. Spec => []TypeOK  BY MapTypeCorrect
  <1>. QED  BY <1>1, <1>2, PTL DEF Spec, DeletesWhatLeaves

-----------------------------------------------------------------------------
(* A roomy cube holds all the lidar can see. *)

\* The strengthening: the cube never changes its size.
CubeSide == Localmap_Initialized =>
              \A i \in Axis : vertex_max[i] - vertex_min[i] = 20 * cube_len
ViewInv == TypeOK /\ CubeSide /\ ViewMapped /\ ViewKept

\* Room on either side of the lidar after a move, along one axis.
LEMMA RoomLeft ==
  ASSUME Lengths, Roomy, NEW d \in Int, NEW e \in Int,
         d + e = 20 * cube_len, d >= View - Step, d <= Threshold
  PROVE  d + mov_dist >= View /\ e - mov_dist >= View
  BY DEF Lengths, Roomy, View, Threshold, mov_dist

LEMMA AxisKeepsView ==
  ASSUME Lengths, Roomy, ViewInv, Localmap_Initialized,
         NEW p \in Corner, NEW i \in Axis, Distance(p[i], pos_lid[i]) <= Step
  PROVE  /\ vertex_min[i] + Shift(p, i) <= p[i] - View
         /\ p[i] + View <= vertex_max[i] + Shift(p, i)
         /\ Shift(p, i) # 0 =>
              \/ Left(p, i).max[i] <= p[i] - View
              \/ Left(p, i).min[i] >= p[i] + View
  <1>. DEFINE d == p[i] - vertex_min[i]
              e == vertex_max[i] - p[i]
  <1>1. /\ p[i] \in Int /\ vertex_min[i] \in Int /\ vertex_max[i] \in Int
        /\ pos_lid[i] \in Int /\ vertex_min \in Corner /\ vertex_max \in Corner
    BY DEF ViewInv, TypeOK, Corner
  <1>2. /\ mov_dist \in Nat /\ mov_dist > 0 /\ View \in Nat /\ Threshold \in Nat
        /\ Step \in Nat /\ Threshold >= View /\ View >= Step
    BY MoveType DEF Lengths, View, Threshold, Roomy
  <1>2a. d \in Int /\ e \in Int  BY <1>1
  <1>3. d + e = 20 * cube_len
    BY <1>1 DEF ViewInv, CubeSide, Lengths
  <1>4. d >= View - Step /\ e >= View - Step
    <2>1. p[i] - pos_lid[i] <= Step /\ pos_lid[i] - p[i] <= Step
      BY <1>1, <1>2 DEF Distance
    <2>2. vertex_min[i] <= pos_lid[i] - View /\ pos_lid[i] + View <= vertex_max[i]
      BY DEF ViewInv, ViewMapped
    <2>. QED  BY <1>1, <1>2, <2>1, <2>2
  <1>5. Distance(p[i], vertex_min[i]) = d /\ Distance(p[i], vertex_max[i]) = e
    BY <1>1, <1>2, <1>4 DEF Distance
  <1>6. CASE Shift(p, i) = -mov_dist /\ d <= Threshold
    <2>1. d + mov_dist >= View /\ e - mov_dist >= View
      <3>. HIDE DEF d, e
      <3>. QED  BY <1>3, <1>4, <1>6, <1>2a, RoomLeft
    <2>2. Shift(p, i) < 0  BY <1>2, <1>6
    <2>3. Left(p, i).min[i] = vertex_max[i] - mov_dist
      BY <1>1, <2>2 DEF Left, Corner
    <2>. QED  BY <1>1, <1>2, <1>6, <2>1, <2>3
  <1>7. CASE Shift(p, i) = mov_dist /\ e <= Threshold
    <2>1. e + mov_dist >= View /\ d - mov_dist >= View
      <3>1. e + d = 20 * cube_len  BY <1>3, <1>2a
      <3>. HIDE DEF d, e
      <3>. QED  BY <1>4, <1>7, <1>2a, <3>1, RoomLeft
    <2>2. ~(Shift(p, i) < 0)  BY <1>2, <1>7
    <2>3. Left(p, i).max[i] = vertex_min[i] + mov_dist
      BY <1>1, <2>2 DEF Left, Corner
    <2>. QED  BY <1>1, <1>2, <1>7, <2>1, <2>3
  <1>8. CASE Shift(p, i) = 0 /\ d > Threshold /\ e > Threshold
    BY <1>1, <1>2, <1>8
  <1>9. TypeOK  BY DEF ViewInv
  <1>. QED  BY <1>5, <1>6, <1>7, <1>8, <1>9, ShiftCases

LEMMA NextView ==
  ASSUME Lengths, Roomy, ViewInv, [Next]_vars
  PROVE  ViewInv'
  <1>0. TypeOK'  BY NextType DEF ViewInv
  <1>1. CASE UNCHANGED vars
    BY <1>0, <1>1 DEF vars, cube, ViewInv, CubeSide, ViewMapped, ViewKept
  <1>2. ASSUME NEW p \in [Axis -> Reach], Scan(p)
        PROVE  CubeSide' /\ ViewMapped' /\ ViewKept'
    <2>1. p \in Corner  BY DEF Lengths, Corner
    <2>2. CASE FirstSegment(p)
      <3>1. \A i \in Axis : /\ vertex_min'[i] = p[i] - 10 * cube_len
                            /\ vertex_max'[i] = p[i] + 10 * cube_len
                            /\ pos_lid'[i] = p[i] /\ p[i] \in Int
        BY <1>2, <2>1, <2>2 DEF FirstSegment, Scan, Corner
      <3>2. CubeSide'  BY <3>1 DEF CubeSide, Lengths
      <3>3. ViewMapped'  BY <3>1 DEF ViewMapped, View, Lengths, Roomy
      <3>4. ViewKept'  BY <2>2 DEF FirstSegment, ViewKept
      <3>. QED  BY <3>2, <3>3, <3>4
    <2>3. CASE Segment(p)
      <3>1. pos_lid' = p /\ \A i \in Axis : Distance(p[i], pos_lid[i]) <= Step
        BY <1>2 DEF Scan
      <3>2. \A i \in Axis : /\ vertex_min'[i] = vertex_min[i] + Shift(p, i)
                            /\ vertex_max'[i] = vertex_max[i] + Shift(p, i)
        BY <2>3 DEF Segment
      <3>3. Localmap_Initialized  BY <2>3 DEF Segment
      <3>4. \A i \in Axis : /\ vertex_min[i] + Shift(p, i) <= p[i] - View
                            /\ p[i] + View <= vertex_max[i] + Shift(p, i)
                            /\ Shift(p, i) # 0 =>
                                 \/ Left(p, i).max[i] <= p[i] - View
                                 \/ Left(p, i).min[i] >= p[i] + View
        BY <2>1, <3>1, <3>3, AxisKeepsView
      <3>5. \A i \in Axis : Shift(p, i) \in Int /\ vertex_min[i] \in Int
                            /\ vertex_max[i] \in Int
        BY <2>1, ShiftType DEF ViewInv, TypeOK, Corner
      <3>6. CubeSide'
        BY <3>2, <3>3, <3>5 DEF CubeSide, ViewInv, Lengths
      <3>7. ViewMapped'  BY <3>1, <3>2, <3>4 DEF ViewMapped, View
      <3>8. ViewKept'
        <4>1. ASSUME NEW b \in cub_needrm'
              PROVE  \E i \in Axis : \/ b.max[i] <= p[i] - View
                                     \/ b.min[i] >= p[i] + View
          <5>1. PICK i \in Axis : Shift(p, i) # 0 /\ b = Left(p, i)
            BY <2>3, <4>1 DEF Segment
          <5>. QED  BY <3>4, <5>1
        <4>. QED  BY <3>1, <4>1 DEF ViewKept, View
      <3>. QED  BY <3>6, <3>7, <3>8
    <2>. QED  BY <1>2, <2>2, <2>3 DEF Scan
  <1>. QED  BY <1>0, <1>1, <1>2 DEF Next, ViewInv

\* With a cube of at least three detection ranges, and a lidar that moves by at
\* most half of one between scans, all that is nearer than det_range lies in
\* the cube and none of it is ever deleted.
THEOREM RoomyKeepsView ==
  ASSUME Lengths, Roomy PROVE Spec => [](ViewMapped /\ ViewKept)
  <1>1. Init => ViewInv
    BY InitType DEF Init, ViewInv, CubeSide, ViewMapped, ViewKept
  <1>2. ViewInv /\ [Next]_vars => ViewInv'  BY NextView
  <1>3. ViewInv => ViewMapped /\ ViewKept  BY DEF ViewInv
  <1>. QED  BY <1>1, <1>2, <1>3, PTL DEF Spec
=============================================================================
