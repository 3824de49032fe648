----------------------------- MODULE MapWindow -----------------------------
(***************************************************************************)
(* The cube of map that FAST-LIO keeps around the lidar                    *)
(* (laserMapping.cpp, lasermap_fov_segment). Once per scan the cube is     *)
(* moved away from an edge the lidar came near, and the boxes it leaves    *)
(* are deleted from the ikd-Tree.                                          *)
(* cube_len and det_range are metres, as in the configuration; positions   *)
(* and edges count twentieths of a metre, in which the code's factors 1.5, *)
(* 0.5 and 0.45 are whole. Rounding (the edges are floats) is left out.    *)
(***************************************************************************)
EXTENDS Integers

CONSTANTS cube_len, det_range,
          Step,      \* how far the lidar gets from one scan to the next
          Reach      \* bound: the coordinates it may have

Axis == 1 .. 3

VARIABLES Localmap_Initialized, vertex_min, vertex_max, pos_lid,
          cub_needrm     \* the boxes deleted with this scan

cube == <<vertex_min, vertex_max>>
vars == <<Localmap_Initialized, cube, pos_lid, cub_needrm>>

View == 20 * det_range
Threshold == 30 * det_range            \* MOV_THRESHOLD * DET_RANGE
mov_dist ==
  LET half == 9 * (cube_len - 3 * det_range)
      least == 10 * det_range
  IN  IF half > least THEN half ELSE least

Distance(a, b) == IF a > b THEN a - b ELSE b - a

Init ==
  /\ Localmap_Initialized = FALSE
  /\ vertex_min = [i \in Axis |-> 0] /\ vertex_max = [i \in Axis |-> 0]
  /\ pos_lid \in [Axis -> Reach]
  /\ cub_needrm = {}

\* The edge below wins where the lidar is near both.
Shift(p, i) ==
  IF Distance(p[i], vertex_min[i]) <= Threshold THEN -mov_dist
  ELSE IF Distance(p[i], vertex_max[i]) <= Threshold THEN mov_dist
  ELSE 0

\* tmp_boxpoints: what the cube leaves along one axis, as wide as the old cube
\* in the others.
Left(p, i) ==
  IF Shift(p, i) < 0
  THEN [min |-> [vertex_min EXCEPT ![i] = vertex_max[i] - mov_dist],
        max |-> vertex_max]
  ELSE [min |-> vertex_min,
        max |-> [vertex_max EXCEPT ![i] = vertex_min[i] + mov_dist]]

\* The first scan puts the cube around the lidar.
FirstSegment(p) ==
  /\ ~Localmap_Initialized
  /\ Localmap_Initialized' = TRUE
  /\ vertex_min' = [i \in Axis |-> p[i] - 10 * cube_len]
  /\ vertex_max' = [i \in Axis |-> p[i] + 10 * cube_len]
  /\ cub_needrm' = {}

Segment(p) ==
  /\ Localmap_Initialized
  /\ vertex_min' = [i \in Axis |-> vertex_min[i] + Shift(p, i)]
  /\ vertex_max' = [i \in Axis |-> vertex_max[i] + Shift(p, i)]
  /\ cub_needrm' = {Left(p, i) : i \in {j \in Axis : Shift(p, j) # 0}}
  /\ UNCHANGED Localmap_Initialized

\* lasermap_fov_segment with the lidar of the next scan at p.
Scan(p) ==
  /\ \A i \in Axis : Distance(p[i], pos_lid[i]) <= Step
  /\ pos_lid' = p
  /\ FirstSegment(p) \/ Segment(p)

Next == \E p \in [Axis -> Reach] : Scan(p)

Spec == Init /\ [][Next]_vars

-----------------------------------------------------------------------------

InBox(q, low, high) == \A i \in Axis : low[i] <= q[i] /\ q[i] <= high[i]
InsideBox(q, low, high) == \A i \in Axis : low[i] < q[i] /\ q[i] < high[i]

\* The type of every variable.
Corner == [Axis -> Int]
TypeOK ==
  /\ Localmap_Initialized \in BOOLEAN
  /\ vertex_min \in Corner /\ vertex_max \in Corner /\ pos_lid \in Corner
  /\ cub_needrm \subseteq [min : Corner, max : Corner]

\* Nothing nearer to the lidar than det_range is deleted, so that the scan
\* finds the map it can see (laserMapping.cpp 1014: "Segment the map in lidar
\* FOV"). It does not hold for the configurations of the three UAVs.
ViewKept ==
  \A b \in cub_needrm : \E i \in Axis :
    b.max[i] <= pos_lid[i] - View \/ b.min[i] >= pos_lid[i] + View

\* All that is nearer than det_range lies in the cube.
ViewMapped ==
  Localmap_Initialized => \A i \in Axis :
    vertex_min[i] <= pos_lid[i] - View /\ pos_lid[i] + View <= vertex_max[i]

\* A move of the cube deletes all of the old cube that the new one does not
\* hold, and nothing inside the new one (lasermap_fov_segment 262-279).
Deleted(q) == \E b \in cub_needrm' : InBox(q, b.min, b.max)
DeletesWhatLeaves ==
  [][Localmap_Initialized => \A q \in Corner :
       InBox(q, vertex_min, vertex_max) =>
         /\ ~InBox(q, vertex_min', vertex_max') => Deleted(q)
         /\ InsideBox(q, vertex_min', vertex_max') => ~Deleted(q)]_vars
=============================================================================
