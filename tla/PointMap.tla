------------------------------ MODULE PointMap ------------------------------
(***************************************************************************)
(* What FAST-LIO takes its point map to be: a set of points that changes   *)
(* by the mapper's requests alone, one request at a time, and holds what   *)
(* the finished requests make of it.  There is no tree, no rebuild and no  *)
(* second thread.  A deletion may take effect piece by piece; the rest of  *)
(* a request takes effect at once.  The promise ends at an Escape.         *)
(***************************************************************************)
EXTENDS Integers, FiniteSets

CONSTANTS Point, Added, Deleted, Box, Voxel

VARIABLES
  points,    \* the points in the map
  cell,      \* the downsampling box whose points are being compared, or {}
  removing,  \* the points the present request takes out
  adding,    \* the points it puts in afterwards
  intact     \* no operation has escaped

vars == <<points, cell, removing, adding, intact>>

Idle == intact /\ cell = {} /\ removing = {} /\ adding = {}

Init ==
  /\ points \in SUBSET Point
  /\ cell = {} /\ removing = {} /\ adding = {} /\ intact = TRUE

DeleteBox(B) ==
  /\ Idle
  /\ removing' = B
  /\ UNCHANGED <<points, cell, adding, intact>>

\* A box around the whole map takes effect when it is asked for.
DeleteAll ==
  /\ Idle /\ Point \in Box
  /\ points' = {}
  /\ UNCHANGED <<cell, removing, adding, intact>>

\* An empty map may be started again from a scan.
Refill(S) ==
  /\ Idle /\ points = {}
  /\ points' = S
  /\ UNCHANGED <<cell, removing, adding, intact>>

Insert(p) ==
  /\ Idle
  /\ adding' = {p}
  /\ UNCHANGED <<points, cell, removing, intact>>

Downsample(V) ==
  /\ Idle
  /\ cell' = V
  /\ UNCHANGED <<points, removing, adding, intact>>

\* The cell is left with the point r alone, or with the one point it has.
Keep(r) ==
  /\ intact /\ r \in cell
  /\ \/ Cardinality(points \cap cell) = 1 /\ UNCHANGED <<removing, adding>>
     \/ points \cap cell = {} /\ removing' = {} /\ adding' = {r}
     \/ removing' = cell /\ adding' = {r}
  /\ cell' = {}
  /\ UNCHANGED <<points, intact>>

RemoveSome ==
  /\ intact
  /\ points' \in {points \ D : D \in SUBSET removing}
  /\ UNCHANGED <<cell, removing, adding, intact>>

RemoveRest ==
  /\ intact
  /\ points' = points \ removing /\ removing' = {}
  /\ UNCHANGED <<cell, adding, intact>>

Finish ==
  /\ intact
  /\ points' = (points \ removing) \cup adding
  /\ removing' = {} /\ adding' = {}
  /\ UNCHANGED <<cell, intact>>

Escape ==
  /\ intact /\ intact' = FALSE
  /\ points' = {} /\ cell' = {} /\ removing' = {} /\ adding' = {}

Next ==
  \/ \E B \in Box \cup {{p} : p \in Deleted} : DeleteBox(B)
  \/ DeleteAll
  \/ \E S \in SUBSET Added : Refill(S)
  \/ \E p \in Added : Insert(p)
  \/ \E V \in Voxel : Downsample(V)
  \/ \E r \in Point : Keep(r)
  \/ RemoveSome \/ RemoveRest \/ Finish \/ Escape

Spec == Init /\ [][Next]_vars
=============================================================================
