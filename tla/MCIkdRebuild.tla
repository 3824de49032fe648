---------------------------- MODULE MCIkdRebuild ----------------------------
(* Small instances of the rebuild protocol for TLC. *)
EXTENDS IkdRebuildProps, TLC

CONSTANTS p1, p2, p3

MCPoint == {p1, p2, p3}
MCSonOf == [p \in MCPoint |-> IF p = p3 THEN "right" ELSE "left"]
MCAdded == {p2}
MCDeleted == {p1}
MCBox == {{p2, p3}, MCPoint}
MCVoxel == {{p2, p3}}
\* The searchers do the same; only safety is checked under this symmetry.
Symmetric == Permutations(Searcher)
NoPoint == {}
NoBox == {}
=============================================================================
