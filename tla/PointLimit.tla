----------------------------- MODULE PointLimit -----------------------------
(***************************************************************************)
(* Which points of a cloud the keyframe front end keeps when the cloud is  *)
(* larger than max_points (submap_builder.cpp, limitPointCount). The code  *)
(* multiplies by size / max as a double; the quotient here is exact. While *)
(* size * max stays below 2^50 the rounding is less than the 1 / max by    *)
(* which two quotients are further apart than LimitIndices needs.          *)
(***************************************************************************)
EXTENDS Integers, Sequences

\* src_index of the idx-th point kept, both from 0.
Index(size, max, idx) ==
  LET floor == (idx * size) \div max
  IN  IF floor < size - 1 THEN floor ELSE size - 1

LimitPointCount(cloud, max) ==
  IF max = 0 \/ Len(cloud) <= max
  THEN cloud
  ELSE [k \in 1 .. max |-> cloud[Index(Len(cloud), max, k - 1) + 1]]
=============================================================================
