---------------------------- MODULE MCMapWindow ----------------------------
(* The map cube with the lengths of uav1_gazebo.yaml, and the lidar at rest  *)
(* or moving a metre back and forth.                                         *)
EXTENDS MapWindow

MCReach == {0, 20}
=============================================================================
