------------------------- MODULE MCKeyframeFrontend -------------------------
(* Instances of the keyframe front end for TLC.                               *)
EXTENDS KeyframeFrontend

\* One point on each side, at distances 1 to 3 from where the UAV starts.
MCWorld == {<<2, 0>>, <<0, 2>>, <<-1, 0>>, <<0, -3>>}
MCViews == {{<<2, 0>>, <<0, 2>>, <<0, -3>>}, {<<-1, 0>>, <<2, 0>>}}

Stay == Identity
Forward == [pos |-> <<1, 0>>, yaw |-> 0]
Turn == [pos |-> <<0, 0>>, yaw |-> 1]
Leap == [pos |-> <<2, 0>>, yaw |-> 3]
MCMoves == {Forward, Leap}
MCFewMoves == {Stay, Leap}
MCOneView == {{<<0, 2>>, <<0, -3>>}}
=============================================================================
