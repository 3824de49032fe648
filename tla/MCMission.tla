----------------------------- MODULE MCMission -----------------------------
(* Instances of the mission for TLC: two UAVs, and times scaled down so that  *)
(* every phase still lasts several timer callbacks.                           *)
EXTENDS Mission, TLC

MCHome == 1 :> <<0, 0, 0>> @@ 2 :> <<0, 3, 0>>
MCTakeoff_z == 1 :> 4 @@ 2 :> 2
=============================================================================
