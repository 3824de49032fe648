---------------------------- MODULE MCUdpBridge ----------------------------
(* Two UAVs whose clocks differ. *)
EXTENDS UdpBridgeProps

MCAhead == [n \in Node |-> IF n = "u1" THEN 0 ELSE 1]
=============================================================================
