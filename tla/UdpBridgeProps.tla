--------------------------- MODULE UdpBridgeProps ---------------------------
(* What the UDP bridge promises the estimator.                             *)
EXTENDS UdpBridge

IpIds   == [kind : {"IP_ID"}, to : Node, from : Node, start : Int]
Asks    == [kind : {"TIME_SYNC"}, to : Node, client : Node, t1 : Int]
Answers == [kind : {"TIME_SYNC"}, to : Node, client : Node, server : Node,
            t1 : Int, t2 : Int, t3 : Int]
States  == [kind : {"STATE"}, to : Node, from : Node, stamp : Int]
Message == IpIds \cup Asks \cup Answers \cup States
Teammate == [known : {TRUE}, start : Int, count : 0 .. Samples, offsets : Int,
             delays : Int]

\* The type of every variable.
TypeOK ==
  /\ now \in 0 .. MaxTime
  /\ net \subseteq Message /\ Cardinality(net) <= MaxNet
  /\ start \in [Node -> Int]
  /\ rcv_WT \in [Node -> Int]
  /\ \A n \in Node :
       /\ teammates[n] \in [Peer(n) -> Teammate \cup {Unknown}]
       /\ \A k \in Kind :
            latest[n][k] \in {m \in Message : m.kind = k} \cup {Nothing}
       /\ \/ pc[n] = "idle" /\ work[n] = Nothing
          \/ pc[n] = "TIME_SYNC" /\ work[n] \in Asks
          \/ pc[n] = "nsec" /\ work[n] \in [m : Asks, nsec : 0 .. Second - 1]

\* The estimated difference of two clocks is off by at most half the mean
\* delay of the measurements, whatever was lost, duplicated, overtaken or
\* overwritten, and whoever restarted in between (udp_online.cpp 170-198).
OffsetWithinDelay ==
  \A n \in Node : \A p \in Peer(n) :
    LET d == teammates[n][p] IN
      d.known =>
        Abs(d.offsets - 2 * d.count * (Ahead[p] - Ahead[n])) <= d.delays

\* A relayed state carries the time it was made, on the receiver's clock, to
\* within half the mean delay of the estimate (udp_online.cpp 240-248).
RelayedInTime ==
  \A n \in Node :
    latest[n]["STATE"] # Nothing =>
      LET m == latest[n]["STATE"]
          d == teammates[n][m.from]
          made == m.stamp - Ahead[m.from]
      IN Synced(d) =>
           Abs(Relay(m, d) - 2 * d.count * (made + Ahead[n])) <= d.delays

\* Once nobody restarts any more, every UAV comes to know the present process
\* of every other one and has an estimate of its clock, for good.
InSync ==
  \A n \in Asking : \A p \in Peer(n) :
    /\ Synced(teammates[n][p])
    /\ Abs(teammates[n][p].start - start[p]) <= Tolerance
SyncsForGood == <>[]InSync
=============================================================================
