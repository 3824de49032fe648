----------------------------- MODULE UdpBridge -----------------------------
(***************************************************************************)
(* The UDP bridge of Swarm-LIO2 (udp_bridge/src/udp_online.cpp): one       *)
(* process per UAV that finds its teammates, estimates the difference of   *)
(* their clocks to its own and relays their states with the stamp moved    *)
(* to its own clock.                                                       *)
(*                                                                         *)
(*   - the UDP thread stores every datagram in a mailbox with one place    *)
(*     per kind of message (UdpCallback);                                  *)
(*   - the executor, one thread, runs the timers: they send, and they look *)
(*     into the mailboxes every millisecond.                               *)
(*                                                                         *)
(* The network loses, delays, reorders and duplicates datagrams.  Clocks   *)
(* run at one speed and differ by a constant; a process that restarts      *)
(* keeps its clock.  A state message stands for QUAD_STATE and             *)
(* GLOBAL_EXTRINSIC, which are handled alike.  A message that was taken    *)
(* out of its mailbox is not read again, so the model empties the mailbox: *)
(* rcv_new_msg is latest # Nothing.  An arrival time that is not read any  *)
(* more is set to 0.                                                       *)
(***************************************************************************)
EXTENDS Integers, FiniteSets

CONSTANTS
  Node,         \* the UAVs
  Asking,       \* bound: the UAVs whose time requests are followed
  Ahead,        \* Ahead[n]: how much the clock of n is ahead of real time
  Samples,      \* the answers an estimate is made of (30)
  Second,       \* the length of a second
  Tolerance,    \* start times that differ by no more are one start (1 s)
  MaxTime,      \* bound: real time
  MaxNet,       \* bound: datagrams under way
  MaxFaults,    \* bound: restarts of processes and duplicated datagrams
  MaxStates     \* bound: states sent

ASSUME BridgeAssumption ==
  /\ IsFiniteSet(Node) /\ Asking \subseteq Node
  /\ Ahead \in [Node -> Int]
  /\ {Samples, Second} \subseteq Nat \ {0} /\ Tolerance \in Nat
  /\ {MaxTime, MaxNet, MaxFaults, MaxStates} \subseteq Nat

Kind == {"IP_ID", "TIME_SYNC", "STATE"}

VARIABLES
  now,        \* real time
  net,        \* the datagrams under way
  start,      \* start[n]: udp_start_time_ of n's process, by its clock
  teammates,  \* teammates[n][p]: what n knows of p
  latest,     \* latest[n][k]: the mailbox of n for messages of kind k
  rcv_WT,     \* rcv_WT[n]: when the last time message arrived, by n's clock
  pc, work,   \* the executor: where its callback is, and its processing_msg
  used        \* faults and states so far

vars == <<now, net, start, teammates, latest, rcv_WT, pc, work, used>>

-----------------------------------------------------------------------------
Clock(n) == now + Ahead[n]
Peer(n)  == Node \ {n}
Abs(x)   == IF x < 0 THEN -x ELSE x

Nothing == [kind |-> "none"]
Unknown == [known |-> FALSE]

\* A Teammate: when its process started, and the sums of twice the offsets
\* and of the delays that were measured so far.
Found(s) ==
  [known |-> TRUE, start |-> s, count |-> 0, offsets |-> 0, delays |-> 0]

\* Mutant: one answer too many.
SyncedLate(d) == d.known /\ d.count > Samples

Synced(d) == d.known /\ d.count >= Samples

IpId(n, to) == [kind |-> "IP_ID", to |-> to, from |-> n, start |-> start[n]]
Ask(n, to)  == [kind |-> "TIME_SYNC", to |-> to, client |-> n, t1 |-> Clock(n)]
Answer(m, n, t2) ==
  [kind |-> "TIME_SYNC", to |-> m.client, client |-> m.client, server |-> n,
   t1 |-> m.t1, t2 |-> t2, t3 |-> Clock(n)]
State(n, to) == [kind |-> "STATE", to |-> to, from |-> n, stamp |-> Clock(n)]

Init ==
  /\ now = 0 /\ net = {}
  /\ start = [n \in Node |-> Ahead[n]]
  /\ teammates = [n \in Node |-> [p \in Peer(n) |-> Unknown]]
  /\ latest = [n \in Node |-> [k \in Kind |-> Nothing]]
  /\ rcv_WT = [n \in Node |-> 0]
  /\ pc = [n \in Node |-> "idle"] /\ work = [n \in Node |-> Nothing]
  /\ used = [faults |-> 0, states |-> 0]

-----------------------------------------------------------------------------
(* The timers that send.  sendto waits while there is no room.              *)

Send(msgs) ==
  /\ Cardinality(net \cup msgs) <= MaxNet
  /\ net' = net \cup msgs

\* BroadcastCallback, SendLocalIp.  The broadcast that comes back to its sender
\* is ignored there; it may overwrite a message, which is then as good as lost.
Broadcast(n) ==
  /\ pc[n] = "idle"
  /\ Send({IpId(n, p) : p \in Peer(n)})
  /\ UNCHANGED <<now, start, teammates, latest, rcv_WT, pc, work, used>>

\* SyncRequestCallback: asks every teammate without an estimate.
SyncRequest(n) ==
  /\ pc[n] = "idle" /\ n \in Asking
  /\ Send({Ask(n, p) : p \in {q \in Peer(n) :
             teammates[n][q].known /\ ~Synced(teammates[n][q])}})
  /\ UNCHANGED <<now, start, teammates, latest, rcv_WT, pc, work, used>>

\* The state of the own estimator goes to every teammate.
SendState(n) ==
  /\ pc[n] = "idle" /\ used.states < MaxStates
  /\ Send({State(n, p) : p \in {q \in Peer(n) : teammates[n][q].known}})
  /\ used' = [used EXCEPT !.states = @ + 1]
  /\ UNCHANGED <<now, start, teammates, latest, rcv_WT, pc, work>>

-----------------------------------------------------------------------------
(* The network and the UDP thread.                                          *)

Lose(m) ==
  /\ net' = net \ {m}
  /\ UNCHANGED <<now, start, teammates, latest, rcv_WT, pc, work, used>>

\* UdpCallback: a message that was not looked at yet is overwritten.
Deliver(m) ==
  /\ \/ net' = net \ {m} /\ UNCHANGED used
     \/ /\ used.faults < MaxFaults /\ UNCHANGED net
        /\ used' = [used EXCEPT !.faults = @ + 1]
  /\ latest' = [latest EXCEPT ![m.to][m.kind] = m]
  /\ rcv_WT' = IF m.kind = "TIME_SYNC"
               THEN [rcv_WT EXCEPT ![m.to] = Clock(m.to)] ELSE rcv_WT
  /\ UNCHANGED <<now, start, teammates, pc, work>>

-----------------------------------------------------------------------------
(* The timers that look into the mailboxes.  Once it has copied and cleared *)
(* its mailbox under the lock, a callback uses what the UDP thread may      *)
(* write in two places only, and is one step but for these.                 *)

Empty(n, k) == latest' = [latest EXCEPT ![n][k] = Nothing]

\* Mutant: a teammate that started again is not added anew.
HandleIpIdOnce(n) ==
  LET m == latest[n]["IP_ID"] IN
  /\ pc[n] = "idle" /\ m # Nothing
  /\ teammates' = IF ~teammates[n][m.from].known
                  THEN [teammates EXCEPT ![n][m.from] = Found(m.start)]
                  ELSE teammates
  /\ Empty(n, "IP_ID")
  /\ UNCHANGED <<now, net, start, rcv_WT, pc, work, used>>

\* IpIdMsgCallback_: a new teammate, or one that started again, is added.
HandleIpId(n) ==
  LET m == latest[n]["IP_ID"] IN
  /\ pc[n] = "idle" /\ m # Nothing
  /\ teammates' = IF \/ ~teammates[n][m.from].known
                     \/ Abs(teammates[n][m.from].start - m.start) > Tolerance
                  THEN [teammates EXCEPT ![n][m.from] = Found(m.start)]
                  ELSE teammates
  /\ Empty(n, "IP_ID")
  /\ UNCHANGED <<now, net, start, rcv_WT, pc, work, used>>

\* Mutant: the server's t3 is not subtracted, only its t2.
MeasuredEarly(d, m, t4) ==
  [d EXCEPT !.count = @ + 1,
            !.offsets = @ + (m.t2 - m.t1) - (t4 - m.t2),
            !.delays = @ + (m.t2 - m.t1) + (t4 - m.t3)]

\* One measurement from the answer m, at the time t4.
Measured(d, m, t4) ==
  [d EXCEPT !.count = @ + 1,
            !.offsets = @ + (m.t2 - m.t1) - (t4 - m.t3),
            !.delays = @ + (m.t2 - m.t1) + (t4 - m.t3)]

\* TimeSyncCallback_ of the client: one more measurement, if one is missing.
HandleAnswer(n) ==
  LET m == latest[n]["TIME_SYNC"] IN
  /\ pc[n] = "idle" /\ m # Nothing /\ m.client = n
  /\ LET d == teammates[n][m.server] IN
       teammates' = IF d.known /\ ~Synced(d)
                    THEN [teammates EXCEPT ![n][m.server] = Measured(d, m, Clock(n))]
                    ELSE teammates
  /\ Empty(n, "TIME_SYNC")
  /\ rcv_WT' = [rcv_WT EXCEPT ![n] = 0]
  /\ UNCHANGED <<now, net, start, pc, work, used>>

\* TimeSyncCallback_ of the server copies the request.
TakeAsk(n) ==
  LET m == latest[n]["TIME_SYNC"] IN
  /\ pc[n] = "idle" /\ m # Nothing /\ m.client # n
  /\ pc' = [pc EXCEPT ![n] = "TIME_SYNC"]
  /\ work' = [work EXCEPT ![n] = m]
  /\ Empty(n, "TIME_SYNC")
  /\ UNCHANGED <<now, net, start, teammates, rcv_WT, used>>

Handled(n) ==
  /\ pc' = [pc EXCEPT ![n] = "idle"]
  /\ work' = [work EXCEPT ![n] = Nothing]

\* t2 is read without the lock and in two parts, first the nanoseconds: by then
\* and between the two rcv_WT may have become that of a later message.
ReadNsec(n) ==
  /\ pc[n] = "TIME_SYNC"
  /\ pc' = [pc EXCEPT ![n] = "nsec"]
  /\ work' = [work EXCEPT ![n] = [m |-> @, nsec |-> rcv_WT[n] % Second]]
  /\ UNCHANGED <<now, net, start, teammates, latest, rcv_WT, used>>

Torn(n) == (rcv_WT[n] \div Second) * Second + work[n].nsec

HandleAsk(n) ==
  /\ pc[n] = "nsec"
  /\ Send({a \in {Answer(work[n].m, n, Torn(n))} : teammates[n][a.client].known})
  /\ Handled(n)
  /\ rcv_WT' = IF latest[n]["TIME_SYNC"] = Nothing
               THEN [rcv_WT EXCEPT ![n] = 0] ELSE rcv_WT
  /\ UNCHANGED <<now, start, teammates, latest, used>>

\* Mutant: the offset is added to the stamp.
RelayAdded(m, d) == 2 * d.count * m.stamp + d.offsets

\* The stamp a state is relayed with: its own minus the mean offset, written as
\* a multiple of 1 / (2 * d.count).
Relay(m, d) == 2 * d.count * m.stamp - d.offsets

\* QuadStateCallback_ publishes the state with the stamp Relay if the teammate
\* has an estimate.  It clears rcv_new_msg at its end, without the lock: a state
\* that arrives during the callback is not looked at and as good as lost.
HandleState(n) ==
  /\ pc[n] = "idle" /\ latest[n]["STATE"] # Nothing
  /\ Empty(n, "STATE")
  /\ UNCHANGED <<now, net, start, teammates, rcv_WT, pc, work, used>>

-----------------------------------------------------------------------------
\* The process ends, at any point, and is started again.
Restart(n) ==
  /\ used.faults < MaxFaults
  /\ used' = [used EXCEPT !.faults = @ + 1]
  /\ start' = [start EXCEPT ![n] = Clock(n)]
  /\ teammates' = [teammates EXCEPT ![n] = [p \in Peer(n) |-> Unknown]]
  /\ latest' = [latest EXCEPT ![n] = [k \in Kind |-> Nothing]]
  /\ rcv_WT' = [rcv_WT EXCEPT ![n] = 0]
  /\ Handled(n)
  /\ UNCHANGED <<now, net>>

Tick ==
  /\ now < MaxTime
  /\ now' = now + 1
  /\ UNCHANGED <<net, start, teammates, latest, rcv_WT, pc, work, used>>

Next ==
  \/ \E n \in Node :
       \/ Broadcast(n) \/ SyncRequest(n) \/ SendState(n)
       \/ HandleIpId(n) \/ HandleAnswer(n)
       \/ TakeAsk(n) \/ ReadNsec(n) \/ HandleAsk(n) \/ HandleState(n)
       \/ Restart(n)
  \/ \E m \in net : Lose(m) \/ Deliver(m)
  \/ Tick

Spec == Init /\ [][Next]_vars

(***************************************************************************)
(* Fairness.  The sending timers go on, datagrams of a kind sent again and *)
(* again get through again and again, and a mailbox that is filled every   *)
(* 100 ms is found full by a timer that runs every millisecond.            *)
(***************************************************************************)
Arrive(n, k) == \E m \in net : m.to = n /\ m.kind = k /\ Deliver(m)

Fairness == (\A n \in Asking : SF_vars(SyncRequest(n))) /\ \A n \in Node :
  /\ SF_vars(Broadcast(n))
  /\ SF_vars(HandleIpId(n))
  /\ SF_vars(HandleAnswer(n) \/ TakeAsk(n) \/ ReadNsec(n) \/ HandleAsk(n))
  /\ \A k \in {"IP_ID", "TIME_SYNC"} : SF_vars(Arrive(n, k))

FairSpec == Spec /\ Fairness
=============================================================================
