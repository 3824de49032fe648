--------------------------- MODULE UdpBridgeProofs ---------------------------
(***************************************************************************)
(* Proofs about the UDP bridge, for any set of UAVs and clocks, any number *)
(* of measurements, and any faults of the network and the processes.       *)
(*                                                                         *)
(* An estimate is good because each of its measurements is: a request is   *)
(* sent before it arrives and its answer is sent before it is handled.     *)
(* That the second stamp of an answer, which is read without a lock and in *)
(* two parts, is no earlier than the request is the part that takes an     *)
(* argument.                                                               *)
(***************************************************************************)
EXTENDS UdpBridgeProps, FiniteSetTheorems, TLAPS

\* The real time at which the clock of n shows t.
Real(t, n) == t - Ahead[n]

\* The messages that can be under way at the time t.
IpIdsSent    == {m \in IpIds : m.from # m.to}
StatesSent   == {m \in States : m.from # m.to}
AsksSent(t)  == {m \in Asks : m.client # m.to /\ Real(m.t1, m.client) <= t}
AnswersSent(t) ==
  {m \in Answers : /\ m.to = m.client /\ m.server # m.client
                   /\ Real(m.t1, m.client) <= Real(m.t2, m.server)
                   /\ Real(m.t3, m.server) <= t}
Sent(t) == IpIdsSent \cup StatesSent \cup AsksSent(t) \cup AnswersSent(t)

\* What n knows of p, where a measurement is off by no more than its delay.
PeerInv(n, p) ==
  LET d == teammates[n][p] IN
    /\ d \in Teammate \cup {Unknown}
    /\ d.known => Abs(d.offsets - 2 * d.count * (Ahead[p] - Ahead[n])) <= d.delays

MailInv(n, k) ==
  latest[n][k] # Nothing =>
    latest[n][k] \in Sent(now) /\ latest[n][k].to = n /\ latest[n][k].kind = k

\* The request of client m arrived when the clock of n showed t, or earlier.
ArrivedBy(m, n, t) == Real(m.t1, m.client) <= Real(t, n)

\* A request in the mailbox or being answered, and the time read for it.
ArrivalInv(n) ==
  /\ latest[n]["TIME_SYNC"] # Nothing =>
       /\ rcv_WT[n] <= Clock(n)
       /\ latest[n]["TIME_SYNC"].client # n =>
            ArrivedBy(latest[n]["TIME_SYNC"], n, rcv_WT[n])
  /\ \/ pc[n] = "idle" /\ work[n] = Nothing
     \/ /\ pc[n] = "TIME_SYNC" /\ rcv_WT[n] <= Clock(n)
        /\ work[n] \in AsksSent(now) /\ work[n].to = n
        /\ ArrivedBy(work[n], n, rcv_WT[n])
     \/ /\ pc[n] = "nsec" /\ rcv_WT[n] <= Clock(n)
        /\ work[n] \in [m : AsksSent(now), nsec : 0 .. Second - 1]
        /\ work[n].m.to = n
        /\ ArrivedBy(work[n].m, n, Torn(n))

NetInv == IsFiniteSet(net) /\ Cardinality(net) <= MaxNet /\ net \subseteq Sent(now)

\* Each variable is a function of the UAVs.
Shape ==
  /\ now \in 0 .. MaxTime
  /\ start \in [Node -> Int] /\ rcv_WT \in [Node -> Int]
  /\ teammates = [n \in Node |-> [p \in Peer(n) |-> teammates[n][p]]]
  /\ latest = [n \in Node |-> [k \in Kind |-> latest[n][k]]]
  /\ pc = [n \in Node |-> pc[n]] /\ work = [n \in Node |-> work[n]]

\* The inductive invariant.
BridgeInv ==
  /\ Shape /\ NetInv
  /\ \A n \in Node :
       /\ \A p \in Peer(n) : PeerInv(n, p)
       /\ \A k \in Kind : MailInv(n, k)
       /\ ArrivalInv(n)

-----------------------------------------------------------------------------
(* Messages.                                                                *)

LEMMA ClockType == ASSUME Shape, NEW n \in Node
                   PROVE  now \in Nat /\ Ahead[n] \in Int /\ Clock(n) \in Int
  BY BridgeAssumption DEF Shape, Clock

LEMMA SentTypes ==
  ASSUME NEW t
  PROVE  /\ Sent(t) \subseteq Message
         /\ \A m \in Sent(t) : m.to \in Node /\ m.kind \in Kind /\ m # Nothing
  BY DEF Sent, IpIdsSent, StatesSent, AsksSent, AnswersSent, Message, IpIds, Asks,
         Answers, States, Kind, Nothing

\* What a message in the mailbox for its kind can be.
LEMMA SentKinds ==
  ASSUME NEW t, NEW m \in Sent(t)
  PROVE  /\ m.kind = "IP_ID" => m \in IpIdsSent
         /\ m.kind = "STATE" => m \in StatesSent
         /\ m.kind = "TIME_SYNC" /\ m.client = m.to => m \in AnswersSent(t)
         /\ m.kind = "TIME_SYNC" /\ m.client # m.to => m \in AsksSent(t)
  BY DEF Sent, IpIdsSent, StatesSent, AsksSent, AnswersSent, IpIds, Asks, Answers,
         States

\* A message that was sent stays one that was sent.
LEMMA SentLasts ==
  ASSUME NEW s \in Int, NEW t \in Int, s <= t
  PROVE  Sent(s) \subseteq Sent(t) /\ AsksSent(s) \subseteq AsksSent(t)
  <1>1. \A m \in Asks \cup Answers : Real(m.t1, m.client) \in Int
    BY BridgeAssumption DEF Asks, Answers, Real
  <1>2. \A m \in Answers : Real(m.t3, m.server) \in Int
    BY BridgeAssumption DEF Answers, Real
  <1>3. AsksSent(s) \subseteq AsksSent(t)  BY <1>1 DEF AsksSent
  <1>4. AnswersSent(s) \subseteq AnswersSent(t)  BY <1>2 DEF AnswersSent
  <1>. QED  BY <1>3, <1>4 DEF Sent

-----------------------------------------------------------------------------
(* Arithmetic.                                                              *)

\* The whole seconds of a later time and the rest of an earlier one are no
\* earlier than that.
LEMMA TornLater ==
  ASSUME NEW s \in Int, NEW t \in Int, s <= t
  PROVE  /\ s % Second \in 0 .. Second - 1
         /\ (t \div Second) * Second + (s % Second) \in Int
         /\ (t \div Second) * Second + (s % Second) >= s
  <1>1. Second \in Nat \ {0}  BY BridgeAssumption
  <1>. DEFINE p == s \div Second
              q == t \div Second
  <1>2. p \in Int /\ s % Second \in 0 .. Second - 1 /\ s = p * Second + (s % Second)
    BY <1>1
  <1>3. q \in Int /\ t = q * Second + (t % Second) /\ t % Second \in 0 .. Second - 1
    BY <1>1
  <1>. HIDE DEF p, q
  <1>4. p <= q
    <2>1. SUFFICES ASSUME q + 1 <= p PROVE FALSE
      BY <1>2, <1>3
    <2>2. (q + 1) * Second <= p * Second  BY <1>1, <1>2, <1>3, <2>1
    <2>. QED  BY <1>1, <1>2, <1>3, <2>2
  <1>5. p * Second <= q * Second  BY <1>1, <1>2, <1>3, <1>4
  <1>6. q * Second \in Int /\ p * Second \in Int  BY <1>1, <1>2, <1>3
  <1>. QED  BY <1>2, <1>5, <1>6 DEF q

\* Whole seconds and a rest grow with the time the seconds are of.
LEMMA WholeSeconds ==
  ASSUME NEW s \in Int, NEW t \in Int, s <= t, NEW rest \in 0 .. Second - 1
  PROVE  /\ (s \div Second) * Second + rest \in Int
         /\ (t \div Second) * Second + rest \in Int
         /\ (s \div Second) * Second + rest <= (t \div Second) * Second + rest
  <1>1. Second \in Nat \ {0}  BY BridgeAssumption
  <1>2. (s \div Second) * Second \in Int /\ (t \div Second) * Second \in Int
    BY <1>1
  <1>3. (s \div Second) * Second <= (t \div Second) * Second
    BY TornLater, <1>1, <1>2
  <1>. QED  BY <1>2, <1>3

\* A teammate after one more measurement.
LEMMA MeasuredFields ==
  ASSUME NEW d \in Teammate, NEW m, NEW t4,
         NEW c, c = d.count + 1,
         NEW o, o = d.offsets + (m.t2 - m.t1) - (t4 - m.t3),
         NEW w, w = d.delays + (m.t2 - m.t1) + (t4 - m.t3)
  PROVE  LET e == Measured(d, m, t4) IN
           /\ e.count = c /\ e.offsets = o /\ e.delays = w
           /\ c \in 0 .. Samples /\ o \in Int /\ w \in Int => e \in Teammate
  <1>1. Measured(d, m, t4) = [d EXCEPT !.count = c, !.offsets = o, !.delays = w]
    BY DEF Measured, Teammate
  <1>2. /\ [d EXCEPT !.count = c, !.offsets = o, !.delays = w].count = c
        /\ [d EXCEPT !.count = c, !.offsets = o, !.delays = w].offsets = o
        /\ [d EXCEPT !.count = c, !.offsets = o, !.delays = w].delays = w
    BY DEF Teammate
  <1>3. ASSUME c \in 0 .. Samples, o \in Int, w \in Int
        PROVE  [d EXCEPT !.count = c, !.offsets = o, !.delays = w] \in Teammate
    BY <1>3 DEF Teammate
  <1>. QED  BY <1>1, <1>2, <1>3

-----------------------------------------------------------------------------
(* Sending.                                                                 *)

\* One message to each of some UAVs is finitely many.
LEMMA FinitelyMany ==
  ASSUME NEW n \in Node, NEW S \in SUBSET Node
  PROVE  /\ IsFiniteSet({IpId(n, p) : p \in S})
         /\ IsFiniteSet({Ask(n, p) : p \in S})
         /\ IsFiniteSet({State(n, p) : p \in S})
  <1>1. IsFiniteSet(S)  BY BridgeAssumption, FS_Subset
  <1>2. ASSUME NEW f, f = [p \in S |-> f[p]]
        PROVE  IsFiniteSet({f[p] : p \in S})
    <2>1. f \in Surjection(S, {f[p] : p \in S})  BY <1>2 DEF Surjection
    <2>. QED  BY <1>1, <2>1, FS_Surjection
  <1>3. IsFiniteSet({IpId(n, p) : p \in S})
    <2>. DEFINE f == [p \in S |-> IpId(n, p)]
    <2>1. IsFiniteSet({f[p] : p \in S})  BY <1>2
    <2>2. {f[p] : p \in S} = {IpId(n, p) : p \in S}  OBVIOUS
    <2>. QED  BY <2>1, <2>2
  <1>4. IsFiniteSet({Ask(n, p) : p \in S})
    <2>. DEFINE f == [p \in S |-> Ask(n, p)]
    <2>1. IsFiniteSet({f[p] : p \in S})  BY <1>2
    <2>2. {f[p] : p \in S} = {Ask(n, p) : p \in S}  OBVIOUS
    <2>. QED  BY <2>1, <2>2
  <1>5. IsFiniteSet({State(n, p) : p \in S})
    <2>. DEFINE f == [p \in S |-> State(n, p)]
    <2>1. IsFiniteSet({f[p] : p \in S})  BY <1>2
    <2>2. {f[p] : p \in S} = {State(n, p) : p \in S}  OBVIOUS
    <2>. QED  BY <2>1, <2>2
  <1>. QED  BY <1>3, <1>4, <1>5

LEMMA NetAfterSend ==
  ASSUME BridgeInv, NEW msgs, IsFiniteSet(msgs), msgs \subseteq Sent(now),
         Send(msgs), now' = now
  PROVE  NetInv'
  <1>1. IsFiniteSet(net \cup msgs)  BY FS_Union DEF BridgeInv, NetInv
  <1>. QED  BY <1>1 DEF BridgeInv, NetInv, Send

\* A step that changes nothing but the net.
LEMMA OnlyNet ==
  ASSUME BridgeInv, NetInv',
         UNCHANGED <<now, start, teammates, latest, rcv_WT, pc, work>>
  PROVE  BridgeInv'
  <1>1. Shape'  BY DEF BridgeInv, Shape
  <1>2. ASSUME NEW n \in Node, NEW p \in Peer(n) PROVE PeerInv(n, p)'
    BY DEF BridgeInv, PeerInv
  <1>3. ASSUME NEW n \in Node, NEW k \in Kind PROVE MailInv(n, k)'
    BY DEF BridgeInv, MailInv
  <1>4. ASSUME NEW n \in Node PROVE ArrivalInv(n)'
    <2>1. ArrivalInv(n)  BY DEF BridgeInv
    <2>. QED  BY <2>1 DEF ArrivalInv, Clock, Torn
  <1>. QED  BY <1>1, <1>2, <1>3, <1>4 DEF BridgeInv

LEMMA SendingSteps ==
  ASSUME BridgeInv, NEW n \in Node, Broadcast(n) \/ SyncRequest(n) \/ SendState(n)
  PROVE  BridgeInv'
  <1>. DEFINE asked == {q \in Peer(n) : teammates[n][q].known /\ ~Synced(teammates[n][q])}
              known == {q \in Peer(n) : teammates[n][q].known}
  <1>1. /\ now \in Int /\ Clock(n) \in Int /\ Clock(n) = now + Ahead[n]
        /\ Ahead[n] \in Int /\ start[n] \in Int
    BY ClockType DEF BridgeInv, Shape, Clock
  <1>2. \A p \in Peer(n) : IpId(n, p) \in Sent(now) /\ State(n, p) \in Sent(now)
    BY <1>1 DEF Peer, IpId, State, Sent, IpIdsSent, StatesSent, IpIds, States
  <1>3. \A p \in Peer(n) : Ask(n, p) \in Sent(now)
    BY <1>1 DEF Peer, Ask, Sent, AsksSent, Asks, Real
  <1>4. CASE Broadcast(n)
    <2>1. IsFiniteSet({IpId(n, p) : p \in Peer(n)})  BY FinitelyMany DEF Peer
    <2>2. NetInv'  BY <1>2, <1>4, <2>1, NetAfterSend DEF Broadcast
    <2>. QED  BY <1>4, <2>2, OnlyNet DEF Broadcast
  <1>5. CASE SyncRequest(n)
    <2>1. IsFiniteSet({Ask(n, p) : p \in asked})  BY FinitelyMany DEF Peer
    <2>2. {Ask(n, p) : p \in asked} \subseteq Sent(now)  BY <1>3
    <2>3. Send({Ask(n, p) : p \in asked}) /\ now' = now  BY <1>5 DEF SyncRequest
    <2>4. NetInv'  BY <2>1, <2>2, <2>3, NetAfterSend
    <2>. QED  BY <1>5, <2>4, OnlyNet DEF SyncRequest
  <1>6. CASE SendState(n)
    <2>1. IsFiniteSet({State(n, p) : p \in known})  BY FinitelyMany DEF Peer
    <2>2. {State(n, p) : p \in known} \subseteq Sent(now)  BY <1>2
    <2>3. Send({State(n, p) : p \in known}) /\ now' = now  BY <1>6 DEF SendState
    <2>4. NetInv'  BY <2>1, <2>2, <2>3, NetAfterSend
    <2>. QED  BY <1>6, <2>4, OnlyNet DEF SendState
  <1>. QED  BY <1>4, <1>5, <1>6

-----------------------------------------------------------------------------
(* The network and time.                                                    *)

LEMMA LoseStep ==
  ASSUME BridgeInv, NEW m \in net, Lose(m)
  PROVE  BridgeInv'
  <1>1. /\ IsFiniteSet(net \ {m})
        /\ Cardinality(net \ {m}) = Cardinality(net) - 1
        /\ Cardinality(net) \in Nat
    BY FS_RemoveElement, FS_CardinalityType DEF BridgeInv, NetInv
  <1>2. MaxNet \in Nat  BY BridgeAssumption
  <1>3. NetInv'  BY <1>1, <1>2 DEF BridgeInv, NetInv, Lose
  <1>. QED  BY <1>3, OnlyNet DEF Lose

LEMMA DeliverStep ==
  ASSUME BridgeInv, NEW m \in net, Deliver(m)
  PROVE  BridgeInv'
  <1>1. m \in Sent(now) /\ m.to \in Node /\ m.kind \in Kind /\ m # Nothing
    BY SentTypes DEF BridgeInv, NetInv
  <1>2. /\ UNCHANGED <<now, start, teammates, pc, work>>
        /\ latest' = [latest EXCEPT ![m.to][m.kind] = m]
        /\ rcv_WT' = IF m.kind = "TIME_SYNC"
                     THEN [rcv_WT EXCEPT ![m.to] = Clock(m.to)] ELSE rcv_WT
        /\ net' = net \ {m} \/ net' = net
    BY DEF Deliver
  <1>3. \A n \in Node : now \in Int /\ Ahead[n] \in Int /\ Clock(n) = now + Ahead[n]
                        /\ rcv_WT[n] \in Int
    BY ClockType DEF BridgeInv, Shape, Clock
  <1>4. Shape'
    <2>1. rcv_WT' \in [Node -> Int]
      <3>1. rcv_WT \in [Node -> Int]  BY DEF BridgeInv, Shape
      <3>2. Clock(m.to) \in Int  BY <1>1, <1>3
      <3>. QED  BY <1>1, <1>2, <3>1, <3>2
    <2>2. latest' = [n \in Node |-> [k \in Kind |-> latest'[n][k]]]
      BY <1>1, <1>2 DEF BridgeInv, Shape
    <2>. QED  BY <1>2, <2>1, <2>2 DEF BridgeInv, Shape
  <1>5. NetInv'
    <2>1. /\ IsFiniteSet(net \ {m})
          /\ Cardinality(net \ {m}) = Cardinality(net) - 1
          /\ Cardinality(net) \in Nat
      BY FS_RemoveElement, FS_CardinalityType DEF BridgeInv, NetInv
    <2>2. MaxNet \in Nat  BY BridgeAssumption
    <2>3. CASE net' = net \ {m}
      BY <1>2, <2>1, <2>2, <2>3 DEF BridgeInv, NetInv
    <2>4. CASE net' = net
      BY <1>2, <2>4 DEF BridgeInv, NetInv
    <2>. QED  BY <1>2, <2>3, <2>4
  <1>6. ASSUME NEW n \in Node, NEW p \in Peer(n) PROVE PeerInv(n, p)'
    BY <1>2 DEF BridgeInv, PeerInv
  <1>7. \A n \in Node : \A k \in Kind :
          latest'[n][k] = IF n = m.to /\ k = m.kind THEN m ELSE latest[n][k]
    BY <1>1, <1>2 DEF BridgeInv, Shape
  <1>8. ASSUME NEW n \in Node, NEW k \in Kind PROVE MailInv(n, k)'
    BY <1>1, <1>2, <1>7 DEF BridgeInv, MailInv
  <1>9. ASSUME NEW n \in Node PROVE ArrivalInv(n)'
    <2>1. ArrivalInv(n)  BY DEF BridgeInv
    <2>2. "TIME_SYNC" \in Kind  BY DEF Kind
    <2>3. CASE ~(m.to = n /\ m.kind = "TIME_SYNC")
      <3>1. rcv_WT'[n] = rcv_WT[n] /\ latest'[n]["TIME_SYNC"] = latest[n]["TIME_SYNC"]
        BY <1>1, <1>2, <1>7, <2>2, <2>3 DEF BridgeInv, Shape
      <3>. QED  BY <1>2, <2>1, <3>1 DEF ArrivalInv, Clock, Torn
    <2>4. CASE m.to = n /\ m.kind = "TIME_SYNC"
      <3>1. rcv_WT'[n] = now + Ahead[n] /\ latest'[n]["TIME_SYNC"] = m
        BY <1>1, <1>2, <1>3, <1>7, <2>2, <2>4 DEF BridgeInv, Shape
      <3>2. rcv_WT'[n] <= Clock(n)' /\ Clock(n)' = now + Ahead[n]
        BY <1>2, <1>3, <3>1 DEF Clock
      <3>3. m.client # n => ArrivedBy(m, n, rcv_WT'[n])
        <4>1. m.client # n => m \in AsksSent(now)  BY <1>1, <2>4, SentKinds
        <4>. QED  BY <1>3, <3>1, <4>1 DEF AsksSent, ArrivedBy, Real
      <3>4. CASE pc[n] = "idle"
        BY <1>2, <2>1, <3>1, <3>2, <3>3, <3>4 DEF ArrivalInv
      <3>5. CASE pc[n] = "TIME_SYNC"
        <4>1. work[n] \in AsksSent(now) /\ work[n].to = n
          BY <2>1, <3>5 DEF ArrivalInv
        <4>2. ArrivedBy(work[n], n, rcv_WT'[n])
          BY <1>3, <3>1, <4>1 DEF AsksSent, ArrivedBy, Real
        <4>. QED  BY <1>2, <3>1, <3>2, <3>3, <3>5, <4>1, <4>2 DEF ArrivalInv
      <3>6. CASE pc[n] = "nsec"
        <4>1. /\ rcv_WT[n] <= Clock(n) /\ work[n].m.to = n
              /\ work[n] \in [m : AsksSent(now), nsec : 0 .. Second - 1]
              /\ ArrivedBy(work[n].m, n, Torn(n))
          BY <2>1, <3>6 DEF ArrivalInv
        <4>2. rcv_WT[n] <= rcv_WT'[n] /\ rcv_WT'[n] \in Int
          BY <1>3, <3>1, <4>1
        <4>3. Torn(n) <= Torn(n)' /\ Torn(n) \in Int /\ Torn(n)' \in Int
          BY <1>2, <1>3, <4>1, <4>2, WholeSeconds DEF Torn
        <4>4. ArrivedBy(work[n].m, n, Torn(n)')
          <5>1. Real(work[n].m.t1, work[n].m.client) \in Int
            BY <4>1, BridgeAssumption DEF Real, AsksSent, Asks
          <5>. QED  BY <1>3, <4>1, <4>3, <5>1 DEF ArrivedBy, Real
        <4>. QED  BY <1>2, <3>1, <3>2, <3>3, <3>6, <4>1, <4>4 DEF ArrivalInv
      <3>. QED  BY <2>1, <3>4, <3>5, <3>6 DEF ArrivalInv
    <2>. QED  BY <2>3, <2>4
  <1>. QED  BY <1>4, <1>5, <1>6, <1>8, <1>9 DEF BridgeInv

LEMMA TickStep ==
  ASSUME BridgeInv, Tick
  PROVE  BridgeInv'
  <1>1. /\ UNCHANGED <<net, start, teammates, latest, rcv_WT, pc, work>>
        /\ now' = now + 1 /\ now < MaxTime
    BY DEF Tick
  <1>2. now \in Int /\ now' \in Int /\ now <= now' /\ MaxTime \in Nat
    BY <1>1, BridgeAssumption DEF BridgeInv, Shape
  <1>3. Sent(now) \subseteq Sent(now') /\ AsksSent(now) \subseteq AsksSent(now')
    BY <1>2, SentLasts
  <1>4. Shape'  BY <1>1, <1>2 DEF BridgeInv, Shape
  <1>5. NetInv'  BY <1>1, <1>3 DEF BridgeInv, NetInv
  <1>6. ASSUME NEW n \in Node, NEW p \in Peer(n) PROVE PeerInv(n, p)'
    BY <1>1 DEF BridgeInv, PeerInv
  <1>7. ASSUME NEW n \in Node, NEW k \in Kind PROVE MailInv(n, k)'
    BY <1>1, <1>3 DEF BridgeInv, MailInv
  <1>8. ASSUME NEW n \in Node PROVE ArrivalInv(n)'
    <2>1. ArrivalInv(n)  BY DEF BridgeInv
    <2>2. rcv_WT[n] <= Clock(n) => rcv_WT[n] <= Clock(n)'
      BY <1>1, <1>2, BridgeAssumption DEF BridgeInv, Shape, Clock
    <2>3. Torn(n)' = Torn(n)  BY <1>1 DEF Torn
    <2>4. \A w : w \in [m : AsksSent(now), nsec : 0 .. Second - 1] =>
                   w \in [m : AsksSent(now'), nsec : 0 .. Second - 1]
      BY <1>3
    <2>. QED  BY <1>1, <1>3, <2>1, <2>2, <2>3, <2>4 DEF ArrivalInv
  <1>. QED  BY <1>4, <1>5, <1>6, <1>7, <1>8 DEF BridgeInv

-----------------------------------------------------------------------------
(* The callbacks.                                                           *)

\* What a callback that takes the message of kind k out of its mailbox leaves.
LEMMA Emptied ==
  ASSUME BridgeInv, NEW n \in Node, NEW k \in Kind, Empty(n, k)
  PROVE  /\ latest' = [u \in Node |-> [j \in Kind |-> latest'[u][j]]]
         /\ \A u \in Node, j \in Kind :
              latest'[u][j] = IF u = n /\ j = k THEN Nothing ELSE latest[u][j]
  <1>1. latest = [u \in Node |-> [j \in Kind |-> latest[u][j]]]
    BY DEF BridgeInv, Shape
  <1>2. latest' = [latest EXCEPT ![n][k] = Nothing]  BY DEF Empty
  <1>3. latest' = [latest EXCEPT ![n] = [latest[n] EXCEPT ![k] = Nothing]]
    BY <1>1, <1>2
  <1>4. latest[n] = [j \in Kind |-> latest[n][j]]  BY <1>1
  <1>5. \A u \in Node : latest'[u] = IF u = n THEN [latest[n] EXCEPT ![k] = Nothing]
                                    ELSE latest[u]
    BY <1>1, <1>3
  <1>6. \A u \in Node, j \in Kind :
          latest'[u][j] = IF u = n /\ j = k THEN Nothing ELSE latest[u][j]
    BY <1>4, <1>5
  <1>7. latest' = [u \in Node |-> [j \in Kind |-> latest'[u][j]]]
    <2>1. \A u \in Node : latest[u] = [j \in Kind |-> latest[u][j]]  BY <1>1
    <2>2. \A u \in Node : latest'[u] = [j \in Kind |-> latest'[u][j]]
      BY <1>5, <2>1
    <2>3. latest' = [u \in Node |-> latest'[u]]  BY <1>1, <1>3
    <2>. QED  BY <2>2, <2>3
  <1>. QED  BY <1>6, <1>7

\* The mailboxes are in order after a message was taken out of one.
LEMMA EmptiedMail ==
  ASSUME BridgeInv, NEW n \in Node, NEW k \in Kind, Empty(n, k), now' = now,
         NEW u \in Node, NEW j \in Kind
  PROVE  MailInv(u, j)'
  <1>1. latest'[u][j] = Nothing \/ latest'[u][j] = latest[u][j]  BY Emptied
  <1>2. MailInv(u, j)  BY DEF BridgeInv
  <1>. QED  BY <1>1, <1>2 DEF MailInv

\* What is being answered is in order after a message was taken out of a
\* mailbox, where the time of its arrival was not forgotten.
LEMMA EmptiedArrival ==
  ASSUME BridgeInv, NEW n \in Node, NEW k \in Kind, Empty(n, k),
         UNCHANGED <<now, pc, work>>,
         NEW u \in Node, \/ rcv_WT'[u] = rcv_WT[u]
                         \/ u = n /\ k = "TIME_SYNC" /\ pc[n] = "idle"
  PROVE  ArrivalInv(u)'
  <1>1. ArrivalInv(u)  BY DEF BridgeInv
  <1>2. /\ latest'[u]["TIME_SYNC"] = Nothing \/ latest'[u]["TIME_SYNC"] = latest[u]["TIME_SYNC"]
        /\ u = n /\ k = "TIME_SYNC" => latest'[u]["TIME_SYNC"] = Nothing
    BY Emptied DEF Kind
  <1>3. CASE rcv_WT'[u] = rcv_WT[u]
    <2>1. Torn(u)' = Torn(u) /\ Clock(u)' = Clock(u)  BY <1>3 DEF Torn, Clock
    <2>. QED  BY <1>1, <1>2, <1>3, <2>1 DEF ArrivalInv
  <1>4. CASE u = n /\ k = "TIME_SYNC" /\ pc[n] = "idle"
    BY <1>1, <1>2, <1>4 DEF ArrivalInv
  <1>. QED  BY <1>3, <1>4

\* What a callback that changes what n knows of p leaves.
Learns(n, p, d) == teammates' = [teammates EXCEPT ![n][p] = d]

LEMMA OneLearnt ==
  ASSUME Shape, NEW n \in Node, NEW p \in Peer(n), NEW d, Learns(n, p, d)
  PROVE  /\ teammates' = [u \in Node |-> [q \in Peer(u) |-> teammates'[u][q]]]
         /\ \A u \in Node : \A q \in Peer(u) :
              teammates'[u][q] = IF u = n /\ q = p THEN d ELSE teammates[u][q]
  <1>1. teammates = [u \in Node |-> [q \in Peer(u) |-> teammates[u][q]]]
    BY DEF Shape
  <1>2. teammates' = [teammates EXCEPT ![n] = [teammates[n] EXCEPT ![p] = d]]
    BY <1>1 DEF Learns
  <1>3. \A u \in Node : teammates[u] = [q \in Peer(u) |-> teammates[u][q]]
    BY <1>1
  <1>4. \A u \in Node : teammates'[u] = IF u = n THEN [teammates[n] EXCEPT ![p] = d]
                                       ELSE teammates[u]
    BY <1>1, <1>2
  <1>5. \A u \in Node : \A q \in Peer(u) :
          teammates'[u][q] = IF u = n /\ q = p THEN d ELSE teammates[u][q]
    BY <1>3, <1>4
  <1>6. \A u \in Node : teammates'[u] = [q \in Peer(u) |-> teammates'[u][q]]
    BY <1>3, <1>4
  <1>7. teammates' = [u \in Node |-> teammates'[u]]  BY <1>1, <1>2
  <1>. QED  BY <1>5, <1>6, <1>7

LEMMA HandleIpIdStep ==
  ASSUME BridgeInv, NEW n \in Node, HandleIpId(n)
  PROVE  BridgeInv'
  <1>. DEFINE m == latest[n]["IP_ID"]
  <1>1. /\ UNCHANGED <<now, net, start, rcv_WT, pc, work>>
        /\ Empty(n, "IP_ID") /\ m # Nothing
        /\ \/ teammates' = teammates
           \/ Learns(n, m.from, Found(m.start))
    BY DEF HandleIpId, Learns
  <1>2. "IP_ID" \in Kind  BY DEF Kind
  <1>3. m \in IpIdsSent /\ m.to = n
    BY <1>1, <1>2, SentKinds DEF BridgeInv, MailInv
  <1>4. m.from \in Peer(n) /\ m.start \in Int
    BY <1>3 DEF IpIdsSent, IpIds, Peer
  <1>5. /\ teammates' = [u \in Node |-> [p \in Peer(u) |-> teammates'[u][p]]]
        /\ \A u \in Node : \A p \in Peer(u) :
             \/ teammates'[u][p] = teammates[u][p]
             \/ teammates'[u][p] = Found(m.start)
    <2>1. CASE teammates' = teammates  BY <2>1 DEF BridgeInv, Shape
    <2>2. CASE Learns(n, m.from, Found(m.start))
      BY <1>4, <2>2, OneLearnt DEF BridgeInv
    <2>. QED  BY <1>1, <2>1, <2>2
  <1>6. Shape'  BY <1>1, <1>2, <1>5, Emptied DEF BridgeInv, Shape
  <1>7. NetInv'  BY <1>1 DEF BridgeInv, NetInv
  <1>8. ASSUME NEW u \in Node, NEW p \in Peer(u) PROVE PeerInv(u, p)'
    <2>1. CASE teammates'[u][p] = teammates[u][p]
      BY <2>1 DEF BridgeInv, PeerInv
    <2>2. CASE teammates'[u][p] = Found(m.start)
      <3>1. Found(m.start) \in Teammate
        BY <1>4, BridgeAssumption DEF Found, Teammate
      <3>2. Ahead[p] - Ahead[u] \in Int  BY BridgeAssumption DEF Peer
      <3>3. Abs(0 - 2 * 0 * (Ahead[p] - Ahead[u])) <= 0  BY <3>2 DEF Abs
      <3>. QED  BY <2>2, <3>1, <3>3 DEF PeerInv, Found
    <2>. QED  BY <1>5, <2>1, <2>2
  <1>9. ASSUME NEW u \in Node, NEW k \in Kind PROVE MailInv(u, k)'
    BY <1>1, <1>2, EmptiedMail
  <1>10. ASSUME NEW u \in Node PROVE ArrivalInv(u)'
    BY <1>1, <1>2, EmptiedArrival
  <1>. QED  BY <1>6, <1>7, <1>8, <1>9, <1>10 DEF BridgeInv

\* An answer is handled no earlier than it was sent: the measurement is off by
\* no more than its delay.
LEMMA MeasuredWell ==
  ASSUME BridgeInv, NEW n \in Node, NEW m \in AnswersSent(now), m.to = n,
         PeerInv(n, m.server), teammates[n][m.server].known,
         ~Synced(teammates[n][m.server])
  PROVE  LET e == Measured(teammates[n][m.server], m, Clock(n)) IN
         /\ e \in Teammate
         /\ Abs(e.offsets - 2 * e.count * (Ahead[m.server] - Ahead[n])) <= e.delays
  <1>. DEFINE p == m.server
              d == teammates[n][p]
              e == Measured(d, m, Clock(n))
              ahead == Ahead[p] - Ahead[n]
              a == Real(m.t2, p) - Real(m.t1, n)
              b == now - Real(m.t3, p)
              x == 2 * d.count * ahead
  <1>1. /\ p \in Node /\ m.t1 \in Int /\ m.t2 \in Int /\ m.t3 \in Int
        /\ m.client = n /\ Real(m.t1, n) <= Real(m.t2, p) /\ Real(m.t3, p) <= now
    BY DEF AnswersSent, Answers
  <1>2. Ahead[p] \in Int /\ Ahead[n] \in Int  BY <1>1, BridgeAssumption
  <1>3. now \in Int /\ Clock(n) = now + Ahead[n]  BY ClockType DEF BridgeInv, Clock
  <1>4. d \in Teammate /\ Abs(d.offsets - x) <= d.delays
    BY DEF PeerInv, Unknown
  <1>5. /\ d.start \in Int /\ d.offsets \in Int /\ d.delays \in Int
        /\ d.known = TRUE /\ d.count \in 0 .. Samples /\ Samples \in Nat
    BY <1>4, BridgeAssumption DEF Teammate
  <1>6. d.count \in Nat /\ d.count < Samples  BY <1>5 DEF Synced
  <1>7. a \in Nat /\ b \in Nat /\ ahead \in Int
    BY <1>1, <1>2, <1>3 DEF Real
  <1>8. m.t2 - m.t1 = a + ahead /\ Clock(n) - m.t3 = b - ahead
    BY <1>1, <1>2, <1>3 DEF Real
  <1>9. x \in Int /\ 2 * (d.count + 1) * ahead = x + 2 * ahead
    <2>. HIDE DEF ahead
    <2>. QED  BY <1>6, <1>7
  <1>. DEFINE c == d.count + 1
              o == d.offsets + (a + ahead) - (b - ahead)
              w == d.delays + (a + ahead) + (b - ahead)
  <1>10. c \in 0 .. Samples /\ o \in Int /\ w \in Int
    <2>. HIDE DEF d, a, b, ahead
    <2>. QED  BY <1>5, <1>6, <1>7
  <1>11. Abs(o - 2 * c * ahead) <= w
    <2>. HIDE DEF d, a, b, ahead, x
    <2>. QED  BY <1>4, <1>5, <1>7, <1>9 DEF Abs
  <1>12. e \in Teammate /\ e.count = c /\ e.offsets = o /\ e.delays = w
    <2>1. /\ c = d.count + 1
          /\ o = d.offsets + (m.t2 - m.t1) - (Clock(n) - m.t3)
          /\ w = d.delays + (m.t2 - m.t1) + (Clock(n) - m.t3)
      <3>. HIDE DEF d, a, b, ahead
      <3>. QED  BY <1>8
    <2>. HIDE DEF c, o, w, d
    <2>. QED  BY <1>4, <1>10, <2>1, MeasuredFields
  <1>. HIDE DEF c, o, w, e, ahead
  <1>13. Abs(e.offsets - 2 * e.count * ahead) <= e.delays
    BY <1>11, <1>12
  <1>. QED  BY <1>12, <1>13 DEF e, d, ahead

LEMMA HandleAnswerStep ==
  ASSUME BridgeInv, NEW n \in Node, HandleAnswer(n)
  PROVE  BridgeInv'
  <1>. DEFINE m == latest[n]["TIME_SYNC"]
              d == teammates[n][m.server]
  <1>1. /\ UNCHANGED <<now, net, start, pc, work>>
        /\ Empty(n, "TIME_SYNC") /\ pc[n] = "idle" /\ m # Nothing /\ m.client = n
        /\ rcv_WT' = [rcv_WT EXCEPT ![n] = 0]
        /\ \/ teammates' = teammates
           \/ /\ d.known /\ ~Synced(d)
              /\ Learns(n, m.server, Measured(d, m, Clock(n)))
    BY DEF HandleAnswer, Learns
  <1>2. "TIME_SYNC" \in Kind  BY DEF Kind
  <1>3. m \in AnswersSent(now) /\ m.to = n
    BY <1>1, <1>2, SentKinds DEF BridgeInv, MailInv
  <1>4. m.server \in Peer(n)
    BY <1>1, <1>3 DEF AnswersSent, Answers, Peer
  <1>5. /\ teammates' = [u \in Node |-> [p \in Peer(u) |-> teammates'[u][p]]]
        /\ \A u \in Node : \A p \in Peer(u) :
             \/ teammates'[u][p] = teammates[u][p]
             \/ /\ u = n /\ p = m.server /\ d.known /\ ~Synced(d)
                /\ teammates'[u][p] = Measured(d, m, Clock(n))
    <2>1. CASE teammates' = teammates  BY <2>1 DEF BridgeInv, Shape
    <2>2. CASE d.known /\ ~Synced(d) /\ Learns(n, m.server, Measured(d, m, Clock(n)))
      BY <1>4, <2>2, OneLearnt DEF BridgeInv
    <2>. QED  BY <1>1, <2>1, <2>2
  <1>6. rcv_WT' \in [Node -> Int] /\ \A u \in Node : u # n => rcv_WT'[u] = rcv_WT[u]
    <2>1. rcv_WT \in [Node -> Int]  BY DEF BridgeInv, Shape
    <2>. QED  BY <1>1, <2>1
  <1>7. Shape'  BY <1>1, <1>2, <1>5, <1>6, Emptied DEF BridgeInv, Shape
  <1>8. NetInv'  BY <1>1 DEF BridgeInv, NetInv
  <1>9. ASSUME NEW u \in Node, NEW p \in Peer(u) PROVE PeerInv(u, p)'
    <2>1. CASE teammates'[u][p] = teammates[u][p]
      BY <2>1 DEF BridgeInv, PeerInv
    <2>2. CASE /\ u = n /\ p = m.server /\ d.known /\ ~Synced(d)
               /\ teammates'[u][p] = Measured(d, m, Clock(n))
      <3>1. PeerInv(n, m.server)  BY <1>4 DEF BridgeInv
      <3>. QED  BY <1>3, <2>2, <3>1, MeasuredWell DEF PeerInv
    <2>. QED  BY <1>5, <2>1, <2>2
  <1>10. ASSUME NEW u \in Node, NEW k \in Kind PROVE MailInv(u, k)'
    BY <1>1, <1>2, EmptiedMail
  <1>11. ASSUME NEW u \in Node PROVE ArrivalInv(u)'
    BY <1>1, <1>2, <1>6, EmptiedArrival
  <1>. QED  BY <1>7, <1>8, <1>9, <1>10, <1>11 DEF BridgeInv

LEMMA HandleStateStep ==
  ASSUME BridgeInv, NEW n \in Node, HandleState(n)
  PROVE  BridgeInv'
  <1>1. /\ UNCHANGED <<now, net, start, teammates, rcv_WT, pc, work>>
        /\ Empty(n, "STATE") /\ "STATE" \in Kind
    BY DEF HandleState, Kind
  <1>2. Shape'  BY <1>1, Emptied DEF BridgeInv, Shape
  <1>3. NetInv'  BY <1>1 DEF BridgeInv, NetInv
  <1>4. ASSUME NEW u \in Node, NEW p \in Peer(u) PROVE PeerInv(u, p)'
    BY <1>1 DEF BridgeInv, PeerInv
  <1>5. ASSUME NEW u \in Node, NEW k \in Kind PROVE MailInv(u, k)'
    BY <1>1, EmptiedMail
  <1>6. ASSUME NEW u \in Node PROVE ArrivalInv(u)'
    BY <1>1, EmptiedArrival
  <1>. QED  BY <1>2, <1>3, <1>4, <1>5, <1>6 DEF BridgeInv

LEMMA TakeAskStep ==
  ASSUME BridgeInv, NEW n \in Node, TakeAsk(n)
  PROVE  BridgeInv'
  <1>. DEFINE m == latest[n]["TIME_SYNC"]
  <1>1. /\ UNCHANGED <<now, net, start, teammates, rcv_WT>>
        /\ Empty(n, "TIME_SYNC") /\ pc[n] = "idle" /\ m # Nothing /\ m.client # n
        /\ pc' = [pc EXCEPT ![n] = "TIME_SYNC"] /\ work' = [work EXCEPT ![n] = m]
    BY DEF TakeAsk
  <1>2. "TIME_SYNC" \in Kind  BY DEF Kind
  <1>3. m \in AsksSent(now) /\ m.to = n
    BY <1>1, <1>2, SentKinds DEF BridgeInv, MailInv
  <1>4. rcv_WT[n] <= Clock(n) /\ ArrivedBy(m, n, rcv_WT[n])
    BY <1>1 DEF BridgeInv, ArrivalInv
  <1>5. /\ pc' = [u \in Node |-> pc'[u]] /\ work' = [u \in Node |-> work'[u]]
        /\ \A u \in Node : /\ pc'[u] = IF u = n THEN "TIME_SYNC" ELSE pc[u]
                           /\ work'[u] = IF u = n THEN m ELSE work[u]
    BY <1>1 DEF BridgeInv, Shape
  <1>6. Shape'  BY <1>1, <1>2, <1>5, Emptied DEF BridgeInv, Shape
  <1>7. NetInv'  BY <1>1 DEF BridgeInv, NetInv
  <1>8. ASSUME NEW u \in Node, NEW p \in Peer(u) PROVE PeerInv(u, p)'
    BY <1>1 DEF BridgeInv, PeerInv
  <1>9. ASSUME NEW u \in Node, NEW k \in Kind PROVE MailInv(u, k)'
    BY <1>1, <1>2, EmptiedMail
  <1>10. ASSUME NEW u \in Node PROVE ArrivalInv(u)'
    <2>1. latest'[u]["TIME_SYNC"] = IF u = n THEN Nothing ELSE latest[u]["TIME_SYNC"]
      BY <1>1, <1>2, Emptied
    <2>2. ArrivalInv(u) /\ Clock(u)' = Clock(u)  BY <1>1 DEF BridgeInv, Clock
    <2>3. CASE u = n
      BY <1>1, <1>3, <1>4, <1>5, <2>1, <2>2, <2>3 DEF ArrivalInv
    <2>4. CASE u # n
      <3>1. Torn(u)' = Torn(u)  BY <1>1, <1>5, <2>4 DEF Torn
      <3>. QED  BY <1>1, <1>5, <2>1, <2>2, <2>4, <3>1 DEF ArrivalInv
    <2>. QED  BY <2>3, <2>4
  <1>. QED  BY <1>6, <1>7, <1>8, <1>9, <1>10 DEF BridgeInv

LEMMA ReadNsecStep ==
  ASSUME BridgeInv, NEW n \in Node, ReadNsec(n)
  PROVE  BridgeInv'
  <1>. DEFINE rest == rcv_WT[n] % Second
              w == [m |-> work[n], nsec |-> rest]
  <1>1. /\ UNCHANGED <<now, net, start, teammates, latest, rcv_WT>>
        /\ pc[n] = "TIME_SYNC"
        /\ pc' = [pc EXCEPT ![n] = "nsec"] /\ work' = [work EXCEPT ![n] = w]
    BY DEF ReadNsec
  <1>2. /\ pc' = [u \in Node |-> pc'[u]] /\ work' = [u \in Node |-> work'[u]]
        /\ \A u \in Node : /\ pc'[u] = IF u = n THEN "nsec" ELSE pc[u]
                           /\ work'[u] = IF u = n THEN w ELSE work[u]
    BY <1>1 DEF BridgeInv, Shape
  <1>3. Shape'  BY <1>1, <1>2 DEF BridgeInv, Shape
  <1>4. NetInv'  BY <1>1 DEF BridgeInv, NetInv
  <1>5. ASSUME NEW u \in Node, NEW p \in Peer(u) PROVE PeerInv(u, p)'
    BY <1>1 DEF BridgeInv, PeerInv
  <1>6. ASSUME NEW u \in Node, NEW k \in Kind PROVE MailInv(u, k)'
    BY <1>1 DEF BridgeInv, MailInv
  <1>7. ASSUME NEW u \in Node PROVE ArrivalInv(u)'
    <2>1. ArrivalInv(u) /\ Clock(u)' = Clock(u)  BY <1>1 DEF BridgeInv, Clock
    <2>2. CASE u = n
      <3>1. /\ rcv_WT[n] <= Clock(n) /\ work[n] \in AsksSent(now) /\ work[n].to = n
            /\ ArrivedBy(work[n], n, rcv_WT[n])
        BY <1>1, <2>1, <2>2 DEF ArrivalInv
      <3>2. rcv_WT[n] \in Int /\ Ahead[n] \in Int
        BY BridgeAssumption DEF BridgeInv, Shape
      <3>3. /\ rest \in 0 .. Second - 1
            /\ (rcv_WT[n] \div Second) * Second + rest \in Int
            /\ (rcv_WT[n] \div Second) * Second + rest >= rcv_WT[n]
        <4>1. \A t \in Int : /\ t % Second \in 0 .. Second - 1
                            /\ (t \div Second) * Second + (t % Second) \in Int
                            /\ (t \div Second) * Second + (t % Second) >= t
          BY TornLater
        <4>. QED  BY <3>2, <4>1
      <3>4. Torn(n)' = (rcv_WT[n] \div Second) * Second + rest
        BY <1>1, <1>2 DEF Torn
      <3>5. Real(work[n].t1, work[n].client) \in Int
        BY <3>1, BridgeAssumption DEF AsksSent, Asks, Real
      <3>. HIDE DEF rest
      <3>6. ArrivedBy(work[n], n, Torn(n)')
        BY <3>1, <3>2, <3>3, <3>4, <3>5 DEF ArrivedBy, Real
      <3>7. w \in [m : AsksSent(now), nsec : 0 .. Second - 1] /\ w.m = work[n]
        BY <3>1, <3>3
      <3>. HIDE DEF w
      <3>. QED  BY <1>1, <1>2, <2>1, <2>2, <3>1, <3>6, <3>7 DEF ArrivalInv
    <2>3. CASE u # n
      <3>1. Torn(u)' = Torn(u)  BY <1>1, <1>2, <2>3 DEF Torn
      <3>. QED  BY <1>1, <1>2, <2>1, <2>3, <3>1 DEF ArrivalInv
    <2>. QED  BY <2>2, <2>3
  <1>. QED  BY <1>3, <1>4, <1>5, <1>6, <1>7 DEF BridgeInv

LEMMA HandleAskStep ==
  ASSUME BridgeInv, NEW n \in Node, HandleAsk(n)
  PROVE  BridgeInv'
  <1>. DEFINE m == work[n].m
              answer == Answer(m, n, Torn(n))
              msgs == {a \in {answer} : teammates[n][a.client].known}
  <1>1. /\ UNCHANGED <<now, start, teammates, latest>>
        /\ pc[n] = "nsec" /\ Send(msgs)
        /\ pc' = [pc EXCEPT ![n] = "idle"] /\ work' = [work EXCEPT ![n] = Nothing]
        /\ rcv_WT' = IF latest[n]["TIME_SYNC"] = Nothing
                     THEN [rcv_WT EXCEPT ![n] = 0] ELSE rcv_WT
    BY DEF HandleAsk, Handled
  <1>2. /\ rcv_WT[n] <= Clock(n) /\ work[n] \in [m : AsksSent(now), nsec : 0 .. Second - 1]
        /\ m.to = n /\ ArrivedBy(m, n, Torn(n))
    BY <1>1 DEF BridgeInv, ArrivalInv
  <1>3. /\ m \in AsksSent(now) /\ work[n].nsec \in 0 .. Second - 1
        /\ m.client \in Node /\ m.client # n /\ m.t1 \in Int
    BY <1>2 DEF AsksSent, Asks
  <1>4. /\ now \in Int /\ Clock(n) = now + Ahead[n] /\ Ahead[n] \in Int
        /\ rcv_WT[n] \in Int
    BY ClockType DEF BridgeInv, Shape, Clock
  <1>5. Torn(n) \in Int  BY <1>3, <1>4, WholeSeconds DEF Torn
  <1>6. answer \in Sent(now)
    <2>. HIDE DEF m
    <2>1. /\ answer.kind = "TIME_SYNC" /\ answer.to = m.client /\ answer.client = m.client
          /\ answer.server = n /\ answer.t1 = m.t1 /\ answer.t2 = Torn(n)
          /\ answer.t3 = Clock(n)
      BY DEF Answer
    <2>2. answer \in Answers
      BY <1>3, <1>4, <1>5 DEF Answer, Answers
    <2>3. Real(m.t1, m.client) <= Real(Torn(n), n)  BY <1>2 DEF ArrivedBy
    <2>4. Real(Clock(n), n) <= now  BY <1>4 DEF Real
    <2>. HIDE DEF answer
    <2>5. answer \in AnswersSent(now)
      BY <1>3, <2>1, <2>2, <2>3, <2>4 DEF AnswersSent
    <2>. QED  BY <2>5 DEF Sent
  <1>7. NetInv'
    <2>. HIDE DEF answer
    <2>1. IsFiniteSet({answer})  BY FS_Singleton
    <2>2. IsFiniteSet(msgs)  BY <2>1, FS_Subset
    <2>3. msgs \subseteq Sent(now)  BY <1>6
    <2>. QED  BY <1>1, <2>2, <2>3, NetAfterSend
  <1>8. /\ pc' = [u \in Node |-> pc'[u]] /\ work' = [u \in Node |-> work'[u]]
        /\ \A u \in Node : /\ pc'[u] = IF u = n THEN "idle" ELSE pc[u]
                           /\ work'[u] = IF u = n THEN Nothing ELSE work[u]
    BY <1>1 DEF BridgeInv, Shape
  <1>9. /\ rcv_WT' \in [Node -> Int] /\ \A u \in Node : u # n => rcv_WT'[u] = rcv_WT[u]
        /\ latest[n]["TIME_SYNC"] # Nothing => rcv_WT'[n] = rcv_WT[n]
    <2>1. rcv_WT \in [Node -> Int]  BY DEF BridgeInv, Shape
    <2>. QED  BY <1>1, <2>1
  <1>10. Shape'  BY <1>1, <1>8, <1>9 DEF BridgeInv, Shape
  <1>11. ASSUME NEW u \in Node, NEW p \in Peer(u) PROVE PeerInv(u, p)'
    BY <1>1 DEF BridgeInv, PeerInv
  <1>12. ASSUME NEW u \in Node, NEW k \in Kind PROVE MailInv(u, k)'
    BY <1>1 DEF BridgeInv, MailInv
  <1>13. ASSUME NEW u \in Node PROVE ArrivalInv(u)'
    <2>1. ArrivalInv(u) /\ Clock(u)' = Clock(u)  BY <1>1 DEF BridgeInv, Clock
    <2>2. CASE u = n
      BY <1>1, <1>8, <1>9, <2>1, <2>2 DEF ArrivalInv
    <2>3. CASE u # n
      <3>1. Torn(u)' = Torn(u)  BY <1>8, <1>9, <2>3 DEF Torn
      <3>. QED  BY <1>1, <1>8, <1>9, <2>1, <2>3, <3>1 DEF ArrivalInv
    <2>. QED  BY <2>2, <2>3
  <1>. QED  BY <1>7, <1>10, <1>11, <1>12, <1>13 DEF BridgeInv

LEMMA RestartStep ==
  ASSUME BridgeInv, NEW n \in Node, Restart(n)
  PROVE  BridgeInv'
  <1>1. /\ UNCHANGED <<now, net>>
        /\ start' = [start EXCEPT ![n] = Clock(n)]
        /\ teammates' = [teammates EXCEPT ![n] = [p \in Peer(n) |-> Unknown]]
        /\ latest' = [latest EXCEPT ![n] = [k \in Kind |-> Nothing]]
        /\ rcv_WT' = [rcv_WT EXCEPT ![n] = 0]
        /\ pc' = [pc EXCEPT ![n] = "idle"] /\ work' = [work EXCEPT ![n] = Nothing]
    BY DEF Restart, Handled
  <1>2. /\ start' \in [Node -> Int] /\ rcv_WT' \in [Node -> Int]
        /\ \A u \in Node : u # n => rcv_WT'[u] = rcv_WT[u]
    <2>1. start \in [Node -> Int] /\ rcv_WT \in [Node -> Int] /\ Clock(n) \in Int
      BY ClockType DEF BridgeInv, Shape
    <2>. QED  BY <1>1, <2>1
  <1>3. \A u \in Node :
          /\ teammates'[u] = IF u = n THEN [p \in Peer(n) |-> Unknown] ELSE teammates[u]
          /\ latest'[u] = IF u = n THEN [k \in Kind |-> Nothing] ELSE latest[u]
          /\ pc'[u] = IF u = n THEN "idle" ELSE pc[u]
          /\ work'[u] = IF u = n THEN Nothing ELSE work[u]
    BY <1>1 DEF BridgeInv, Shape
  <1>4. /\ teammates' = [u \in Node |-> teammates'[u]] /\ latest' = [u \in Node |-> latest'[u]]
        /\ pc' = [u \in Node |-> pc'[u]] /\ work' = [u \in Node |-> work'[u]]
    BY <1>1 DEF BridgeInv, Shape
  <1>5. teammates' = [u \in Node |-> [p \in Peer(u) |-> teammates'[u][p]]]
    <2>1. \A u \in Node : teammates[u] = [p \in Peer(u) |-> teammates[u][p]]
      BY DEF BridgeInv, Shape
    <2>2. \A u \in Node : teammates'[u] = [p \in Peer(u) |-> teammates'[u][p]]
      BY <1>3, <2>1
    <2>. QED  BY <1>4, <2>2
  <1>6. latest' = [u \in Node |-> [k \in Kind |-> latest'[u][k]]]
    <2>1. \A u \in Node : latest[u] = [k \in Kind |-> latest[u][k]]
      BY DEF BridgeInv, Shape
    <2>2. \A u \in Node : latest'[u] = [k \in Kind |-> latest'[u][k]]
      BY <1>3, <2>1
    <2>. QED  BY <1>4, <2>2
  <1>7. Shape'  BY <1>1, <1>2, <1>4, <1>5, <1>6 DEF BridgeInv, Shape
  <1>8. NetInv'  BY <1>1 DEF BridgeInv, NetInv
  <1>9. ASSUME NEW u \in Node, NEW p \in Peer(u) PROVE PeerInv(u, p)'
    BY <1>3 DEF BridgeInv, PeerInv, Unknown
  <1>10. ASSUME NEW u \in Node, NEW k \in Kind PROVE MailInv(u, k)'
    BY <1>1, <1>3 DEF BridgeInv, MailInv
  <1>11. ASSUME NEW u \in Node PROVE ArrivalInv(u)'
    <2>1. ArrivalInv(u) /\ Clock(u)' = Clock(u)  BY <1>1 DEF BridgeInv, Clock
    <2>2. CASE u = n
      BY <1>3, <2>2 DEF ArrivalInv, Kind
    <2>3. CASE u # n
      <3>1. Torn(u)' = Torn(u)  BY <1>2, <1>3, <2>3 DEF Torn
      <3>. QED  BY <1>1, <1>2, <1>3, <2>1, <2>3, <3>1 DEF ArrivalInv
    <2>. QED  BY <2>2, <2>3
  <1>. QED  BY <1>7, <1>8, <1>9, <1>10, <1>11 DEF BridgeInv

-----------------------------------------------------------------------------
(* The theorems.                                                            *)

LEMMA InitBridge == Init => BridgeInv
  <1>. SUFFICES ASSUME Init PROVE BridgeInv
    OBVIOUS
  <1>1. Shape  BY BridgeAssumption DEF Init, Shape
  <1>2. NetInv  BY FS_EmptySet, BridgeAssumption DEF Init, NetInv
  <1>3. ASSUME NEW n \in Node, NEW p \in Peer(n) PROVE PeerInv(n, p)
    BY DEF Init, PeerInv, Unknown
  <1>4. ASSUME NEW n \in Node, NEW k \in Kind PROVE MailInv(n, k)
    BY DEF Init, MailInv
  <1>5. ASSUME NEW n \in Node PROVE ArrivalInv(n)
    BY DEF Init, ArrivalInv, Kind
  <1>. QED  BY <1>1, <1>2, <1>3, <1>4, <1>5 DEF BridgeInv

LEMMA NextBridge == BridgeInv /\ [Next]_vars => BridgeInv'
  <1>. SUFFICES ASSUME BridgeInv, [Next]_vars PROVE BridgeInv'
    OBVIOUS
  <1>1. ASSUME NEW n \in Node, Broadcast(n) \/ SyncRequest(n) \/ SendState(n)
        PROVE  BridgeInv'
    BY <1>1, SendingSteps
  <1>2. ASSUME NEW n \in Node, HandleIpId(n) \/ HandleAnswer(n) \/ HandleState(n)
        PROVE  BridgeInv'
    BY <1>2, HandleIpIdStep, HandleAnswerStep, HandleStateStep
  <1>3. ASSUME NEW n \in Node, TakeAsk(n) \/ ReadNsec(n) \/ HandleAsk(n)
        PROVE  BridgeInv'
    BY <1>3, TakeAskStep, ReadNsecStep, HandleAskStep
  <1>4. ASSUME NEW n \in Node, Restart(n) PROVE BridgeInv'
    BY <1>4, RestartStep
  <1>5. ASSUME NEW m \in net, Lose(m) \/ Deliver(m) PROVE BridgeInv'
    BY <1>5, LoseStep, DeliverStep
  <1>6. CASE Tick  BY <1>6, TickStep
  <1>7. CASE UNCHANGED vars
    <2>1. NetInv'  BY <1>7 DEF vars, BridgeInv, NetInv
    <2>. QED  BY <1>7, <2>1, OnlyNet DEF vars
  <1>. QED  BY <1>1, <1>2, <1>3, <1>4, <1>5, <1>6, <1>7 DEF Next

LEMMA AlwaysBridge == Spec => []BridgeInv
  BY InitBridge, NextBridge, PTL DEF Spec

\* Whatever the network and the processes do, every variable keeps its type
\* and the network its bound.
THEOREM BridgeTypeCorrect == Spec => []TypeOK
  <1>1. ASSUME BridgeInv PROVE TypeOK
    <2>1. ASSUME NEW n \in Node
          PROVE  teammates[n] \in [Peer(n) -> Teammate \cup {Unknown}]
      BY <1>1 DEF BridgeInv, Shape, PeerInv
    <2>2. ASSUME NEW n \in Node, NEW k \in Kind
          PROVE  latest[n][k] \in {m \in Message : m.kind = k} \cup {Nothing}
      BY <1>1, SentTypes DEF BridgeInv, MailInv
    <2>3. ASSUME NEW n \in Node
          PROVE  \/ pc[n] = "idle" /\ work[n] = Nothing
                 \/ pc[n] = "TIME_SYNC" /\ work[n] \in Asks
                 \/ pc[n] = "nsec" /\ work[n] \in [m : Asks, nsec : 0 .. Second - 1]
      <3>1. AsksSent(now) \subseteq Asks  BY DEF AsksSent
      <3>2. \A w : w \in [m : AsksSent(now), nsec : 0 .. Second - 1] =>
                     w \in [m : Asks, nsec : 0 .. Second - 1]
        BY <3>1
      <3>. QED  BY <1>1, <3>1, <3>2 DEF BridgeInv, ArrivalInv
    <2>4. net \subseteq Message /\ Cardinality(net) <= MaxNet
      BY <1>1, SentTypes DEF BridgeInv, NetInv
    <2>. QED  BY <1>1, <2>1, <2>2, <2>3, <2>4 DEF TypeOK, BridgeInv, Shape
  <1>. QED  BY <1>1, AlwaysBridge, PTL

\* For any clocks, any number of measurements, and any loss, delay, duplication
\* and restart, an estimate is off by at most half the mean delay
\* (udp_online.cpp 170-198).
THEOREM OffsetBounded == Spec => []OffsetWithinDelay
  <1>1. ASSUME BridgeInv PROVE OffsetWithinDelay
    BY <1>1 DEF BridgeInv, PeerInv, OffsetWithinDelay
  <1>. QED  BY <1>1, AlwaysBridge, PTL

\* So is the stamp with which a teammate's state is relayed
\* (udp_online.cpp 240-248).
THEOREM RelayedWell == Spec => []RelayedInTime
  <1>1. ASSUME BridgeInv PROVE RelayedInTime
    <2>1. SUFFICES ASSUME NEW n \in Node, latest[n]["STATE"] # Nothing,
                          Synced(teammates[n][latest[n]["STATE"].from])
                   PROVE  LET m == latest[n]["STATE"]
                              d == teammates[n][m.from]
                          IN  Abs(Relay(m, d) - 2 * d.count *
                                  ((m.stamp - Ahead[m.from]) + Ahead[n])) <= d.delays
      BY DEF RelayedInTime
    <2>. DEFINE m == latest[n]["STATE"]
                p == m.from
                d == teammates[n][p]
                c == 2 * d.count
    <2>2. m \in StatesSent /\ m.to = n
      BY <1>1, <2>1, SentKinds DEF BridgeInv, MailInv, Kind
    <2>3. p \in Peer(n) /\ p \in Node /\ m.stamp \in Int
      BY <2>2 DEF StatesSent, States, Peer
    <2>4. /\ d \in Teammate \cup {Unknown} /\ d.known
          /\ Abs(d.offsets - c * (Ahead[p] - Ahead[n])) <= d.delays
      BY <1>1, <2>1, <2>3 DEF BridgeInv, PeerInv, Synced
    <2>5. c \in Int /\ d.offsets \in Int /\ d.delays \in Int
      <3>. HIDE DEF d
      <3>1. d \in Teammate  BY <2>4 DEF Unknown
      <3>2. d.count \in Int  BY <3>1, BridgeAssumption DEF Teammate
      <3>. QED  BY <3>1, <3>2 DEF Teammate
    <2>6. Ahead[p] \in Int /\ Ahead[n] \in Int  BY <2>3, BridgeAssumption
    <2>. DEFINE x == c * (Ahead[p] - Ahead[n])
                y == c * m.stamp
    <2>7. x \in Int /\ y \in Int
      <3>. HIDE DEF c, m, p
      <3>. QED  BY <2>3, <2>5, <2>6
    <2>8. c * ((m.stamp - Ahead[p]) + Ahead[n]) = y - x
      <3>. HIDE DEF c, m, p
      <3>. QED  BY <2>3, <2>5, <2>6
    <2>9. Relay(m, d) = y - d.offsets  BY DEF Relay
    <2>10. Abs(d.offsets - x) <= d.delays  BY <2>4
    <2>11. Abs((y - d.offsets) - (y - x)) <= d.delays
      <3>. HIDE DEF x, y, d
      <3>. QED  BY <2>5, <2>7, <2>10 DEF Abs
    <2>12. Abs(Relay(m, d) - c * ((m.stamp - Ahead[p]) + Ahead[n])) <= d.delays
      <3>. HIDE DEF x, y, c, m, d, p
      <3>. QED  BY <2>8, <2>9, <2>11
    <2>. QED  BY <2>12
  <1>. QED  BY <1>1, AlwaysBridge, PTL
=============================================================================
