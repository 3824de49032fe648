-------------------------- MODULE LivoxDriverProofs --------------------------
(***************************************************************************)
(* Proofs about the Livox driver, for any number of lidars, settings and   *)
(* frames and any size of the rings and their indices.                     *)
(*                                                                         *)
(* Neither thread sees the other's index change twice: the storing thread  *)
(* writes to a slot nobody reads because the ring was not full when it     *)
(* looked and the poll thread only makes room; the poll thread copies the  *)
(* oldest frame because the storing thread only adds. So a ring implements *)
(* a queue although nothing is locked.                                     *)
(***************************************************************************)
EXTENDS LivoxDriverProps, SequenceTheorems, TLAPS

StorePc == {"idle", "write", "advance", "pushed", "count", "signal"}
PollPc == {"top", "wait", "scan", "polling", "copy", "pop", "status", "ended"}

\* The configuration of the lidars.
ConfigInv ==
  /\ indexed \subseteq Lidar
  /\ reports = [l \in Lidar |-> reports[l]]
  /\ \A l \in Lidar : reports[l] \in 0 .. MaxInfo[l]
  /\ connect_state \in [Lidar -> {"Off", "Sampling"}]
  /\ set_bits \in [Lidar -> SUBSET Setting]
  /\ requests \in [Lidar -> [Setting -> Nat]]
  /\ NoOrphanedSetting

\* The i-th frame of a ring that is not yet published.
Stored(l, i) == storage[l][Slot(rd_idx[l] + i)]

\* A ring has no more frames than slots, and what it has are frames.
RingInv(l) ==
  /\ Used(l) <= Size
  /\ storage[l] \in Ring(l) \/ (storage[l] = << >> /\ Used(l) = 0)
  /\ \A i \in 0 .. Used(l) - 1 : Stored(l, i) \in Frame[l]

RingsInv ==
  /\ storage = [l \in Lidar |-> storage[l]]
  /\ wr_idx \in [Lidar -> 0 .. Width - 1] /\ rd_idx \in [Lidar -> 0 .. Width - 1]
  /\ \A l \in Lidar : RingInv(l)

\* What was published of a lidar is a frame of it.
PublishedInv ==
  /\ published = [l \in Lidar |-> published[l]]
  /\ \A l \in Lidar : published[l] = {} \/ \E f \in Frame[l] : published[l] = {f}

\* The storing thread's frame is in its ring or on the way to a free slot.
StoreInv ==
  /\ store \in [pc : StorePc, lidar : Lidar, frame : Frames \cup {Free}]
  /\ count \in {0, 1}
  /\ store.pc # "idle" => storage[store.lidar] \in Ring(store.lidar)
  /\ store.pc = "write" => store.frame \in Frame[store.lidar]
  /\ store.pc = "advance" => /\ Used(store.lidar) < Size
                             /\ Stored(store.lidar, Used(store.lidar)) \in Frame[store.lidar]
  /\ store.pc = "signal" => count = 0

\* The frame the poll thread has copied is the oldest of its ring.
PollInv ==
  /\ poll \in [pc : PollPc, lidar : Lidar, frame : Frames \cup {Free}]
  /\ request_exit \in BOOLEAN /\ exit_signal \in BOOLEAN
  /\ poll.pc = "pop" => Used(poll.lidar) > 0 /\ poll.frame = Stored(poll.lidar, 0)

\* The inductive invariant.
DriverInv == ConfigInv /\ RingsInv /\ PublishedInv /\ StoreInv /\ PollInv

LEMMA DriverTypes == DriverInv => TypeOK /\ NoOrphanedSetting
  BY DEF DriverInv, ConfigInv, RingsInv, RingInv, PublishedInv, StoreInv, PollInv,
         TypeOK, StorePc, PollPc

-----------------------------------------------------------------------------
(* Indices that wrap around.                                                *)

LEMMA Sizes == /\ Size \in Nat /\ Size > 0 /\ Width \in Nat /\ Width > Size
               /\ Width % Size = 0
  BY RingAssumption

LEMMA SlotType == ASSUME NEW x \in Nat PROVE Slot(x) \in 0 .. Size - 1
  BY Sizes DEF Slot

\* Numbers less than Size apart have different slots.
LEMMA SlotsDiffer ==
  ASSUME NEW a \in Nat, NEW b \in Nat, a < b, b < a + Size
  PROVE  Slot(a) # Slot(b)
  <1>. DEFINE p == a \div Size
              q == b \div Size
  <1>1. Size \in Nat /\ Size > 0  BY Sizes
  <1>2. p \in Int /\ a = p * Size + (a % Size) /\ a % Size \in 0 .. Size - 1
    BY <1>1
  <1>3. q \in Int /\ b = q * Size + (b % Size) /\ b % Size \in 0 .. Size - 1
    BY <1>1
  <1>. HIDE DEF p, q
  <1>4. SUFFICES ASSUME a % Size = b % Size PROVE FALSE
    BY DEF Slot
  <1>5. b - a = (q - p) * Size  BY <1>1, <1>2, <1>3, <1>4
  <1>6. CASE q - p <= 0
    <2>1. (q - p) * Size <= 0  BY <1>1, <1>2, <1>3, <1>6
    <2>. QED  BY <1>5, <2>1
  <1>7. CASE q - p >= 1
    <2>1. (q - p) * Size >= Size  BY <1>1, <1>2, <1>3, <1>7
    <2>. QED  BY <1>1, <1>5, <2>1
  <1>. QED  BY <1>2, <1>3, <1>6, <1>7

\* The slots go on where the indices wrap around.
LEMMA SlotWraps ==
  ASSUME NEW x \in Nat
  PROVE  Slot(x + Width) = Slot(x)
  <1>. DEFINE k == Width \div Size
              p == x \div Size
              q == (x + Width) \div Size
  <1>1. Size \in Nat /\ Size > 0 /\ Width \in Nat  BY Sizes
  <1>2. k \in Int /\ Width = k * Size
    <2>1. Width % Size = 0  BY Sizes
    <2>. QED  BY <1>1, <2>1
  <1>3. p \in Int /\ x = p * Size + (x % Size) /\ x % Size \in 0 .. Size - 1
    BY <1>1
  <1>4. /\ q \in Int /\ x + Width = q * Size + ((x + Width) % Size)
        /\ (x + Width) % Size \in 0 .. Size - 1
    BY <1>1
  <1>. DEFINE r == x % Size
              s == (x + Width) % Size
              d == q - p - k
  <1>. HIDE DEF k, p, q, r, s
  <1>5. s - r = 0 - d * Size
    <2>1. s = x + Width - q * Size /\ x = p * Size + r
      BY <1>1, <1>3, <1>4 DEF r, s
    <2>2. d * Size = q * Size - p * Size - k * Size  BY <1>1, <1>2, <1>3, <1>4
    <2>3. r \in Int /\ s \in Int /\ d * Size \in Int /\ q * Size \in Int /\ p * Size \in Int
      BY <1>1, <1>2, <1>3, <1>4 DEF r, s
    <2>. QED  BY <1>1, <1>2, <2>1, <2>2, <2>3
  <1>6. r \in 0 .. Size - 1 /\ s \in 0 .. Size - 1  BY <1>3, <1>4 DEF r, s
  <1>7. d \in Int  BY <1>2, <1>3, <1>4
  <1>. HIDE DEF d
  <1>8. d = 0
    <2>. DEFINE m == d * Size
    <2>1. m \in Int /\ s - r = 0 - m  BY <1>1, <1>5, <1>7
    <2>2. d >= 1 => m >= Size  BY <1>1, <1>7
    <2>3. d <= -1 => m <= 0 - Size  BY <1>1, <1>7
    <2>. HIDE DEF m
    <2>4. m < Size /\ m > 0 - Size  BY <1>1, <1>6, <2>1
    <2>. QED  BY <1>1, <1>7, <2>1, <2>2, <2>3, <2>4
  <1>. QED  BY <1>1, <1>5, <1>6, <1>8 DEF r, s, Slot

\* An index one further on.
LEMMA Onward ==
  ASSUME NEW x \in 0 .. Width - 1
  PROVE  /\ (x + 1) % Width = IF x = Width - 1 THEN 0 ELSE x + 1
         /\ (x + 1) % Width \in 0 .. Width - 1
  <1>1. Width \in Nat /\ Width > 1  BY Sizes
  <1>. QED  BY <1>1

\* How far w is before r, as QueueUsedSize counts.
Dist(w, r) == (w + Width - r) % Width

LEMMA DistCases ==
  ASSUME NEW w \in 0 .. Width - 1, NEW r \in 0 .. Width - 1
  PROVE  /\ Dist(w, r) = IF w >= r THEN w - r ELSE w + Width - r
         /\ Dist(w, r) \in 0 .. Width - 1
         /\ Dist(w, r) = 0 <=> w = r
  <1>1. Width \in Nat /\ Width > 0  BY Sizes
  <1>2. (w + Width - r) % Width = IF w >= r THEN w - r ELSE w + Width - r
    <2>1. CASE w < r
      <3>1. w + Width - r \in 0 .. Width - 1  BY <1>1, <2>1
      <3>. QED  BY <1>1, <2>1, <3>1
    <2>2. CASE w >= r
      <3>. DEFINE x == w - r
      <3>1. x \in 0 .. Width - 1 /\ w + Width - r = x + Width  BY <1>1, <2>2
      <3>. HIDE DEF x
      <3>2. (x + Width) % Width = x  BY <1>1, <3>1
      <3>. QED  BY <2>2, <3>1, <3>2 DEF x
    <2>. QED  BY <1>1, <2>1, <2>2
  <1>. QED  BY <1>1, <1>2 DEF Dist

\* One frame more, and one frame less.
LEMMA DistNext ==
  ASSUME NEW w \in 0 .. Width - 1, NEW r \in 0 .. Width - 1,
         Dist(w, r) < Size
  PROVE  Dist((w + 1) % Width, r) = Dist(w, r) + 1
  <1>1. Width \in Nat /\ Size \in Nat /\ Width > Size  BY Sizes
  <1>. DEFINE v == (w + 1) % Width
  <1>2. v = (IF w = Width - 1 THEN 0 ELSE w + 1) /\ v \in 0 .. Width - 1
    BY Onward
  <1>. HIDE DEF v
  <1>3. Dist(w, r) = IF w >= r THEN w - r ELSE w + Width - r
    BY DistCases
  <1>4. Dist(v, r) = IF v >= r THEN v - r ELSE v + Width - r
    BY <1>2, DistCases
  <1>5. Dist(v, r) = Dist(w, r) + 1  BY <1>1, <1>2, <1>3, <1>4
  <1>. QED  BY <1>5 DEF v

LEMMA DistPrevious ==
  ASSUME NEW w \in 0 .. Width - 1, NEW r \in 0 .. Width - 1,
         Dist(w, r) > 0
  PROVE  Dist(w, (r + 1) % Width) = Dist(w, r) - 1
  <1>1. Width \in Nat  BY Sizes
  <1>. DEFINE v == (r + 1) % Width
  <1>2. v = (IF r = Width - 1 THEN 0 ELSE r + 1) /\ v \in 0 .. Width - 1
    BY Onward
  <1>. HIDE DEF v
  <1>3. Dist(w, r) = IF w >= r THEN w - r ELSE w + Width - r
    BY DistCases
  <1>4. Dist(w, v) = IF w >= v THEN w - v ELSE w + Width - v
    BY <1>2, DistCases
  <1>5. Dist(w, v) = Dist(w, r) - 1  BY <1>1, <1>2, <1>3, <1>4
  <1>. QED  BY <1>5 DEF v

\* The slot of the i-th frame after the oldest was published.
LEMMA SlotNext ==
  ASSUME NEW r \in 0 .. Width - 1, NEW i \in Nat
  PROVE  Slot(((r + 1) % Width) + i) = Slot(r + (i + 1))
  <1>1. Width \in Nat  BY Sizes
  <1>2. CASE r = Width - 1
    <2>1. (r + 1) % Width = 0  BY <1>2, Onward
    <2>2. r + (i + 1) = i + Width  BY <1>1, <1>2
    <2>3. ((r + 1) % Width) + i = i  BY <2>1
    <2>. QED  BY <2>2, <2>3, SlotWraps
  <1>3. CASE r # Width - 1
    <2>1. (r + 1) % Width = r + 1  BY <1>3, Onward
    <2>2. ((r + 1) % Width) + i = r + (i + 1)  BY <1>1, <2>1
    <2>. QED  BY <2>2
  <1>. QED  BY <1>2, <1>3

\* The slot that is written is that of the first frame not yet there.
LEMMA WrittenSlot ==
  ASSUME NEW w \in 0 .. Width - 1, NEW r \in 0 .. Width - 1
  PROVE  Slot(w) = Slot(r + Dist(w, r))
  <1>1. Width \in Nat  BY Sizes
  <1>2. CASE w >= r
    <2>1. r + Dist(w, r) = w  BY <1>1, <1>2, DistCases
    <2>. QED  BY <2>1
  <1>3. CASE w < r
    <2>1. r + Dist(w, r) = w + Width  BY <1>1, <1>3, DistCases
    <2>. QED  BY <1>1, <2>1, SlotWraps
  <1>. QED  BY <1>1, <1>2, <1>3

\* The indices of a ring.
LEMMA Indices ==
  ASSUME RingsInv, NEW l \in Lidar
  PROVE  /\ wr_idx[l] \in 0 .. Width - 1 /\ rd_idx[l] \in 0 .. Width - 1
         /\ Used(l) = Dist(wr_idx[l], rd_idx[l])
         /\ Used(l) \in Nat /\ Used(l) <= Size
         /\ Empty(l) <=> Used(l) = 0
  <1>1. wr_idx[l] \in 0 .. Width - 1 /\ rd_idx[l] \in 0 .. Width - 1 /\ Used(l) <= Size
    BY DEF RingsInv, RingInv
  <1>2. Used(l) = Dist(wr_idx[l], rd_idx[l])  BY DEF Used, Dist
  <1>3. Empty(l) <=> wr_idx[l] = rd_idx[l]  BY DEF Empty
  <1>. DEFINE w == wr_idx[l]
              r == rd_idx[l]
  <1>4. /\ Dist(w, r) \in 0 .. Width - 1
        /\ Dist(w, r) = 0 <=> w = r
    BY <1>1, DistCases
  <1>5. Width \in Nat  BY Sizes
  <1>. QED  BY <1>1, <1>2, <1>3, <1>4, <1>5

-----------------------------------------------------------------------------
(* The steps that leave the rings as they are.                              *)

LEMMA InitDriver == Init => DriverInv
  <1>. SUFFICES ASSUME Init PROVE DriverInv
    OBVIOUS
  <1>1. ConfigInv
    <2>1. indexed \subseteq Lidar /\ reports = [l \in Lidar |-> reports[l]]
      <3>1. Listed \subseteq Lidar  BY LidarAssumption
      <3>. QED  BY <3>1 DEF Init
    <2>2. \A l \in Lidar : MaxInfo[l] \in Nat  BY LidarAssumption
    <2>3. \A l \in Lidar : reports[l] \in 0 .. MaxInfo[l]
      <3>1. \A l \in Lidar : reports[l] = 0  BY DEF Init
      <3>. QED  BY <2>2, <3>1
    <2>4. /\ connect_state \in [Lidar -> {"Off", "Sampling"}]
          /\ set_bits \in [Lidar -> SUBSET Setting]
          /\ requests \in [Lidar -> [Setting -> Nat]]
      BY DEF Init
    <2>5. NoOrphanedSetting
      <3>1. \A l \in Lidar : set_bits[l] = {}  BY DEF Init
      <3>. QED  BY <3>1 DEF NoOrphanedSetting
    <2>. QED  BY <2>1, <2>3, <2>4, <2>5 DEF ConfigInv
  <1>2. RingsInv
    <2>1. 0 \in 0 .. Width - 1 /\ Size \in Nat  BY Sizes
    <2>2. Dist(0, 0) = 0  BY <2>1, DistCases
    <2>3. \A l \in Lidar : Used(l) = 0  BY <2>2 DEF Init, Used, Dist
    <2>4. \A l \in Lidar : RingInv(l)
      BY <2>1, <2>3 DEF Init, RingInv
    <2>. QED  BY <2>1, <2>4 DEF Init, RingsInv
  <1>3. PublishedInv  BY DEF Init, PublishedInv
  <1>4. StoreInv /\ PollInv
    <2>1. 1 \in Lidar  BY LidarAssumption DEF Lidar
    <2>. QED  BY <2>1 DEF Init, StoreInv, PollInv, Idle, StorePc, PollPc
  <1>. QED  BY <1>1, <1>2, <1>3, <1>4 DEF DriverInv

\* What a step that leaves a ring alone leaves of the invariant.
LEMMA RingsKept ==
  ASSUME RingsInv, ring' = ring
  PROVE  /\ RingsInv'
         /\ \A l \in Lidar : Used(l)' = Used(l) /\ Empty(l)' = Empty(l)
         /\ \A l \in Lidar, i \in Nat : Stored(l, i)' = Stored(l, i)
  <1>1. storage' = storage /\ wr_idx' = wr_idx /\ rd_idx' = rd_idx
    BY DEF ring
  <1>2. \A l \in Lidar : Used(l)' = Used(l) /\ Empty(l)' = Empty(l)
    BY <1>1 DEF Used, Empty
  <1>3. \A l \in Lidar, i \in Int : Stored(l, i)' = Stored(l, i)
    BY <1>1 DEF Stored
  <1>4. \A l \in Lidar : RingInv(l)'
    <2>. SUFFICES ASSUME NEW l \in Lidar PROVE RingInv(l)'
      OBVIOUS
    <2>1. RingInv(l)  BY DEF RingsInv
    <2>. QED  BY <1>1, <1>2, <1>3, <2>1 DEF RingInv, Ring
  <1>. QED  BY <1>1, <1>2, <1>3, <1>4 DEF RingsInv

LEMMA PublishedKept ==
  ASSUME PublishedInv, published' = published PROVE PublishedInv'
  BY DEF PublishedInv

LEMMA ConfigKept ==
  ASSUME ConfigInv, config' = config PROVE ConfigInv'
  BY DEF ConfigInv, config, NoOrphanedSetting

LEMMA StoreKept ==
  ASSUME RingsInv, StoreInv, ring' = ring, store' = store, count' \in {0, 1},
         store.pc = "signal" => count' = 0
  PROVE  StoreInv'
  <1>1. /\ \A l \in Lidar : Used(l)' = Used(l)
        /\ \A l \in Lidar, i \in Nat : Stored(l, i)' = Stored(l, i)
    BY RingsKept
  <1>2. storage' = storage  BY DEF ring
  <1>3. store.lidar \in Lidar /\ Used(store.lidar) \in Nat
    BY Indices DEF StoreInv
  <1>. QED  BY <1>1, <1>2, <1>3 DEF StoreInv, Ring

LEMMA PollKept ==
  ASSUME RingsInv, PollInv, ring' = ring, poll' = poll,
         request_exit' \in BOOLEAN, exit_signal' \in BOOLEAN
  PROVE  PollInv'
  <1>1. /\ \A l \in Lidar : Used(l)' = Used(l)
        /\ \A l \in Lidar, i \in Nat : Stored(l, i)' = Stored(l, i)
    BY RingsKept
  <1>. QED  BY <1>1 DEF PollInv

\* The SDK's thread changes the configuration and nothing else.
LEMMA SdkKeeps == DriverInv /\ Sdk => DriverInv'
  <1>. SUFFICES ASSUME DriverInv, NEW l \in Lidar,
                       \/ InfoChange(l)
                       \/ \E s \in Setting : \/ SettingDone(l, s)
                                             \/ SettingTimeout(l, s)
                                             \/ SettingFailed(l, s)
                PROVE  DriverInv'
    BY DEF Sdk
  <1>. USE DEF DriverInv
  <1>1. UNCHANGED <<ring, count, store, poll, published, exits>>
    BY DEF InfoChange, SettingDone, SettingTimeout, SettingFailed, Answered, vars
  <1>2. RingsInv' /\ PublishedInv'  BY <1>1, RingsKept, PublishedKept
  <1>3. StoreInv' /\ PollInv'
    <2>1. request_exit' = request_exit /\ exit_signal' = exit_signal
      BY <1>1 DEF exits
    <2>. QED  BY <1>1, <2>1, StoreKept, PollKept DEF StoreInv, PollInv
  <1>4. ConfigInv'
    <2>1. CASE InfoChange(l)
      <3>1. reports' = [reports EXCEPT ![l] = reports[l] + 1] /\ reports[l] < MaxInfo[l]
        BY <2>1 DEF InfoChange
      <3>2. /\ reports' = [k \in Lidar |-> reports'[k]]
            /\ \A k \in Lidar : reports'[k] \in 0 .. MaxInfo[k]
        BY <3>1, LidarAssumption DEF ConfigInv
      <3>3. connect_state' = connect_state  BY <2>1 DEF InfoChange
      <3>4. CASE l \notin indexed
        BY <2>1, <3>2, <3>3, <3>4 DEF InfoChange, ConfigInv, NoOrphanedSetting
      <3>5. CASE l \in indexed
        <4>1. /\ set_bits' = [set_bits EXCEPT ![l] = set_bits[l] \cup Asked[l]]
              /\ requests' = [requests EXCEPT ![l] = [s \in Setting |->
                   requests[l][s] + (IF s \in Asked[l] THEN 1 ELSE 0)]]
              /\ indexed' = indexed
          BY <2>1, <3>5 DEF InfoChange
        <4>2. Asked[l] \subseteq Setting  BY DEF Setting
        <4>3. set_bits' \in [Lidar -> SUBSET Setting]
          BY <4>1, <4>2 DEF ConfigInv
        <4>4. requests[l] \in [Setting -> Nat]  BY DEF ConfigInv
        <4>5. [s \in Setting |-> requests[l][s] + (IF s \in Asked[l] THEN 1 ELSE 0)]
                \in [Setting -> Nat]
          BY <4>4
        <4>6. requests' \in [Lidar -> [Setting -> Nat]]
          BY <4>1, <4>5 DEF ConfigInv
        <4>7. NoOrphanedSetting'
          <5>. SUFFICES ASSUME NEW k \in Lidar, NEW s \in set_bits'[k]
                        PROVE  requests'[k][s] > 0 \/ s \in Refused[k]
            BY DEF NoOrphanedSetting
          <5>1. s \in Setting  BY <4>3
          <5>2. CASE k # l
            BY <4>1, <5>2 DEF ConfigInv, NoOrphanedSetting
          <5>3. CASE k = l
            <6>1. requests'[l][s] = requests[l][s] + (IF s \in Asked[l] THEN 1 ELSE 0)
              BY <4>1, <5>1 DEF ConfigInv
            <6>2. requests[l][s] \in Nat  BY <4>4, <5>1
            <6>3. s \in set_bits[l] \/ s \in Asked[l]
              BY <4>1, <5>3 DEF ConfigInv
            <6>4. s \in set_bits[l] => requests[l][s] > 0 \/ s \in Refused[l]
              BY DEF ConfigInv, NoOrphanedSetting
            <6>. QED  BY <5>3, <6>1, <6>2, <6>3, <6>4
          <5>. QED  BY <5>2, <5>3
        <4>. QED  BY <3>2, <3>3, <4>1, <4>3, <4>6, <4>7 DEF ConfigInv
      <3>. QED  BY <3>4, <3>5
    <2>2. ASSUME NEW s \in Setting, SettingDone(l, s) \/ SettingFailed(l, s)
          PROVE  ConfigInv'
      <3>1. /\ requests[l][s] > 0
            /\ requests' = [requests EXCEPT ![l] =
                 [requests[l] EXCEPT ![s] = requests[l][s] - 1]]
            /\ indexed' = indexed /\ reports' = reports
        BY <2>2 DEF SettingDone, SettingFailed, Answered
      <3>2. requests[l] \in [Setting -> Nat]  BY DEF ConfigInv
      <3>3. [requests[l] EXCEPT ![s] = requests[l][s] - 1] \in [Setting -> Nat]
        BY <3>1, <3>2
      <3>4. requests' \in [Lidar -> [Setting -> Nat]]
        BY <3>1, <3>3 DEF ConfigInv
      <3>5. \A k \in Lidar, t \in Setting :
              k # l \/ t # s => requests'[k][t] = requests[k][t]
        BY <3>1 DEF ConfigInv
      <3>6. set_bits' \in [Lidar -> SUBSET Setting]
        BY <2>2 DEF SettingDone, SettingFailed, ConfigInv
      <3>7. \A k \in Lidar : set_bits'[k] \subseteq set_bits[k]
        BY <2>2 DEF SettingDone, SettingFailed, ConfigInv
      <3>8. s \notin set_bits'[l] \/ s \in Refused[l]
        BY <2>2 DEF SettingDone, SettingFailed, ConfigInv
      <3>9. connect_state' \in [Lidar -> {"Off", "Sampling"}]
        BY <2>2 DEF SettingDone, SettingFailed, ConfigInv
      <3>10. NoOrphanedSetting'
        <4>. SUFFICES ASSUME NEW k \in Lidar, NEW t \in set_bits'[k]
                      PROVE  requests'[k][t] > 0 \/ t \in Refused[k]
          BY DEF NoOrphanedSetting
        <4>1. t \in Setting /\ t \in set_bits[k]  BY <3>6, <3>7
        <4>2. requests[k][t] > 0 \/ t \in Refused[k]
          BY <4>1 DEF ConfigInv, NoOrphanedSetting
        <4>. QED  BY <3>5, <3>8, <4>1, <4>2
      <3>. QED  BY <3>1, <3>4, <3>6, <3>9, <3>10 DEF ConfigInv
    <2>3. ASSUME NEW s \in Setting, SettingTimeout(l, s) PROVE ConfigInv'
      <3>1. config' = config  BY <2>3 DEF SettingTimeout, vars
      <3>. QED  BY <3>1, ConfigKept
    <2>. QED  BY <2>1, <2>2, <2>3
  <1>. QED  BY <1>2, <1>3, <1>4

\* The poll thread between two accesses to the rings.
Looking == Enter \/ Skip \/ Poll \/ Leave \/ Copy \/ Emptied \/ Status

LEMMA LookingKeeps == DriverInv /\ Looking => DriverInv' /\ Quiet
  <1>. SUFFICES ASSUME DriverInv, Looking PROVE DriverInv' /\ Quiet
    OBVIOUS
  <1>. USE DEF DriverInv
  <1>1. Quiet
    BY DEF Looking, Enter, Skip, Poll, Leave, Copy, Emptied, Status
  <1>2. UNCHANGED <<config, ring, count, store, published, exits>>
    BY <1>1 DEF Quiet
  <1>3. request_exit' = request_exit /\ exit_signal' = exit_signal
    BY <1>2 DEF exits
  <1>4. ConfigInv' /\ RingsInv' /\ PublishedInv'
    BY <1>2, ConfigKept, RingsKept, PublishedKept
  <1>5. StoreInv'  BY <1>2, StoreKept DEF StoreInv
  <1>6. PollInv'
    <2>1. poll \in [pc : PollPc, lidar : Lidar, frame : Frames \cup {Free}]
      BY DEF PollInv
    <2>2. ASSUME NEW pc \in PollPc, pc # "pop", NEW l \in Lidar, PollGoes(pc, l)
          PROVE  PollInv'
      <3>1. poll'.pc = pc
        BY <2>1, <2>2 DEF PollGoes
      <3>2. poll' \in [pc : PollPc, lidar : Lidar, frame : Frames \cup {Free}]
        BY <2>1, <2>2 DEF PollGoes
      <3>. QED  BY <1>3, <2>2, <3>1, <3>2 DEF PollInv
    <2>3. 1 \in Lidar  BY LidarAssumption DEF Lidar
    <2>4. ASSUME NEW l \in Lidar, NextLidar(l) PROVE PollInv'
      <3>1. CASE l = Lidars
        <4>1. PollGoes("status", 1)  BY <2>4, <3>1 DEF NextLidar
        <4>. QED  BY <2>2, <2>3, <4>1 DEF PollPc
      <3>2. CASE l # Lidars
        <4>1. PollGoes("scan", l + 1)  BY <2>4, <3>2 DEF NextLidar
        <4>2. l + 1 \in Lidar  BY <3>2, LidarAssumption DEF Lidar
        <4>. QED  BY <2>2, <4>1, <4>2 DEF PollPc
      <3>. QED  BY <3>1, <3>2
    <2>5. CASE Copy
      <3>. DEFINE l == poll.lidar
                  f == storage[l][Slot(rd_idx[l])]
      <3>1. l \in Lidar  BY <2>1
      <3>2. Used(l) \in Nat /\ Used(l) > 0 /\ rd_idx[l] \in Nat
        BY <2>5, <3>1, Indices DEF Copy
      <3>3. f = Stored(l, 0) /\ f \in Frame[l]
        <4>1. 0 \in 0 .. Used(l) - 1 /\ rd_idx[l] + 0 = rd_idx[l]  BY <3>2
        <4>. QED  BY <3>1, <4>1 DEF RingsInv, RingInv, Stored
      <3>4. f \in Frames  BY <3>1, <3>3 DEF Frames
      <3>5. poll' = [poll EXCEPT !.pc = "pop", !.frame = f]
        BY <2>5 DEF Copy
      <3>. HIDE DEF f
      <3>6. poll'.lidar = l /\ poll'.frame = f
        BY <2>1, <3>5
      <3>7. poll' \in [pc : PollPc, lidar : Lidar, frame : Frames \cup {Free}]
        BY <2>1, <3>4, <3>5 DEF PollPc
      <3>8. Used(l)' = Used(l) /\ Stored(l, 0)' = Stored(l, 0)
        <4>1. UNCHANGED <<wr_idx, rd_idx, storage, poll.lidar>>
          BY <1>2, <3>6 DEF ring
        <4>. QED  BY <4>1 DEF Used, Stored
      <3>9. (poll.pc = "pop" => Used(poll.lidar) > 0 /\ poll.frame = Stored(poll.lidar, 0))'
        BY <3>2, <3>3, <3>6, <3>8
      <3>. QED  BY <1>3, <3>7, <3>9 DEF PollInv
    <2>6. CASE Enter
      BY <2>2, <2>3, <2>6 DEF Enter, PollPc
    <2>7. CASE Skip
      BY <2>1, <2>2, <2>4, <2>7 DEF Skip, PollPc
    <2>8. CASE Poll
      BY <2>1, <2>2, <2>8 DEF Poll, PollPc
    <2>9. CASE Leave
      BY <2>1, <2>4, <2>9 DEF Leave
    <2>10. CASE Emptied
      BY <2>1, <2>2, <2>10 DEF Emptied, PollPc
    <2>11. CASE Status
      BY <2>2, <2>3, <2>11 DEF Status, PollPc
    <2>. QED  BY <2>5, <2>6, <2>7, <2>8, <2>9, <2>10, <2>11 DEF Looking
  <1>. QED  BY <1>1, <1>4, <1>5, <1>6

\* Semaphore::Wait, the destructor, and what the storing thread does between
\* two accesses to its ring.
LEMMA WaitKeeps == DriverInv /\ Wait => DriverInv'
  <1>. SUFFICES ASSUME DriverInv, Wait PROVE DriverInv'
    OBVIOUS
  <1>. USE DEF DriverInv
  <1>1. /\ UNCHANGED <<config, ring, store, published, exits>>
        /\ count' = count - 1 /\ count > 0 /\ PollGoes("scan", 1)
    BY DEF Wait
  <1>2. request_exit' = request_exit /\ exit_signal' = exit_signal
    BY <1>1 DEF exits
  <1>3. ConfigInv' /\ RingsInv' /\ PublishedInv'
    BY <1>1, ConfigKept, RingsKept, PublishedKept
  <1>4. StoreInv'
    <2>1. count' = 0 /\ store.pc # "signal"  BY <1>1 DEF StoreInv
    <2>. QED  BY <1>1, <2>1, StoreKept
  <1>5. PollInv'
    <2>1. 1 \in Lidar  BY LidarAssumption DEF Lidar
    <2>2. poll' \in [pc : PollPc, lidar : Lidar, frame : Frames \cup {Free}]
          /\ poll'.pc = "scan"
      BY <1>1, <2>1 DEF PollGoes, PollInv, PollPc
    <2>. QED  BY <1>2, <2>2 DEF PollInv
  <1>. QED  BY <1>3, <1>4, <1>5

LEMMA ExitKeeps == DriverInv /\ (RequestExit \/ SignalExit) => DriverInv'
  <1>. SUFFICES ASSUME DriverInv, RequestExit \/ SignalExit PROVE DriverInv'
    OBVIOUS
  <1>. USE DEF DriverInv
  <1>1. UNCHANGED <<config, ring, count, store, poll, published>>
    BY DEF RequestExit, SignalExit
  <1>2. request_exit' \in BOOLEAN /\ exit_signal' \in BOOLEAN
    BY DEF RequestExit, SignalExit, PollInv
  <1>3. ConfigInv' /\ RingsInv' /\ PublishedInv'
    BY <1>1, ConfigKept, RingsKept, PublishedKept
  <1>4. StoreInv'  BY <1>1, StoreKept DEF StoreInv
  <1>5. PollInv'  BY <1>1, <1>2, PollKept
  <1>. QED  BY <1>3, <1>4, <1>5

Waking == CheckPushed \/ ReadCount \/ Signal

LEMMA WakingKeeps == DriverInv /\ Waking => DriverInv'
  <1>. SUFFICES ASSUME DriverInv, Waking PROVE DriverInv'
    OBVIOUS
  <1>. USE DEF DriverInv
  <1>1. UNCHANGED <<config, ring, poll, published, exits>>
    BY DEF Waking, CheckPushed, ReadCount, Signal
  <1>2. request_exit' = request_exit /\ exit_signal' = exit_signal /\ storage' = storage
    BY <1>1 DEF exits, ring
  <1>3. ConfigInv' /\ RingsInv' /\ PublishedInv'
    BY <1>1, ConfigKept, RingsKept, PublishedKept
  <1>4. PollInv'  BY <1>1, <1>2, PollKept DEF PollInv
  <1>5. StoreInv'
    <2>1. /\ store \in [pc : StorePc, lidar : Lidar, frame : Frames \cup {Free}]
          /\ 1 \in Lidar /\ count \in {0, 1}
      BY LidarAssumption DEF StoreInv, Lidar
    <2>2. ASSUME store' = Idle, count' \in {0, 1} PROVE StoreInv'
      <3>1. store' \in [pc : StorePc, lidar : Lidar, frame : Frames \cup {Free}]
            /\ store'.pc = "idle"
        BY <2>1, <2>2 DEF Idle, StorePc
      <3>. QED  BY <2>2, <3>1 DEF StoreInv
    <2>3. ASSUME NEW pc \in {"count", "signal"}, store.pc # "idle",
                 store' = [store EXCEPT !.pc = pc], count' = count,
                 pc = "signal" => count = 0
          PROVE  StoreInv'
      <3>1. store' \in [pc : StorePc, lidar : Lidar, frame : Frames \cup {Free}]
            /\ store'.pc = pc /\ store'.lidar = store.lidar
        BY <2>1, <2>3 DEF StorePc
      <3>2. storage[store.lidar] \in Ring(store.lidar)
        BY <2>3 DEF StoreInv
      <3>3. (storage[store.lidar] \in Ring(store.lidar))'
        BY <1>2, <3>1, <3>2 DEF Ring
      <3>. QED  BY <2>1, <2>3, <3>1, <3>3 DEF StoreInv
    <2>4. CASE CheckPushed
      BY <2>1, <2>2, <2>3, <2>4 DEF CheckPushed
    <2>5. CASE ReadCount
      BY <2>1, <2>2, <2>3, <2>5 DEF ReadCount
    <2>6. CASE Signal
      BY <2>1, <2>2, <2>6 DEF Signal, StoreInv
    <2>. QED  BY <2>4, <2>5, <2>6 DEF Waking
  <1>. QED  BY <1>3, <1>4, <1>5

-----------------------------------------------------------------------------
(* The steps that change a ring.                                            *)

\* PushLidarData: a lidar's first frame brings its ring, with nothing in it.
LEMMA FrameReadyKeeps ==
  ASSUME DriverInv, NEW l \in Lidar, NEW f \in Frame[l], FrameReady(l, f)
  PROVE  /\ DriverInv'
         /\ published' = published
         /\ \A k \in Lidar : Used(k)' = Used(k)
         /\ \A k \in Lidar : \A i \in 0 .. Used(k) - 1 : Stored(k, i)' = Stored(k, i)
  <1>. USE DEF DriverInv
  <1>1. /\ store.pc = "idle" /\ store' = [pc |-> "write", lidar |-> l, frame |-> f]
        /\ UNCHANGED <<config, wr_idx, rd_idx, count, poll, published, exits>>
    BY DEF FrameReady
  <1>2. request_exit' = request_exit /\ exit_signal' = exit_signal
    BY <1>1 DEF exits
  <1>3. \A k \in Lidar : Used(k)' = Used(k)  BY <1>1 DEF Used
  <1>4. [i \in 0 .. Size - 1 |-> Free] \in Ring(l)  BY DEF Ring
  <1>5. /\ storage' = [k \in Lidar |-> storage'[k]]
        /\ storage'[l] \in Ring(l)
        /\ \A k \in Lidar : k # l => storage'[k] = storage[k]
    BY <1>4 DEF FrameReady, RingsInv, RingInv
  <1>6. storage[l] # << >> => storage'[l] = storage[l]
    BY DEF FrameReady
  <1>7. storage[l] = << >> => Used(l) = 0
    <2>1. Used(l) = 0 \/ storage[l] \in Ring(l)  BY DEF RingsInv, RingInv
    <2>2. << >> \notin Ring(l)
      <3>1. 0 \in 0 .. Size - 1 /\ 0 \notin 1 .. 0  BY Sizes
      <3>2. DOMAIN << >> = {}  OBVIOUS
      <3>. QED  BY <3>1, <3>2 DEF Ring
    <2>. QED  BY <2>1, <2>2
  <1>8. ASSUME NEW k \in Lidar, NEW i \in 0 .. Used(k) - 1
        PROVE  Stored(k, i)' = Stored(k, i)
    <2>1. Used(k) # 0  BY <1>8, Indices
    <2>2. storage'[k] = storage[k]  BY <1>5, <1>6, <1>7, <2>1
    <2>. QED  BY <1>1, <2>2 DEF Stored
  <1>9. ConfigInv' /\ PublishedInv'
    BY <1>1, ConfigKept, PublishedKept
  <1>10. RingsInv'
    <2>1. ASSUME NEW k \in Lidar PROVE RingInv(k)'
      <3>1. RingInv(k)  BY DEF RingsInv
      <3>2. (storage[k] \in Ring(k) \/ (storage[k] = << >> /\ Used(k) = 0))'
        BY <1>3, <1>5, <3>1 DEF RingInv, Ring
      <3>3. (\A i \in 0 .. Used(k) - 1 : Stored(k, i) \in Frame[k])'
        BY <1>3, <1>8, <3>1 DEF RingInv
      <3>. QED  BY <1>3, <3>1, <3>2, <3>3 DEF RingInv
    <2>. QED  BY <1>1, <1>5, <2>1 DEF RingsInv
  <1>11. StoreInv'
    <2>1. f \in Frames  BY DEF Frames
    <2>2. store' \in [pc : StorePc, lidar : Lidar, frame : Frames \cup {Free}]
      BY <1>1, <2>1 DEF StorePc
    <2>3. store'.pc = "write" /\ store'.lidar = l /\ store'.frame = f
      BY <1>1
    <2>4. (storage[store.lidar] \in Ring(store.lidar))'
      BY <1>5, <2>3 DEF Ring
    <2>. QED  BY <1>1, <2>2, <2>3, <2>4 DEF StoreInv
  <1>12. PollInv'
    <2>1. poll.pc = "pop" => Stored(poll.lidar, 0)' = Stored(poll.lidar, 0)
      <3>. SUFFICES ASSUME poll.pc = "pop" PROVE Stored(poll.lidar, 0)' = Stored(poll.lidar, 0)
        OBVIOUS
      <3>. DEFINE k == poll.lidar
      <3>1. k \in Lidar /\ Used(k) > 0  BY DEF PollInv
      <3>2. 0 \in 0 .. Used(k) - 1  BY <3>1, Indices
      <3>3. Stored(k, 0)' = Stored(k, 0)
        <4>1. UNCHANGED k  BY <1>1
        <4>2. storage'[k] = storage[k]  BY <1>5, <1>6, <1>7, <3>1
        <4>. QED  BY <1>1, <4>1, <4>2 DEF Stored
      <3>. QED  BY <3>3
    <2>. QED  BY <1>1, <1>2, <1>3, <2>1 DEF PollInv
  <1>. QED  BY <1>1, <1>3, <1>8, <1>9, <1>10, <1>11, <1>12

\* QueuePushAny's copy: the slot it writes holds no frame still to publish.
LEMMA StoreFrameKeeps ==
  ASSUME DriverInv, StoreFrame
  PROVE  /\ DriverInv'
         /\ published' = published
         /\ \A k \in Lidar : Used(k)' = Used(k)
         /\ \A k \in Lidar : \A i \in 0 .. Used(k) - 1 : Stored(k, i)' = Stored(k, i)
  <1>. USE DEF DriverInv
  <1>0. PICK l \in Lidar : l = store.lidar  BY DEF StoreInv
  <1>. DEFINE w == wr_idx[l]
              r == rd_idx[l]
              u == Used(l)
  <1>1. /\ store.pc = "write" /\ l = store.lidar /\ store.frame \in Frame[l]
        /\ store \in [pc : StorePc, lidar : Lidar, frame : Frames \cup {Free}]
        /\ UNCHANGED <<config, wr_idx, rd_idx, count, poll, published, exits>>
    BY <1>0 DEF StoreFrame, StoreInv
  <1>2. request_exit' = request_exit /\ exit_signal' = exit_signal
    BY <1>1 DEF exits
  <1>3. \A k \in Lidar : Used(k)' = Used(k)  BY <1>1 DEF Used
  <1>4. storage[l] \in Ring(l)  BY <1>1 DEF StoreInv
  <1>5. /\ w \in 0 .. Width - 1 /\ r \in 0 .. Width - 1 /\ u = Dist(w, r)
        /\ u \in Nat /\ Width \in Nat /\ Size \in Nat
    BY <1>1, Indices, Sizes
  <1>6. Slot(w) = Slot(r + u)  BY <1>5, WrittenSlot
  <1>7. Slot(w) \in 0 .. Size - 1  BY <1>5, SlotType
  <1>8. \/ /\ u > Size - 1 /\ storage' = storage
           /\ store' = [store EXCEPT !.pc = "count", !.frame = Free]
        \/ /\ ~(u > Size - 1)
           /\ storage' = [storage EXCEPT ![l] = [storage[l] EXCEPT ![Slot(w)] = store.frame]]
           /\ store' = [store EXCEPT !.pc = "advance", !.frame = Free]
    BY <1>0 DEF StoreFrame, Full
  <1>9. /\ storage' = [k \in Lidar |-> storage'[k]]
        /\ storage'[l] \in Ring(l)
        /\ \A k \in Lidar : k # l => storage'[k] = storage[k]
    <2>1. [storage[l] EXCEPT ![Slot(w)] = store.frame] \in Ring(l)
      BY <1>1, <1>4, <1>7 DEF Ring
    <2>. HIDE DEF w, r, u
    <2>. QED  BY <1>1, <1>4, <1>8, <2>1 DEF RingsInv
  <1>10. ASSUME NEW k \in Lidar, NEW i \in 0 .. Used(k) - 1
         PROVE  Stored(k, i)' = Stored(k, i)
    <2>1. CASE storage' = storage
      BY <1>1, <2>1 DEF Stored
    <2>2. CASE storage' # storage
      <3>1. CASE k # l
        <4>1. storage'[k] = storage[k]  BY <1>9, <3>1
        <4>. QED  BY <1>1, <4>1 DEF Stored
      <3>2. CASE k = l
        <4>1. /\ u < Size /\ i \in Nat /\ i < u
              /\ r + i \in Nat /\ r + u \in Nat
              /\ r + i < r + u /\ r + u < (r + i) + Size
          BY <1>5, <1>8, <2>2, <3>2
        <4>2. Slot(r + i) # Slot(r + u)  BY <4>1, SlotsDiffer
        <4>3. Slot(r + i) \in 0 .. Size - 1  BY <4>1, SlotType
        <4>4. storage'[l] = [storage[l] EXCEPT ![Slot(w)] = store.frame]
          BY <1>1, <1>8, <2>2 DEF RingsInv
        <4>5. storage'[l][Slot(r + i)] = storage[l][Slot(r + i)]
          <5>. DEFINE a == Slot(r + i)
                      b == Slot(w)
          <5>1. a # b /\ a \in 0 .. Size - 1  BY <1>6, <4>2, <4>3
          <5>2. storage'[l] = [storage[l] EXCEPT ![b] = store.frame]  BY <4>4
          <5>. HIDE DEF a, b
          <5>3. storage'[l][a] = storage[l][a]  BY <1>4, <5>1, <5>2 DEF Ring
          <5>. QED  BY <5>3 DEF a
        <4>6. Stored(l, i) = storage[l][Slot(r + i)]  BY DEF Stored
        <4>7. Stored(k, i)' = storage'[k][Slot(rd_idx[k] + i)]
          BY <1>1 DEF Stored
        <4>8. Stored(k, i) = storage[k][Slot(rd_idx[k] + i)]  BY DEF Stored
        <4>. QED  BY <3>2, <4>5, <4>7, <4>8
      <3>. QED  BY <3>1, <3>2
    <2>. QED  BY <2>1, <2>2
  <1>11. ConfigInv' /\ PublishedInv'
    BY <1>1, ConfigKept, PublishedKept
  <1>12. RingsInv'
    <2>1. ASSUME NEW k \in Lidar PROVE RingInv(k)'
      <3>1. RingInv(k)  BY DEF RingsInv
      <3>2. (storage[k] \in Ring(k) \/ (storage[k] = << >> /\ Used(k) = 0))'
        BY <1>3, <1>9, <3>1 DEF RingInv, Ring
      <3>3. (\A i \in 0 .. Used(k) - 1 : Stored(k, i) \in Frame[k])'
        BY <1>3, <1>10, <3>1 DEF RingInv
      <3>. QED  BY <1>3, <3>1, <3>2, <3>3 DEF RingInv
    <2>. QED  BY <1>1, <1>9, <2>1 DEF RingsInv
  <1>13. StoreInv'
    <2>1. /\ store' \in [pc : StorePc, lidar : Lidar, frame : Frames \cup {Free}]
          /\ store'.lidar = l /\ store'.pc \in {"count", "advance"}
      BY <1>1, <1>8 DEF StorePc
    <2>2. (storage[store.lidar] \in Ring(store.lidar))'
      BY <1>9, <2>1 DEF Ring
    <2>3. store'.pc = "advance" =>
            /\ (Used(store.lidar) < Size)'
            /\ (Stored(store.lidar, Used(store.lidar)) \in Frame[store.lidar])'
      <3>. SUFFICES ASSUME store'.pc = "advance"
                    PROVE  /\ (Used(store.lidar) < Size)'
                           /\ (Stored(store.lidar, Used(store.lidar)) \in Frame[store.lidar])'
        OBVIOUS
      <3>1. ~(u > Size - 1) /\ storage'[l] = [storage[l] EXCEPT ![Slot(w)] = store.frame]
        BY <1>1, <1>8 DEF RingsInv
      <3>2. storage'[l][Slot(w)] = store.frame
        BY <1>4, <1>7, <3>1 DEF Ring
      <3>3. storage'[l][Slot(r + u)] \in Frame[l]
        BY <1>1, <1>6, <3>2
      <3>4. Used(l)' = u  BY <1>3
      <3>5. (Used(store.lidar) < Size)'
        <4>1. u < Size  BY <1>5, <3>1
        <4>2. Used(store.lidar)' = Used(l)'  BY <2>1 DEF Used
        <4>. QED  BY <3>4, <4>1, <4>2
      <3>6. Stored(store.lidar, Used(store.lidar))' = storage'[l][Slot(rd_idx'[l] + Used(l)')]
        BY <2>1 DEF Stored, Used
      <3>7. rd_idx'[l] + Used(l)' = r + u  BY <1>1, <3>4
      <3>8. Frame[store'.lidar] = Frame[l]  BY <2>1
      <3>. QED  BY <3>3, <3>5, <3>6, <3>7, <3>8
    <2>. QED  BY <1>1, <2>1, <2>2, <2>3 DEF StoreInv
  <1>14. PollInv'
    <2>1. ASSUME poll.pc = "pop"
          PROVE  (Used(poll.lidar) > 0 /\ poll.frame = Stored(poll.lidar, 0))'
      <3>1. poll.lidar \in Lidar /\ Used(poll.lidar) > 0 /\ poll.frame = Stored(poll.lidar, 0)
        BY <2>1 DEF PollInv
      <3>2. 0 \in 0 .. Used(poll.lidar) - 1  BY <3>1, Indices
      <3>3. \A k \in Lidar : Used(k) > 0 => storage'[k][Slot(rd_idx[k] + 0)] = storage[k][Slot(rd_idx[k] + 0)]
        <4>. SUFFICES ASSUME NEW k \in Lidar, Used(k) > 0 PROVE Stored(k, 0)' = Stored(k, 0)
          BY <1>1 DEF Stored
        <4>1. 0 \in 0 .. Used(k) - 1  BY Indices
        <4>. QED  BY <1>10, <4>1
      <3>4. Stored(poll.lidar, 0)' = Stored(poll.lidar, 0)
        BY <1>1, <3>1, <3>3 DEF Stored
      <3>5. Used(poll.lidar)' = Used(poll.lidar)
        BY <1>1 DEF Used
      <3>. QED  BY <1>1, <3>1, <3>4, <3>5
    <2>. QED  BY <1>1, <1>2, <2>1 DEF PollInv
  <1>. QED  BY <1>1, <1>3, <1>10, <1>11, <1>12, <1>13, <1>14

\* QueuePushAny's wr_idx++: the frame just written becomes the ring's last.
LEMMA AdvanceKeeps ==
  ASSUME DriverInv, Advance
  PROVE  /\ DriverInv'
         /\ published' = published
         /\ \E l \in Lidar :
              /\ Used(l) < Size /\ Used(l)' = Used(l) + 1
              /\ Stored(l, Used(l)) \in Frame[l]
              /\ \A k \in Lidar \ {l} : Used(k)' = Used(k)
              /\ \A k \in Lidar, i \in Nat : Stored(k, i)' = Stored(k, i)
  <1>. USE DEF DriverInv
  <1>0. PICK l \in Lidar : l = store.lidar  BY DEF StoreInv
  <1>. DEFINE w == wr_idx[l]
              r == rd_idx[l]
  <1>1. /\ store.pc = "advance"
        /\ store \in [pc : StorePc, lidar : Lidar, frame : Frames \cup {Free}]
        /\ wr_idx' = [wr_idx EXCEPT ![l] = (w + 1) % Width]
        /\ store' = [store EXCEPT !.pc = "pushed"]
        /\ UNCHANGED <<config, storage, rd_idx, count, poll, published, exits>>
    BY <1>0 DEF Advance, StoreInv
  <1>2. request_exit' = request_exit /\ exit_signal' = exit_signal
    BY <1>1 DEF exits
  <1>3. /\ w \in 0 .. Width - 1 /\ r \in 0 .. Width - 1
        /\ Used(l) = Dist(w, r) /\ Used(l) \in Nat
    BY Indices
  <1>4. Used(l) < Size /\ Stored(l, Used(l)) \in Frame[l] /\ storage[l] \in Ring(l)
    BY <1>0, <1>1 DEF StoreInv
  <1>5. wr_idx' \in [Lidar -> 0 .. Width - 1]
    <2>. DEFINE v == (w + 1) % Width
    <2>1. v \in 0 .. Width - 1  BY <1>3, Onward
    <2>. HIDE DEF v
    <2>2. wr_idx' = [wr_idx EXCEPT ![l] = v]  BY <1>1 DEF v
    <2>. QED  BY <2>1, <2>2 DEF RingsInv
  <1>6. wr_idx'[l] = (w + 1) % Width /\ rd_idx'[l] = r
    BY <1>1 DEF RingsInv
  <1>7. \A k \in Lidar \ {l} : wr_idx'[k] = wr_idx[k] /\ rd_idx'[k] = rd_idx[k]
    BY <1>1 DEF RingsInv
  <1>8. Used(l)' = Used(l) + 1
    <2>1. Used(l)' = Dist((w + 1) % Width, r)  BY <1>6 DEF Used, Dist
    <2>. QED  BY <1>3, <1>4, <2>1, DistNext
  <1>9. \A k \in Lidar \ {l} : Used(k)' = Used(k)  BY <1>7 DEF Used
  <1>10. \A k \in Lidar, i \in Nat : Stored(k, i)' = Stored(k, i)
    BY <1>1 DEF Stored
  <1>11. ConfigInv' /\ PublishedInv'  BY <1>1, ConfigKept, PublishedKept
  <1>12. RingsInv'
    <2>1. ASSUME NEW k \in Lidar PROVE RingInv(k)'
      <3>1. RingInv(k) /\ Used(k) \in Nat  BY Indices DEF RingsInv
      <3>2. CASE k # l
        <4>1. Used(k)' = Used(k)  BY <1>9, <3>2
        <4>. QED  BY <1>1, <1>10, <3>1, <4>1 DEF RingInv, Ring
      <3>3. CASE k = l
        <4>1. Used(k)' = Used(k) + 1 /\ Used(k) < Size  BY <1>4, <1>8, <3>3
        <4>2. (Used(k) <= Size)'  BY <3>1, <4>1, Sizes
        <4>3. (storage[k] \in Ring(k))'  BY <1>1, <1>4, <3>3 DEF Ring
        <4>4. ASSUME NEW i \in 0 .. Used(k) PROVE Stored(k, i)' \in Frame[k]
          <5>1. i \in 0 .. Used(k) - 1 \/ i = Used(k)  BY <3>1
          <5>2. i \in Nat  BY <3>1
          <5>3. Stored(k, i) \in Frame[k]  BY <1>4, <3>1, <3>3, <5>1 DEF RingInv
          <5>. QED  BY <1>10, <5>2, <5>3
        <4>5. 0 .. (Used(k)' - 1) = 0 .. Used(k)  BY <3>1, <4>1
        <4>6. (\A i \in 0 .. Used(k) - 1 : Stored(k, i) \in Frame[k])'
          BY <4>4, <4>5
        <4>. QED  BY <4>2, <4>3, <4>6 DEF RingInv
      <3>. QED  BY <3>2, <3>3
    <2>. QED  BY <1>1, <1>5, <2>1 DEF RingsInv
  <1>13. StoreInv'
    <2>1. /\ store' \in [pc : StorePc, lidar : Lidar, frame : Frames \cup {Free}]
          /\ store'.lidar = l /\ store'.pc = "pushed"
      BY <1>0, <1>1 DEF StorePc
    <2>2. (storage[store.lidar] \in Ring(store.lidar))'
      BY <1>1, <1>4, <2>1 DEF Ring
    <2>. QED  BY <1>1, <2>1, <2>2 DEF StoreInv
  <1>14. PollInv'
    <2>1. ASSUME poll.pc = "pop"
          PROVE  (Used(poll.lidar) > 0 /\ poll.frame = Stored(poll.lidar, 0))'
      <3>0. PICK k \in Lidar : k = poll.lidar  BY DEF PollInv
      <3>1. Used(k) > 0 /\ poll.frame = Stored(k, 0) /\ Used(k) \in Nat
        BY <2>1, <3>0, Indices DEF PollInv
      <3>2. Used(k)' > 0  BY <1>8, <1>9, <3>1
      <3>3. poll'.lidar = k /\ poll'.frame = poll.frame  BY <1>1, <3>0
      <3>4. Stored(k, 0)' = Stored(k, 0)  BY <1>10
      <3>5. (Used(poll.lidar) = Used(k) /\ Stored(poll.lidar, 0) = Stored(k, 0))'
        BY <3>3
      <3>. QED  BY <3>1, <3>2, <3>3, <3>4, <3>5
    <2>. QED  BY <1>1, <1>2, <2>1 DEF PollInv
  <1>. QED  BY <1>1, <1>4, <1>8, <1>9, <1>10, <1>11, <1>12, <1>13, <1>14

\* QueuePopUpdate: the frame published is the ring's first, which leaves it.
LEMMA PopKeeps ==
  ASSUME DriverInv, Pop
  PROVE  /\ DriverInv'
         /\ \E l \in Lidar :
              /\ Used(l) > 0 /\ Used(l)' = Used(l) - 1
              /\ published' = [published EXCEPT ![l] = {Stored(l, 0)}]
              /\ \A i \in Nat : Stored(l, i)' = Stored(l, i + 1)
              /\ \A k \in Lidar \ {l} :
                   /\ Used(k)' = Used(k)
                   /\ \A i \in Nat : Stored(k, i)' = Stored(k, i)
  <1>. USE DEF DriverInv
  <1>0. PICK l \in Lidar : l = poll.lidar  BY DEF PollInv
  <1>. DEFINE w == wr_idx[l]
              r == rd_idx[l]
  <1>1. /\ poll.pc = "pop" /\ Used(l) > 0 /\ poll.frame = Stored(l, 0)
        /\ poll \in [pc : PollPc, lidar : Lidar, frame : Frames \cup {Free}]
        /\ rd_idx' = [rd_idx EXCEPT ![l] = (r + 1) % Width]
        /\ published' = [published EXCEPT ![l] = {poll.frame}]
        /\ poll' = [poll EXCEPT !.pc = "copy", !.frame = Free]
        /\ UNCHANGED <<config, storage, wr_idx, count, store, exits>>
    BY <1>0 DEF Pop, PollInv
  <1>2. request_exit' = request_exit /\ exit_signal' = exit_signal
    BY <1>1 DEF exits
  <1>3. /\ w \in 0 .. Width - 1 /\ r \in 0 .. Width - 1
        /\ Used(l) = Dist(w, r) /\ Used(l) \in Nat
    BY Indices
  <1>4. storage[l] \in Ring(l)  BY <1>1 DEF RingsInv, RingInv
  <1>5. rd_idx' \in [Lidar -> 0 .. Width - 1]
    <2>. DEFINE v == (r + 1) % Width
    <2>1. v \in 0 .. Width - 1  BY <1>3, Onward
    <2>. HIDE DEF v
    <2>2. rd_idx' = [rd_idx EXCEPT ![l] = v]  BY <1>1 DEF v
    <2>. QED  BY <2>1, <2>2 DEF RingsInv
  <1>6. rd_idx'[l] = (r + 1) % Width /\ wr_idx'[l] = w
    BY <1>1 DEF RingsInv
  <1>7. \A k \in Lidar \ {l} : wr_idx'[k] = wr_idx[k] /\ rd_idx'[k] = rd_idx[k]
    BY <1>1 DEF RingsInv
  <1>8. Used(l)' = Used(l) - 1
    <2>1. Used(l)' = Dist(w, (r + 1) % Width)  BY <1>6 DEF Used, Dist
    <2>. QED  BY <1>1, <1>3, <2>1, DistPrevious
  <1>9. \A k \in Lidar \ {l} : Used(k)' = Used(k)  BY <1>7 DEF Used
  <1>10. \A k \in Lidar \ {l} : \A i \in Nat : Stored(k, i)' = Stored(k, i)
    BY <1>1, <1>7 DEF Stored
  <1>11. ASSUME NEW i \in Nat PROVE Stored(l, i)' = Stored(l, i + 1)
    <2>1. Slot(((r + 1) % Width) + i) = Slot(r + (i + 1))  BY <1>3, SlotNext
    <2>2. Stored(l, i)' = storage[l][Slot(((r + 1) % Width) + i)]
      BY <1>1, <1>6 DEF Stored
    <2>. QED  BY <2>1, <2>2 DEF Stored
  <1>12. ConfigInv'  BY <1>1, ConfigKept
  <1>13. PublishedInv'
    <2>1. poll.frame \in Frame[l]
      <3>1. 0 \in 0 .. Used(l) - 1  BY <1>1, <1>3
      <3>. QED  BY <1>1, <3>1 DEF RingsInv, RingInv
    <2>. QED  BY <1>1, <2>1 DEF PublishedInv
  <1>14. RingsInv'
    <2>1. ASSUME NEW k \in Lidar PROVE RingInv(k)'
      <3>1. RingInv(k) /\ Used(k) \in Nat  BY Indices DEF RingsInv
      <3>2. CASE k # l
        <4>1. Used(k)' = Used(k)  BY <1>9, <3>2
        <4>. QED  BY <1>1, <1>10, <3>1, <3>2, <4>1 DEF RingInv, Ring
      <3>3. CASE k = l
        <4>1. Used(k)' = Used(k) - 1 /\ Used(k) > 0  BY <1>1, <1>8, <3>3
        <4>2. (Used(k) <= Size)'  BY <3>1, <4>1, Sizes DEF RingInv
        <4>3. (storage[k] \in Ring(k))'  BY <1>1, <1>4, <3>3 DEF Ring
        <4>4. ASSUME NEW i \in 0 .. Used(k) - 2 PROVE Stored(k, i)' \in Frame[k]
          <5>1. i \in Nat /\ i + 1 \in 0 .. Used(k) - 1  BY <3>1
          <5>2. Stored(k, i + 1) \in Frame[k]  BY <3>1, <5>1 DEF RingInv
          <5>. QED  BY <1>11, <3>3, <5>1, <5>2
        <4>5. 0 .. (Used(k)' - 1) = 0 .. Used(k) - 2  BY <3>1, <4>1
        <4>6. (\A i \in 0 .. Used(k) - 1 : Stored(k, i) \in Frame[k])'
          BY <4>4, <4>5
        <4>. QED  BY <4>2, <4>3, <4>6 DEF RingInv
      <3>. QED  BY <3>2, <3>3
    <2>. QED  BY <1>1, <1>5, <2>1 DEF RingsInv
  <1>15. StoreInv'
    <2>0. PICK k \in Lidar : k = store.lidar  BY DEF StoreInv
    <2>1. store' = store /\ count' = count /\ store'.lidar = k  BY <1>1, <2>0
    <2>2. (storage[k] \in Ring(k))' <=> storage[k] \in Ring(k)  BY <1>1 DEF Ring
    <2>3. ASSUME store.pc = "advance"
          PROVE  (Used(k) < Size)' /\ (Stored(k, Used(k)) \in Frame[k])'
      <3>1. Used(k) < Size /\ Stored(k, Used(k)) \in Frame[k] /\ Used(k) \in Nat
        BY <2>0, <2>3, Indices DEF StoreInv
      <3>2. CASE k # l
        <4>2. storage'[k][Slot(rd_idx'[k] + Used(k)')] = storage[k][Slot(rd_idx[k] + Used(k))]
          BY <1>1, <1>7, <1>9, <3>2
        <4>3. (Stored(k, Used(k)) \in Frame[k])'  BY <3>1, <4>2 DEF Stored
        <4>. QED  BY <1>9, <3>1, <3>2, <4>3
      <3>3. CASE k = l
        <4>. DEFINE u == Used(k)
        <4>1. PICK i \in Nat : i = u - 1  BY <1>1, <3>1, <3>3
        <4>2. Stored(l, i)' = Stored(l, i + 1) /\ i + 1 = u  BY <1>11, <3>1, <4>1
        <4>3. Used(k)' = i  BY <1>8, <3>3, <4>1
        <4>4. storage'[k][Slot(rd_idx'[k] + i)] \in Frame[k]
          BY <3>1, <3>3, <4>2 DEF Stored
        <4>5. (Stored(k, Used(k)) \in Frame[k])'  BY <4>3, <4>4 DEF Stored
        <4>6. (Used(k) < Size)'  BY <3>1, <4>1, <4>3, Sizes
        <4>. QED  BY <4>5, <4>6
      <3>. QED  BY <3>2, <3>3
    <2>4. (store.pc = "advance" => /\ Used(store.lidar) < Size
              /\ Stored(store.lidar, Used(store.lidar)) \in Frame[store.lidar])'
      BY <2>1, <2>3
    <2>5. (store.pc # "idle" => storage[store.lidar] \in Ring(store.lidar))'
      BY <2>0, <2>1, <2>2 DEF StoreInv
    <2>. QED  BY <2>1, <2>4, <2>5 DEF StoreInv
  <1>16. PollInv'
    <2>1. poll' \in [pc : PollPc, lidar : Lidar, frame : Frames \cup {Free}]
          /\ poll'.pc = "copy"
      BY <1>1 DEF PollPc
    <2>. QED  BY <1>2, <2>1 DEF PollInv
  <1>17. published' = [published EXCEPT ![l] = {Stored(l, 0)}]  BY <1>1
  <1>. QED  BY <1>1, <1>8, <1>9, <1>10, <1>11, <1>12, <1>13, <1>14, <1>15, <1>16, <1>17

-----------------------------------------------------------------------------
(* Every step keeps the invariant.                                          *)

LEMMA NextKeeps == DriverInv /\ [Next]_vars => DriverInv'
  <1>. SUFFICES ASSUME DriverInv, [Next]_vars PROVE DriverInv'
    OBVIOUS
  <1>1. CASE Sdk  BY <1>1, SdkKeeps
  <1>2. CASE Looking  BY <1>2, LookingKeeps
  <1>3. CASE Wait  BY <1>3, WaitKeeps
  <1>4. CASE Pop  BY <1>4, PopKeeps
  <1>5. CASE StoreFrame  BY <1>5, StoreFrameKeeps
  <1>6. CASE Advance  BY <1>6, AdvanceKeeps
  <1>7. CASE Waking  BY <1>7, WakingKeeps
  <1>8. CASE RequestExit \/ SignalExit  BY <1>8, ExitKeeps
  <1>9. CASE \E l \in Lidar : Arrive(l)
    BY <1>9, FrameReadyKeeps DEF Arrive
  <1>10. CASE UNCHANGED vars
    <2>1. UNCHANGED <<config, ring, count, store, poll, published, exits>>
      BY <1>10 DEF vars
    <2>2. request_exit' = request_exit /\ exit_signal' = exit_signal
      BY <2>1 DEF exits
    <2>. QED
      BY <2>1, <2>2, ConfigKept, RingsKept, PublishedKept, StoreKept, PollKept
      DEF DriverInv, StoreInv, PollInv
  <1>. QED
    BY <1>1, <1>2, <1>3, <1>4, <1>5, <1>6, <1>7, <1>8, <1>9, <1>10
    DEF Next, Storing, Polling, Looking, Waking

\* Three threads without a lock keep the driver's state consistent.
THEOREM DriverInvariant == Spec => []DriverInv
  BY InitDriver, NextKeeps, PTL DEF Spec

\* The types hold in every reachable state, for every number of lidars.
THEOREM DriverTypeCorrect == Spec => []TypeOK
  BY DriverInvariant, DriverTypes, PTL

\* No lidar waits for the answer to a setting that nobody will give
\* (livox_lidar_callback.cpp 62-92, 140-160).
THEOREM NoOrphans == Spec => []NoOrphanedSetting
  BY DriverInvariant, DriverTypes, PTL

-----------------------------------------------------------------------------
(* Each ring is a queue.                                                    *)

LEMMA FunctionIsSeq ==
  ASSUME NEW S, NEW n \in Nat, NEW f \in [1 .. n -> S]
  PROVE  f \in Seq(S) /\ Len(f) = n
  <1>1. f \in Seq(S)  BY SeqDef
  <1>. QED  BY <1>1, LenProperties

LEMMA Appended ==
  ASSUME NEW S, NEW n \in Nat, NEW f \in [1 .. n -> S],
         NEW g \in [1 .. (n + 1) -> S],
         \A i \in 1 .. n : g[i] = f[i]
  PROVE  g = Append(f, g[n + 1])
  <1>1. f \in Seq(S) /\ Len(f) = n  BY FunctionIsSeq
  <1>2. g \in Seq(S) /\ Len(g) = n + 1  BY FunctionIsSeq
  <1>. DEFINE e == g[n + 1]
              h == Append(f, e)
  <1>3. e \in S  OBVIOUS
  <1>4. /\ h \in Seq(S) /\ Len(h) = n + 1
        /\ \A i \in 1 .. n : h[i] = f[i]
        /\ h[n + 1] = e
    BY <1>1, <1>3, AppendProperties
  <1>5. \A i \in 1 .. (n + 1) : i \in 1 .. n \/ i = n + 1  OBVIOUS
  <1>6. \A i \in 1 .. (n + 1) : g[i] = h[i]  BY <1>4, <1>5
  <1>. HIDE DEF h
  <1>7. g = h  BY <1>2, <1>4, <1>6, SeqEqual
  <1>. QED  BY <1>7 DEF h

LEMMA Shortened ==
  ASSUME NEW S, NEW n \in Nat, n > 0, NEW f \in [1 .. n -> S],
         NEW g \in [1 .. (n - 1) -> S],
         \A i \in 1 .. (n - 1) : g[i] = f[i + 1]
  PROVE  f # << >> /\ Head(f) = f[1] /\ g = Tail(f)
  <1>1. f \in Seq(S) /\ Len(f) = n  BY FunctionIsSeq
  <1>2. g \in Seq(S) /\ Len(g) = n - 1  BY FunctionIsSeq
  <1>3. f # << >>  BY <1>1
  <1>4. Head(f) = f[1]  BY <1>1, <1>3
  <1>. DEFINE h == Tail(f)
  <1>5. h \in Seq(S) /\ Len(h) = n - 1 /\ \A i \in 1 .. (n - 1) : h[i] = f[i + 1]
    BY <1>1, <1>3, HeadTailProperties
  <1>. HIDE DEF h
  <1>6. g = h  BY <1>2, <1>5, SeqEqual
  <1>. QED  BY <1>3, <1>4, <1>6 DEF h

\* The queue a ring stands for.
UnreadIs(l) == /\ Used(l) \in 0 .. Size
               /\ Unread(l) \in [1 .. Used(l) -> Frame[l]]
               /\ \A i \in 0 .. Used(l) - 1 : Unread(l)[i + 1] = Stored(l, i)

LEMMA UnreadFrames ==
  ASSUME DriverInv, NEW l \in Lidar
  PROVE  UnreadIs(l)
  <1>1. Used(l) \in Nat /\ rd_idx[l] \in Nat  BY Indices DEF DriverInv
  <1>2. \A i \in 0 .. Used(l) - 1 : Stored(l, i) \in Frame[l]
    BY DEF DriverInv, RingsInv, RingInv
  <1>3. ASSUME NEW j \in 1 .. Used(l)
        PROVE  storage[l][Slot(rd_idx[l] + j - 1)] = Stored(l, j - 1)
    <2>1. rd_idx[l] + j - 1 = rd_idx[l] + (j - 1)  BY <1>1
    <2>. QED  BY <2>1 DEF Stored
  <1>4. \A j \in 1 .. Used(l) : Unread(l)[j] = Stored(l, j - 1)
    BY <1>3 DEF Unread
  <1>5. \A j \in 1 .. Used(l) : j - 1 \in 0 .. Used(l) - 1  BY <1>1
  <1>6. Unread(l) \in [1 .. Used(l) -> Frame[l]]
    BY <1>2, <1>3, <1>5 DEF Unread
  <1>7. ASSUME NEW i \in 0 .. Used(l) - 1 PROVE Unread(l)[i + 1] = Stored(l, i)
    <2>1. i + 1 \in 1 .. Used(l) /\ (i + 1) - 1 = i  BY <1>1
    <2>. QED  BY <1>4, <2>1
  <1>8. Used(l) \in 0 .. Size  BY <1>1, Indices, Sizes DEF DriverInv
  <1>. QED  BY <1>6, <1>7, <1>8 DEF UnreadIs

LEMMA AllUnread == DriverInv => \A l \in Lidar : UnreadIs(l)
  BY UnreadFrames

LEMMA AllUnreadNext == (DriverInv => \A l \in Lidar : UnreadIs(l))'
  BY AllUnread, PTL

LEMMA SameFunction ==
  ASSUME NEW D, NEW S, NEW f \in [D -> S], NEW g \in [D -> S],
         \A d \in D : f[d] = g[d]
  PROVE  f = g
  OBVIOUS

\* A step that keeps a ring's frames keeps the queue.
LEMMA SameQueue ==
  ASSUME NEW l \in Lidar, UnreadIs(l), UnreadIs(l)', Used(l)' = Used(l),
         \A i \in 0 .. Used(l) - 1 : Stored(l, i)' = Stored(l, i)
  PROVE  Unread(l)' = Unread(l)
  <1>. DEFINE n == Used(l)
  <1>1. n \in Nat  BY Sizes DEF UnreadIs
  <1>2. Unread(l) \in [1 .. n -> Frame[l]] /\ Unread(l)' \in [1 .. n -> Frame[l]]
    BY DEF UnreadIs
  <1>3. ASSUME NEW j \in 1 .. n PROVE Unread(l)'[j] = Unread(l)[j]
    <2>1. PICK i \in 0 .. n - 1 : i + 1 = j
      <3>1. j - 1 \in 0 .. n - 1 /\ (j - 1) + 1 = j  BY <1>1
      <3>. QED  BY <3>1
    <2>2. Unread(l)[i + 1] = Stored(l, i)  BY DEF UnreadIs
    <2>3. i \in 0 .. (Used(l)' - 1)  BY <2>1
    <2>4. Unread(l)'[i + 1] = Stored(l, i)'  BY <2>3 DEF UnreadIs
    <2>. QED  BY <2>1, <2>2, <2>4
  <1>4. PICK D : D = 1 .. n  OBVIOUS
  <1>5. Unread(l) \in [D -> Frame[l]] /\ Unread(l)' \in [D -> Frame[l]]
    BY <1>2, <1>4
  <1>6. \A d \in D : Unread(l)'[d] = Unread(l)[d]  BY <1>3, <1>4
  <1>. QED  BY <1>5, <1>6, SameFunction

\* The queue the abstract specification sees.
Queues == [l \in Lidar |-> Unread(l)]

LEMMA QuietSteps ==
  ASSUME DriverInv, DriverInv', published' = published,
         \A k \in Lidar : Used(k)' = Used(k),
         \A k \in Lidar : \A i \in 0 .. Used(k) - 1 : Stored(k, i)' = Stored(k, i)
  PROVE  UNCHANGED <<Queues, published>>
  <1>1. \A k \in Lidar : UnreadIs(k)  BY AllUnread
  <1>2. \A k \in Lidar : UnreadIs(k)'  BY AllUnreadNext
  <1>3. \A k \in Lidar : Unread(k)' = Unread(k)  BY <1>1, <1>2, SameQueue
  <1>. QED  BY <1>3 DEF Queues

\* wr_idx++ stores a frame, and no step before it does.
LEMMA AdvanceStores ==
  ASSUME DriverInv, Advance
  PROVE  \E l \in Lidar : \E f \in Frame[l] : FQ!Store(l, f)
  <1>1. DriverInv' /\ published' = published  BY AdvanceKeeps
  <1>2. PICK l \in Lidar :
          /\ Used(l) < Size /\ Used(l)' = Used(l) + 1
          /\ Stored(l, Used(l)) \in Frame[l]
          /\ \A k \in Lidar \ {l} : Used(k)' = Used(k)
          /\ \A k \in Lidar, i \in Nat : Stored(k, i)' = Stored(k, i)
    BY AdvanceKeeps
  <1>3. \A k \in Lidar : UnreadIs(k)  BY AllUnread
  <1>4. \A k \in Lidar : UnreadIs(k)'
    BY <1>1, AllUnreadNext
  <1>5. PICK n \in Nat : n = Used(l)  BY <1>3, Sizes DEF UnreadIs
  <1>6. PICK f \in Frame[l] : f = Stored(l, n)  BY <1>2, <1>5
  <1>7. /\ Unread(l) \in [1 .. n -> Frame[l]]
        /\ \A i \in 0 .. n - 1 : Unread(l)[i + 1] = Stored(l, i)
    BY <1>3, <1>5 DEF UnreadIs
  <1>8. /\ Unread(l)' \in [1 .. (n + 1) -> Frame[l]]
        /\ \A i \in 0 .. n : Unread(l)'[i + 1] = Stored(l, i)'
    <2>1. UnreadIs(l)' /\ Used(l)' = n + 1  BY <1>2, <1>4, <1>5
    <2>2. 0 .. ((n + 1) - 1) = 0 .. n  OBVIOUS
    <2>. QED  BY <2>1, <2>2 DEF UnreadIs
  <1>9. \A i \in 0 .. n : Stored(l, i)' = Stored(l, i)  BY <1>2
  <1>10. \A j \in 1 .. n : Unread(l)'[j] = Unread(l)[j]
    <2>. SUFFICES ASSUME NEW j \in 1 .. n PROVE Unread(l)'[j] = Unread(l)[j]
      OBVIOUS
    <2>1. PICK i \in 0 .. n - 1 : i + 1 = j
      <3>1. j - 1 \in 0 .. n - 1 /\ (j - 1) + 1 = j  OBVIOUS
      <3>. QED  BY <3>1
    <2>2. i \in 0 .. n  OBVIOUS
    <2>. QED  BY <1>7, <1>8, <1>9, <2>1, <2>2
  <1>11. Unread(l)'[n + 1] = f  BY <1>6, <1>8, <1>9
  <1>12. Unread(l)' = Append(Unread(l), f)
    BY <1>7, <1>8, <1>10, <1>11, Appended
  <1>13. \A k \in Lidar \ {l} : Unread(k)' = Unread(k)
    <2>. SUFFICES ASSUME NEW k \in Lidar \ {l} PROVE Unread(k)' = Unread(k)
      OBVIOUS
    <2>1. UnreadIs(k) /\ UnreadIs(k)' /\ Used(k)' = Used(k)  BY <1>2, <1>3, <1>4
    <2>2. \A i \in 0 .. Used(k) - 1 : Stored(k, i)' = Stored(k, i)
      <3>1. Used(k) \in Nat  BY <2>1, Sizes DEF UnreadIs
      <3>. QED  BY <1>2, <3>1
    <2>. QED  BY <2>1, <2>2, SameQueue
  <1>14. Len(Unread(l)) < Size  BY <1>2, <1>5, <1>7, FunctionIsSeq
  <1>15. Queues' = [Queues EXCEPT ![l] = Append(Queues[l], f)]
    BY <1>12, <1>13 DEF Queues
  <1>16. FQ!Store(l, f)
    BY <1>1, <1>14, <1>15 DEF FQ!Store, Queues
  <1>. QED  BY <1>16

\* QueuePopUpdate publishes the oldest frame.
LEMMA PopPublishes ==
  ASSUME DriverInv, Pop
  PROVE  \E l \in Lidar : FQ!Publish(l)
  <1>1. DriverInv'  BY PopKeeps
  <1>2. PICK l \in Lidar :
          /\ Used(l) > 0 /\ Used(l)' = Used(l) - 1
          /\ published' = [published EXCEPT ![l] = {Stored(l, 0)}]
          /\ \A i \in Nat : Stored(l, i)' = Stored(l, i + 1)
          /\ \A k \in Lidar \ {l} :
               /\ Used(k)' = Used(k)
               /\ \A i \in Nat : Stored(k, i)' = Stored(k, i)
    BY PopKeeps
  <1>3. \A k \in Lidar : UnreadIs(k)  BY AllUnread
  <1>4. \A k \in Lidar : UnreadIs(k)'
    BY <1>1, AllUnreadNext
  <1>5. PICK n \in Nat : n = Used(l)  BY <1>3, Sizes DEF UnreadIs
  <1>6. n > 0 /\ Used(l)' = n - 1  BY <1>2, <1>5
  <1>7. /\ Unread(l) \in [1 .. n -> Frame[l]]
        /\ \A i \in 0 .. n - 1 : Unread(l)[i + 1] = Stored(l, i)
    BY <1>3, <1>5 DEF UnreadIs
  <1>8. /\ Unread(l)' \in [1 .. (n - 1) -> Frame[l]]
        /\ \A i \in 0 .. n - 2 : Unread(l)'[i + 1] = Stored(l, i)'
    <2>1. UnreadIs(l)'  BY <1>4
    <2>2. 0 .. ((n - 1) - 1) = 0 .. n - 2  OBVIOUS
    <2>. QED  BY <1>6, <2>1, <2>2 DEF UnreadIs
  <1>9. \A j \in 1 .. (n - 1) : Unread(l)'[j] = Unread(l)[j + 1]
    <2>. SUFFICES ASSUME NEW j \in 1 .. (n - 1) PROVE Unread(l)'[j] = Unread(l)[j + 1]
      OBVIOUS
    <2>1. PICK i \in 0 .. n - 2 : i + 1 = j
      <3>1. j - 1 \in 0 .. n - 2 /\ (j - 1) + 1 = j  OBVIOUS
      <3>. QED  BY <3>1
    <2>2. Unread(l)'[j] = Stored(l, i)'  BY <1>8, <2>1
    <2>3. Stored(l, i)' = Stored(l, i + 1)  BY <1>2
    <2>4. i + 1 \in 0 .. n - 1  OBVIOUS
    <2>5. Unread(l)[(i + 1) + 1] = Stored(l, i + 1)  BY <1>7, <2>4
    <2>. QED  BY <2>1, <2>2, <2>3, <2>5
  <1>10. /\ Unread(l) # << >> /\ Head(Unread(l)) = Unread(l)[1]
         /\ Unread(l)' = Tail(Unread(l))
    BY <1>6, <1>7, <1>8, <1>9, Shortened
  <1>11. Unread(l)[1] = Stored(l, 0)
    <2>1. 0 \in 0 .. n - 1  BY <1>6
    <2>2. Unread(l)[0 + 1] = Stored(l, 0)  BY <1>7, <2>1
    <2>. QED  BY <2>2
  <1>12. \A k \in Lidar \ {l} : Unread(k)' = Unread(k)
    <2>. SUFFICES ASSUME NEW k \in Lidar \ {l} PROVE Unread(k)' = Unread(k)
      OBVIOUS
    <2>1. UnreadIs(k) /\ UnreadIs(k)' /\ Used(k)' = Used(k)  BY <1>2, <1>3, <1>4
    <2>2. \A i \in 0 .. Used(k) - 1 : Stored(k, i)' = Stored(k, i)
      <3>1. Used(k) \in Nat  BY <2>1, Sizes DEF UnreadIs
      <3>. QED  BY <1>2, <3>1
    <2>. QED  BY <2>1, <2>2, SameQueue
  <1>13. Queues' = [Queues EXCEPT ![l] = Tail(Queues[l])]
    BY <1>10, <1>12 DEF Queues
  <1>14. FQ!Publish(l)
    BY <1>2, <1>10, <1>11, <1>13 DEF FQ!Publish, Queues
  <1>. QED  BY <1>14

LEMMA EmptyQueues == Init => FQ!Init
  <1>. SUFFICES ASSUME Init PROVE FQ!Init
    OBVIOUS
  <1>1. \A l \in Lidar : UnreadIs(l)  BY InitDriver, AllUnread
  <1>2. ASSUME NEW l \in Lidar PROVE Unread(l) = << >>
    <2>1. Dist(0, 0) = 0
      <3>1. 0 \in 0 .. Width - 1  BY Sizes
      <3>. QED  BY <3>1, DistCases
    <2>2. Used(l) = 0  BY <2>1 DEF Init, Used, Dist
    <2>3. Unread(l) \in [1 .. 0 -> Frame[l]]  BY <1>1, <2>2 DEF UnreadIs
    <2>4. Unread(l) \in Seq(Frame[l]) /\ Len(Unread(l)) = 0
      BY <2>3, FunctionIsSeq
    <2>. QED  BY <2>4, EmptySeq
  <1>. QED  BY <1>2 DEF FQ!Init, Init

LEMMA StepsAreQueueSteps ==
  DriverInv /\ [Next]_vars => [FQ!Next]_<<Queues, published>>
  <1>. SUFFICES ASSUME DriverInv, [Next]_vars
                PROVE  [FQ!Next]_<<Queues, published>>
    OBVIOUS
  <1>1. DriverInv'  BY NextKeeps
  <1>2. CASE Advance  BY <1>2, AdvanceStores DEF FQ!Next
  <1>3. CASE Pop  BY <1>3, PopPublishes DEF FQ!Next
  <1>4. CASE StoreFrame  BY <1>1, <1>4, StoreFrameKeeps, QuietSteps
  <1>5. CASE \E l \in Lidar : Arrive(l)
    BY <1>1, <1>5, FrameReadyKeeps, QuietSteps DEF Arrive
  <1>6. CASE UNCHANGED <<ring, published>>
    <2>1. /\ \A l \in Lidar : Used(l)' = Used(l)
          /\ \A l \in Lidar, i \in Nat : Stored(l, i)' = Stored(l, i)
      BY <1>6, RingsKept DEF DriverInv
    <2>2. \A l \in Lidar : Used(l) \in Nat  BY Indices DEF DriverInv
    <2>3. \A l \in Lidar : \A i \in 0 .. Used(l) - 1 : Stored(l, i)' = Stored(l, i)
      BY <2>1, <2>2
    <2>. QED  BY <1>1, <1>6, <2>1, <2>3, QuietSteps
  <1>7. CASE Sdk
    BY <1>6, <1>7 DEF Sdk, InfoChange, SettingDone, SettingTimeout,
                      SettingFailed, Answered, vars
  <1>8. CASE Looking
    BY <1>6, <1>8, LookingKeeps DEF Quiet
  <1>9. CASE Wait \/ Waking \/ RequestExit \/ SignalExit
    BY <1>6, <1>9 DEF Wait, Waking, CheckPushed, ReadCount, Signal,
                      RequestExit, SignalExit
  <1>10. CASE UNCHANGED vars  BY <1>6, <1>10 DEF vars
  <1>. QED
    BY <1>2, <1>3, <1>4, <1>5, <1>7, <1>8, <1>9, <1>10
    DEF Next, Storing, Polling, Looking, Waking

\* Whatever the two threads do to a ring without a lock, its frames are
\* published once each, in order, and none is overwritten before (ldq.cpp
\* 85-145): the driver implements one queue per lidar.
THEOREM RingsAreQueues == Spec => ImplementsFrameQueue
  <1>1. Init => FQ!Init  BY EmptyQueues
  <1>2. DriverInv /\ [Next]_vars =>
          [FQ!Next]_<<[l \in Lidar |-> Unread(l)], published>>
    BY StepsAreQueueSteps DEF Queues
  <1>. QED
    BY <1>1, <1>2, DriverInvariant, PTL DEF ImplementsFrameQueue, FQ!Spec, Spec
=============================================================================
