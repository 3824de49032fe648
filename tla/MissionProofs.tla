--------------------------- MODULE MissionProofs ---------------------------
(***************************************************************************)
(* Proofs about the mission, for any number of UAVs, any rectangle, any    *)
(* durations of its phases and any times between two timer callbacks.      *)
(*                                                                         *)
(* A setpoint is where the current phase puts it at the age of that phase: *)
(* what the node published last determines, with the phase and its age,    *)
(* how far the next setpoint can be away.                                  *)
(***************************************************************************)
EXTENDS Mission, TLAPS

-----------------------------------------------------------------------------
(* Straight lines in whole numbers.                                         *)

\* One coordinate of Lerp.
Coord(a, b, n, d) == a + (AtMost(n, d) * (b - a)) \div d

LEMMA LerpCoords ==
  ASSUME NEW a, NEW b, NEW n, NEW d
  PROVE  Lerp(a, b, n, d) = <<Coord(a[1], b[1], n, d), Coord(a[2], b[2], n, d),
                              Coord(a[3], b[3], n, d)>>
  BY DEF Lerp, Coord

LEMMA Quotient ==
  ASSUME NEW x \in Int, NEW d \in Nat \ {0}
  PROVE  /\ x \div d \in Int
         /\ (x \div d) * d <= x /\ x < (x \div d) * d + d
  OBVIOUS

\* Two quotients differ by no more than their numerators, but for rounding.
LEMMA QuotientMoves ==
  ASSUME NEW x \in Int, NEW y \in Int, NEW d \in Nat \ {0}, NEW k \in Int,
         y - x <= k * d
  PROVE  y \div d - x \div d <= k
  <1>. DEFINE p == x \div d
              q == y \div d
              e == q - p - k
  <1>1. /\ p \in Int /\ p * d <= x /\ x < p * d + d
        /\ q \in Int /\ q * d <= y /\ y < q * d + d
    BY Quotient
  <1>. HIDE DEF p, q
  <1>2. q * d - p * d < k * d + d  BY <1>1
  <1>3. e * d = q * d - p * d - k * d /\ e \in Int  BY <1>1
  <1>4. e * d < d  BY <1>1, <1>2, <1>3
  <1>. HIDE DEF e
  <1>5. e < 1
    <2>1. e >= 1 => e * d >= d  BY <1>3
    <2>. QED  BY <1>3, <1>4, <2>1
  <1>6. q - p - k < 1  BY <1>5 DEF e
  <1>7. q - p <= k  BY <1>1, <1>6
  <1>. QED  BY <1>7 DEF p, q

LEMMA Capped ==
  ASSUME NEW n \in Nat, NEW m \in Nat, n <= m, NEW d \in Nat
  PROVE  /\ AtMost(n, d) \in 0 .. d /\ AtMost(m, d) \in 0 .. d
         /\ AtMost(n, d) <= AtMost(m, d)
         /\ AtMost(m, d) - AtMost(n, d) <= m - n
  BY DEF AtMost

LEMMA CoordEnds ==
  ASSUME NEW a \in Int, NEW b \in Int, NEW d \in Nat \ {0}, NEW n \in Nat
  PROVE  /\ Coord(a, b, n, d) \in Int
         /\ Coord(a, b, 0, d) = a
         /\ n >= d => Coord(a, b, n, d) = b
         /\ Coord(a, a, n, d) = a
  <1>1. AtMost(n, d) \in Int  BY DEF AtMost
  <1>2. AtMost(n, d) * (b - a) \in Int  BY <1>1
  <1>3. Coord(a, b, n, d) \in Int  BY <1>2, Quotient DEF Coord
  <1>4. 0 \div d = 0  OBVIOUS
  <1>5. AtMost(0, d) = 0 /\ 0 * (b - a) = 0  BY DEF AtMost
  <1>6. Coord(a, b, 0, d) = a  BY <1>4, <1>5 DEF Coord
  <1>7. ASSUME n >= d PROVE Coord(a, b, n, d) = b
    <2>1. AtMost(n, d) = d  BY <1>7 DEF AtMost
    <2>. DEFINE c == b - a
    <2>2. c \in Int  OBVIOUS
    <2>. HIDE DEF c
    <2>3. (d * c) \div d = c
      <3>. DEFINE q == (d * c) \div d
      <3>1. q \in Int /\ q * d <= d * c /\ d * c < q * d + d  BY <2>2, Quotient
      <3>. HIDE DEF q
      <3>2. (q - c) * d <= 0 /\ 0 < (q - c) * d + d  BY <2>2, <3>1
      <3>. DEFINE e == q - c
      <3>3. e \in Int /\ e * d <= 0 /\ 0 < e * d + d  BY <2>2, <3>1, <3>2
      <3>. HIDE DEF e
      <3>4. e >= 1 => e * d >= d  BY <3>3
      <3>5. e <= -1 => e * d <= 0 - d  BY <3>3
      <3>6. e = 0  BY <3>3, <3>4, <3>5
      <3>. QED  BY <2>2, <3>1, <3>6 DEF e, q
    <2>4. a + c = b  BY DEF c
    <2>5. Coord(a, b, n, d) = a + (d * c) \div d  BY <2>1 DEF Coord, c
    <2>. QED  BY <2>3, <2>4, <2>5
  <1>8. Coord(a, a, n, d) = a
    <2>1. AtMost(n, d) * (a - a) = 0  BY <1>1
    <2>. QED  BY <1>4, <2>1 DEF Coord
  <1>. QED  BY <1>3, <1>6, <1>7, <1>8

\* A coordinate that is to move by at most speed * d in the time d moves by at
\* most speed in a unit of time.
LEMMA CoordMoves ==
  ASSUME NEW a \in Int, NEW b \in Int, NEW d \in Nat \ {0},
         NEW speed \in Nat, Size(b - a) <= speed * d,
         NEW n \in Nat, NEW m \in Nat, n <= m
  PROVE  Size(Coord(a, b, m, d) - Coord(a, b, n, d)) <= speed * (m - n)
  <1>. DEFINE c == b - a
              x == AtMost(n, d)
              y == AtMost(m, d)
              k == speed * (y - x)
  <1>1. /\ x \in Nat /\ y \in Nat /\ x <= y /\ y - x <= m - n
    BY Capped
  <1>2. c \in Int /\ c <= speed * d /\ 0 - c <= speed * d
    BY DEF Size
  <1>3. Coord(a, b, m, d) = a + (y * c) \div d /\ Coord(a, b, n, d) = a + (x * c) \div d
    BY DEF Coord
  <1>. HIDE DEF c, x, y
  <1>. DEFINE t == y - x
  <1>4. t \in Nat /\ k = speed * t /\ t <= m - n  BY <1>1
  <1>5. y * c - x * c = t * c /\ y * c \in Int /\ x * c \in Int  BY <1>1, <1>2
  <1>. HIDE DEF t
  <1>6. t * c <= t * (speed * d) /\ 0 - t * c <= t * (speed * d)
    <2>. DEFINE f == speed * d
    <2>1. f \in Int /\ c <= f /\ 0 - c <= f  BY <1>2
    <2>. HIDE DEF f
    <2>2. t * c <= t * f /\ 0 - t * c <= t * f  BY <1>2, <1>4, <2>1
    <2>. QED  BY <2>2 DEF f
  <1>7. t * (speed * d) = k * d /\ k \in Nat  BY <1>4
  <1>. HIDE DEF k
  <1>8. (y * c) \div d - (x * c) \div d <= k
    <2>1. y * c - x * c <= k * d  BY <1>5, <1>6, <1>7
    <2>. QED  BY <1>5, <1>7, <2>1, QuotientMoves
  <1>9. (x * c) \div d - (y * c) \div d <= k
    <2>1. x * c - y * c <= k * d  BY <1>5, <1>6, <1>7
    <2>. QED  BY <1>5, <1>7, <2>1, QuotientMoves
  <1>10. k <= speed * (m - n)  BY <1>4
  <1>. DEFINE p == (y * c) \div d
              q == (x * c) \div d
  <1>11. p \in Int /\ q \in Int  BY <1>5, Quotient
  <1>12. Coord(a, b, m, d) - Coord(a, b, n, d) = p - q  BY <1>3, <1>11
  <1>13. p - q <= k /\ q - p <= k  BY <1>8, <1>9
  <1>. HIDE DEF p, q
  <1>14. Size(p - q) <= k  BY <1>7, <1>11, <1>13 DEF Size
  <1>. DEFINE z == speed * (m - n)
  <1>15. z \in Int /\ k <= z  BY <1>10
  <1>16. Size(p - q) \in Int  BY <1>11 DEF Size
  <1>. HIDE DEF z
  <1>17. Size(p - q) <= z  BY <1>7, <1>14, <1>15, <1>16
  <1>. QED  BY <1>12, <1>17 DEF z

\* A rise from a to b stays between them.
LEMMA CoordBetween ==
  ASSUME NEW a \in Int, NEW b \in Int, a <= b, NEW d \in Nat \ {0}, NEW n \in Nat
  PROVE  Coord(a, b, n, d) \in a .. b
  <1>. DEFINE c == b - a
              x == AtMost(n, d)
              q == (x * c) \div d
  <1>1. x \in Nat /\ x <= d  BY DEF AtMost
  <1>2. c \in Nat  OBVIOUS
  <1>. HIDE DEF c, x
  <1>3. x * c >= 0 /\ x * c <= d * c /\ x * c \in Int  BY <1>1, <1>2
  <1>4. q \in Int /\ q * d <= x * c /\ x * c < q * d + d  BY <1>3, Quotient
  <1>. HIDE DEF q
  <1>5. q >= 0
    <2>1. q <= -1 => q * d <= 0 - d  BY <1>4
    <2>. QED  BY <1>3, <1>4, <2>1
  <1>6. q <= c
    <2>. DEFINE e == q - c
    <2>1. e \in Int /\ e * d <= 0  BY <1>2, <1>3, <1>4
    <2>. HIDE DEF e
    <2>2. e >= 1 => e * d >= d  BY <2>1
    <2>3. e <= 0  BY <2>1, <2>2
    <2>. QED  BY <1>2, <1>4, <2>3 DEF e
  <1>7. Coord(a, b, n, d) = a + q  BY DEF Coord, q, x, c
  <1>8. c = b - a  BY DEF c
  <1>. QED  BY <1>4, <1>5, <1>6, <1>7, <1>8

-----------------------------------------------------------------------------
(* Speeds and distances.                                                    *)

LEMMA Ceiling ==
  ASSUME NEW a \in Nat, NEW d \in Nat \ {0}
  PROVE  CeilDiv(a, d) \in Nat /\ a <= CeilDiv(a, d) * d
  <1>. DEFINE q == (a + d - 1) \div d
  <1>1. q \in Int /\ q * d <= a + d - 1 /\ a + d - 1 < q * d + d  BY Quotient
  <1>. HIDE DEF q
  <1>2. q <= -1 => q * d <= 0 - d  BY <1>1
  <1>3. q \in Nat /\ a <= q * d  BY <1>1, <1>2
  <1>. QED  BY <1>3 DEF CeilDiv, q

LEMMA Greatest ==
  ASSUME NEW a \in Nat, NEW b \in Nat, NEW c \in Nat
  PROVE  /\ Max({a, b, c}) \in Nat
         /\ Max({a, b, c}) >= a /\ Max({a, b, c}) >= b /\ Max({a, b, c}) >= c
  <1>. DEFINE S == {a, b, c}
  <1>1. \E x \in S : \A y \in S : x >= y
    <2>1. CASE a >= b /\ a >= c  BY <2>1
    <2>2. CASE b >= a /\ b >= c  BY <2>2
    <2>3. CASE c >= a /\ c >= b  BY <2>3
    <2>. QED  BY <2>1, <2>2, <2>3
  <1>. HIDE DEF S
  <1>2. Max(S) \in S /\ \A y \in S : Max(S) >= y  BY <1>1 DEF Max
  <1>. QED  BY <1>2 DEF S

\* A UAV can climb and fly a leg in time at its speed.
LEMMA SpeedSuffices ==
  ASSUME NEW i \in ids
  PROVE  /\ Speed(i) \in Nat
         /\ takeoff_z[i] <= Speed(i) * takeoff_sec
         /\ i = Flyer => /\ rect_x <= Speed(i) * leg_sec
                         /\ rect_y <= Speed(i) * leg_sec
  <1>1. /\ rect_x \in Nat /\ rect_y \in Nat /\ takeoff_z[i] \in Nat
        /\ leg_sec \in Nat \ {0} /\ takeoff_sec \in Nat \ {0}
    BY MissionAssumption
  <1>. DEFINE a == CeilDiv(takeoff_z[i], takeoff_sec)
              b == CeilDiv(rect_x, leg_sec)
              c == CeilDiv(rect_y, leg_sec)
              v == Speed(i)
  <1>2. /\ a \in Nat /\ takeoff_z[i] <= a * takeoff_sec
        /\ b \in Nat /\ rect_x <= b * leg_sec
        /\ c \in Nat /\ rect_y <= c * leg_sec
    BY <1>1, Ceiling
  <1>3. i = Flyer => v = Max({a, b, c})
    <2>1. i = Flyer => {a} \cup LegSpeeds = {a, b, c}  BY DEF LegSpeeds
    <2>. QED  BY <2>1 DEF Speed
  <1>4. i # Flyer => v = Max({a, a, a})
    <2>1. {a} \cup {} = {a, a, a}  OBVIOUS
    <2>. QED  BY <2>1 DEF Speed
  <1>. HIDE DEF a, b, c, v
  <1>5. v \in Nat /\ v >= a /\ (i = Flyer => v >= b /\ v >= c)
    BY <1>2, <1>3, <1>4, Greatest
  <1>6. a * takeoff_sec <= v * takeoff_sec  BY <1>1, <1>2, <1>5
  <1>7. i = Flyer => b * leg_sec <= v * leg_sec /\ c * leg_sec <= v * leg_sec
    BY <1>1, <1>2, <1>5
  <1>8. /\ a * takeoff_sec \in Int /\ v * takeoff_sec \in Int
        /\ b * leg_sec \in Int /\ c * leg_sec \in Int /\ v * leg_sec \in Int
    BY <1>1, <1>2, <1>5
  <1>9. takeoff_z[i] <= v * takeoff_sec  BY <1>1, <1>2, <1>6, <1>8
  <1>10. i = Flyer => rect_x <= v * leg_sec /\ rect_y <= v * leg_sec
    BY <1>1, <1>2, <1>7, <1>8
  <1>. QED  BY <1>5, <1>9, <1>10 DEF v

LEMMA Apart ==
  ASSUME NEW u \in Int, NEW v \in Int, NEW w \in Int
  PROVE  /\ Size(u - v) \in Nat /\ Size(u - u) = 0
         /\ Size(u - v) = Size(v - u)
         /\ Size(u - w) <= Size(u - v) + Size(v - w)
  BY DEF Size

LEMMA Coordinates ==
  ASSUME NEW p \in Position
  PROVE  /\ p[1] \in Int /\ p[2] \in Int /\ p[3] \in Int
         /\ p = <<p[1], p[2], p[3]>>
  BY DEF Position

LEMMA Distances ==
  ASSUME NEW p \in Position, NEW q \in Position, NEW r \in Position
  PROVE  /\ Distance(p, q) \in Nat /\ Distance(p, p) = 0
         /\ Distance(p, q) = Distance(q, p)
         /\ Distance(p, r) <= Distance(p, q) + Distance(q, r)
  <1>1. /\ p[1] \in Int /\ p[2] \in Int /\ p[3] \in Int
        /\ q[1] \in Int /\ q[2] \in Int /\ q[3] \in Int
        /\ r[1] \in Int /\ r[2] \in Int /\ r[3] \in Int
    BY Coordinates
  <1>2. /\ Size(p[1] - q[1]) \in Nat /\ Size(p[2] - q[2]) \in Nat
        /\ Size(p[3] - q[3]) \in Nat
        /\ Size(p[1] - p[1]) = 0 /\ Size(p[2] - p[2]) = 0 /\ Size(p[3] - p[3]) = 0
    BY <1>1, Apart
  <1>3. Distance(p, q) = Distance(q, p)  BY <1>1, Apart DEF Distance
  <1>4. \A j \in {1, 2, 3} :
          /\ Size(p[j] - r[j]) <= Size(p[j] - q[j]) + Size(q[j] - r[j])
          /\ Size(p[j] - r[j]) \in Nat /\ Size(p[j] - q[j]) \in Nat
          /\ Size(q[j] - r[j]) \in Nat
    <2>. SUFFICES ASSUME NEW j \in {1, 2, 3}
                  PROVE  /\ Size(p[j] - r[j]) <= Size(p[j] - q[j]) + Size(q[j] - r[j])
                         /\ Size(p[j] - r[j]) \in Nat /\ Size(p[j] - q[j]) \in Nat
                         /\ Size(q[j] - r[j]) \in Nat
      OBVIOUS
    <2>1. p[j] \in Int /\ q[j] \in Int /\ r[j] \in Int  BY <1>1
    <2>. QED  BY <2>1, Apart
  <1>5. Distance(p, r) <= Distance(p, q) + Distance(q, r)
    BY <1>4 DEF Distance
  <1>. QED  BY <1>2, <1>3, <1>5 DEF Distance

-----------------------------------------------------------------------------
(* Targets.                                                                 *)

\* A UAV between the ground and the height it is to go to.
Within(p, i) == p \in Position /\ p[3] \in 0 .. takeoff_z[i]

\* A line along which one coordinate changes, flown in time d.
Straight(a, b, speed, d) ==
  /\ a \in Position /\ b \in Position
  /\ \/ a[1] = b[1] /\ a[2] = b[2] /\ Size(b[3] - a[3]) <= speed * d
     \/ a[1] = b[1] /\ a[3] = b[3] /\ Size(b[2] - a[2]) <= speed * d
     \/ a[2] = b[2] /\ a[3] = b[3] /\ Size(b[1] - a[1]) <= speed * d

LEMMA Positions ==
  ASSUME NEW x \in Int, NEW y \in Int, NEW z \in Int
  PROVE  <<x, y, z>> \in Position
  BY DEF Position

LEMMA LerpMoves ==
  ASSUME NEW a, NEW b, NEW d \in Nat \ {0}, NEW speed \in Nat,
         Straight(a, b, speed, d),
         NEW n \in Nat, NEW m \in Nat, n <= m
  PROVE  /\ Lerp(a, b, n, d) \in Position
         /\ Lerp(a, b, 0, d) = a
         /\ n >= d => Lerp(a, b, n, d) = b
         /\ Distance(Lerp(a, b, m, d), Lerp(a, b, n, d)) <= speed * (m - n)
  <1>1. /\ a \in Position /\ b \in Position
        /\ a[1] \in Int /\ a[2] \in Int /\ a[3] \in Int /\ a = <<a[1], a[2], a[3]>>
        /\ b[1] \in Int /\ b[2] \in Int /\ b[3] \in Int /\ b = <<b[1], b[2], b[3]>>
    BY Coordinates DEF Straight
  <1>2. \A j \in {1, 2, 3} : \A t \in Nat :
          /\ Coord(a[j], b[j], t, d) \in Int
          /\ Coord(a[j], b[j], 0, d) = a[j]
          /\ t >= d => Coord(a[j], b[j], t, d) = b[j]
          /\ a[j] = b[j] => Coord(a[j], b[j], t, d) = a[j]
    <2>. SUFFICES ASSUME NEW j \in {1, 2, 3}, NEW t \in Nat
                  PROVE  /\ Coord(a[j], b[j], t, d) \in Int
                         /\ Coord(a[j], b[j], 0, d) = a[j]
                         /\ t >= d => Coord(a[j], b[j], t, d) = b[j]
                         /\ a[j] = b[j] => Coord(a[j], b[j], t, d) = a[j]
      OBVIOUS
    <2>1. PICK u \in Int, v \in Int : u = a[j] /\ v = b[j]  BY <1>1
    <2>2. /\ Coord(u, v, t, d) \in Int
          /\ Coord(u, v, 0, d) = u
          /\ t >= d => Coord(u, v, t, d) = v
          /\ Coord(u, u, t, d) = u
      BY CoordEnds
    <2>. QED  BY <2>1, <2>2
  <1>3. \A t \in Nat : Lerp(a, b, t, d) \in Position
    BY <1>2, LerpCoords, Positions
  <1>4. Lerp(a, b, 0, d) = a  BY <1>1, <1>2, LerpCoords
  <1>5. ASSUME n >= d PROVE Lerp(a, b, n, d) = b
    <2>1. /\ Coord(a[1], b[1], n, d) = b[1] /\ Coord(a[2], b[2], n, d) = b[2]
          /\ Coord(a[3], b[3], n, d) = b[3]
      BY <1>2, <1>5
    <2>. QED  BY <1>1, <2>1, LerpCoords
  <1>6. Distance(Lerp(a, b, m, d), Lerp(a, b, n, d)) <= speed * (m - n)
    <2>. DEFINE step(j) == Size(Coord(a[j], b[j], m, d) - Coord(a[j], b[j], n, d))
                far == speed * (m - n)
                len == speed * d
    <2>1. Distance(Lerp(a, b, m, d), Lerp(a, b, n, d)) = step(1) + step(2) + step(3)
      BY LerpCoords DEF Distance
    <2>2. \A j \in {1, 2, 3} : a[j] = b[j] => step(j) = 0
      <3>. SUFFICES ASSUME NEW j \in {1, 2, 3}, a[j] = b[j] PROVE step(j) = 0
        OBVIOUS
      <3>1. /\ Coord(a[j], b[j], m, d) = a[j] /\ Coord(a[j], b[j], n, d) = a[j]
            /\ a[j] \in Int
        BY <1>1, <1>2
      <3>. QED  BY <3>1 DEF Size
    <2>3. \A j \in {1, 2, 3} : Size(b[j] - a[j]) <= len => step(j) <= far
      BY <1>1, CoordMoves
    <2>4. \A j \in {1, 2, 3} : step(j) \in Nat  BY <1>2 DEF Size
    <2>5. \E j \in {1, 2, 3} : /\ Size(b[j] - a[j]) <= len
                               /\ \A k \in {1, 2, 3} \ {j} : a[k] = b[k]
      <3>1. CASE a[1] = b[1] /\ a[2] = b[2] /\ Size(b[3] - a[3]) <= len
        BY <3>1
      <3>2. CASE a[1] = b[1] /\ a[3] = b[3] /\ Size(b[2] - a[2]) <= len
        BY <3>2
      <3>3. CASE a[2] = b[2] /\ a[3] = b[3] /\ Size(b[1] - a[1]) <= len
        BY <3>3
      <3>. QED  BY <3>1, <3>2, <3>3 DEF Straight
    <2>. HIDE DEF step, far, len
    <2>6. PICK j \in {1, 2, 3} : /\ step(j) <= far
                                 /\ \A k \in {1, 2, 3} \ {j} : step(k) = 0
      BY <2>2, <2>3, <2>5
    <2>7. far \in Int  BY DEF far
    <2>8. step(1) + step(2) + step(3) <= far
      <3>1. CASE j = 1  BY <2>4, <2>6, <2>7, <3>1
      <3>2. CASE j = 2  BY <2>4, <2>6, <2>7, <3>2
      <3>3. CASE j = 3  BY <2>4, <2>6, <2>7, <3>3
      <3>. QED  BY <3>1, <3>2, <3>3
    <2>. QED  BY <2>1, <2>8 DEF far
  <1>. QED  BY <1>3, <1>4, <1>5, <1>6

\* Where the UAVs were when the mission began.
Placed == origin \in [ids -> Position] /\ \A i \in ids : Within(origin[i], i)

LEMMA Airborne ==
  ASSUME Placed, NEW i \in ids
  PROVE  /\ AirborneTargets \in [ids -> Position]
         /\ AirborneTargets[i] = <<origin[i][1], origin[i][2], takeoff_z[i]>>
         /\ Within(AirborneTargets[i], i)
  <1>1. \A j \in ids : origin[j] \in Position /\ takeoff_z[j] \in Nat
    BY MissionAssumption DEF Placed
  <1>2. \A j \in ids : <<origin[j][1], origin[j][2], takeoff_z[j]>> \in Position
    BY <1>1, Coordinates, Positions
  <1>3. AirborneTargets \in [ids -> Position]  BY <1>2 DEF AirborneTargets
  <1>4. AirborneTargets[i] = <<origin[i][1], origin[i][2], takeoff_z[i]>>
    BY DEF AirborneTargets
  <1>. QED  BY <1>1, <1>3, <1>4 DEF Within

\* All UAVs climb in step, none faster than its speed.
LEMMA TakeoffMoves ==
  ASSUME Placed, NEW i \in ids, NEW n \in Nat, NEW m \in Nat, n <= m
  PROVE  /\ TakeoffTargets(n)[i] = Lerp(origin[i], AirborneTargets[i], n, takeoff_sec)
         /\ Within(TakeoffTargets(n)[i], i)
         /\ TakeoffTargets(0)[i] = origin[i]
         /\ n >= takeoff_sec => TakeoffTargets(n)[i] = AirborneTargets[i]
         /\ Distance(TakeoffTargets(m)[i], TakeoffTargets(n)[i]) <= Speed(i) * (m - n)
  <1>. DEFINE a == origin[i]
              b == AirborneTargets[i]
              d == takeoff_sec
              v == Speed(i)
  <1>1. /\ a \in Position /\ b \in Position /\ d \in Nat \ {0} /\ v \in Nat
        /\ takeoff_z[i] \in Nat /\ a[3] \in 0 .. takeoff_z[i]
        /\ b = <<a[1], a[2], takeoff_z[i]>> /\ takeoff_z[i] <= v * d
    BY Airborne, SpeedSuffices, MissionAssumption DEF Placed, Within
  <1>2. \A t : TakeoffTargets(t)[i] = Lerp(a, b, t, d)
    BY DEF TakeoffTargets
  <1>. HIDE DEF a, b, d, v
  <1>3. Straight(a, b, v, d)
    <2>. DEFINE f == v * d
    <2>1. f \in Int /\ takeoff_z[i] <= f  BY <1>1
    <2>. HIDE DEF f
    <2>2. b[1] = a[1] /\ b[2] = a[2] /\ b[3] = takeoff_z[i]  BY <1>1
    <2>3. Size(b[3] - a[3]) <= f  BY <1>1, <2>1, <2>2 DEF Size
    <2>. QED  BY <1>1, <2>2, <2>3 DEF Straight, f
  <1>4. /\ Lerp(a, b, n, d) \in Position
        /\ Lerp(a, b, 0, d) = a
        /\ n >= d => Lerp(a, b, n, d) = b
        /\ Distance(Lerp(a, b, m, d), Lerp(a, b, n, d)) <= v * (m - n)
    <2>1. v \in Nat /\ d \in Nat \ {0}  BY <1>1
    <2>2. Straight(a, b, v, d)  BY <1>3
    <2>. QED  BY <2>1, <2>2, LerpMoves
  <1>5. Lerp(a, b, n, d)[3] \in 0 .. takeoff_z[i]
    <2>1. b[3] = takeoff_z[i] /\ a[3] \in Int /\ b[3] \in Int /\ a[3] <= b[3] /\ a[3] >= 0
      BY <1>1
    <2>2. Lerp(a, b, n, d)[3] = Coord(a[3], b[3], n, d)  BY LerpCoords
    <2>3. Coord(a[3], b[3], n, d) \in a[3] .. b[3]  BY <1>1, <2>1, CoordBetween
    <2>. QED  BY <2>1, <2>2, <2>3
  <1>6. Within(Lerp(a, b, n, d), i)  BY <1>4, <1>5 DEF Within
  <1>. QED  BY <1>2, <1>4, <1>6 DEF a, b, d, v

-----------------------------------------------------------------------------
(* The rectangle.                                                           *)

Path(age) == SquareTargets(age)[Flyer]

LEMMA Corners ==
  ASSUME Placed, NEW k \in 0 .. 3
  PROVE  /\ Straight(Corner(k), Corner(k + 1), Speed(Flyer), leg_sec)
         /\ Corner(0) = AirborneTargets[Flyer] /\ Corner(4) = AirborneTargets[Flyer]
         /\ Corner(k)[3] = takeoff_z[Flyer] /\ Corner(k + 1)[3] = takeoff_z[Flyer]
  <1>. DEFINE p == AirborneTargets[Flyer]
              f == Speed(Flyer) * leg_sec
  <1>1. /\ p \in Position /\ p[3] = takeoff_z[Flyer]
        /\ rect_x \in Nat /\ rect_y \in Nat /\ rect_x <= f /\ rect_y <= f
    BY Airborne, SpeedSuffices, MissionAssumption DEF Within
  <1>2. p[1] \in Int /\ p[2] \in Int /\ p[3] \in Int /\ p = <<p[1], p[2], p[3]>>
    BY <1>1, Coordinates
  <1>3. \A j : Corner(j) = <<IF j \in {1, 2} THEN p[1] + rect_x ELSE p[1],
                             IF j \in {2, 3} THEN p[2] + rect_y ELSE p[2], p[3]>>
    BY DEF Corner
  <1>4. f \in Int
    BY SpeedSuffices, MissionAssumption
  <1>. HIDE DEF p, f
  <1>. DEFINE A == <<p[1], p[2], p[3]>>
              B == <<p[1] + rect_x, p[2], p[3]>>
              C == <<p[1] + rect_x, p[2] + rect_y, p[3]>>
              D == <<p[1], p[2] + rect_y, p[3]>>
  <1>5. Corner(0) = A /\ Corner(1) = B /\ Corner(2) = C /\ Corner(3) = D /\ Corner(4) = A
    BY <1>3
  <1>6. A \in Position /\ B \in Position /\ C \in Position /\ D \in Position
    BY <1>1, <1>2, Positions
  <1>7. /\ Straight(A, B, Speed(Flyer), leg_sec) /\ Straight(B, C, Speed(Flyer), leg_sec)
        /\ Straight(C, D, Speed(Flyer), leg_sec) /\ Straight(D, A, Speed(Flyer), leg_sec)
    <2>1. /\ Size((p[1] + rect_x) - p[1]) <= f /\ Size(p[1] - (p[1] + rect_x)) <= f
          /\ Size((p[2] + rect_y) - p[2]) <= f /\ Size(p[2] - (p[2] + rect_y)) <= f
      BY <1>1, <1>2, <1>4 DEF Size
    <2>. QED  BY <1>6, <2>1 DEF Straight, f
  <1>8. A[3] = p[3] /\ B[3] = p[3] /\ C[3] = p[3] /\ D[3] = p[3]
    OBVIOUS
  <1>. HIDE DEF A, B, C, D
  <1>9. Straight(Corner(k), Corner(k + 1), Speed(Flyer), leg_sec)
    <2>1. CASE k = 0  BY <1>5, <1>7, <2>1
    <2>2. CASE k = 1  BY <1>5, <1>7, <2>2
    <2>3. CASE k = 2  BY <1>5, <1>7, <2>3
    <2>4. CASE k = 3  BY <1>5, <1>7, <2>4
    <2>. QED  BY <2>1, <2>2, <2>3, <2>4
  <1>10. Corner(k)[3] = p[3] /\ Corner(k + 1)[3] = p[3]
    BY <1>3
  <1>11. A = p  BY <1>2 DEF A
  <1>. QED  BY <1>1, <1>5, <1>9, <1>10, <1>11 DEF p

\* The age a falls into the k-th stretch of length d.
Stretch(a, d, k) == k * d <= a /\ a < k * d + d

LEMMA Divided ==
  ASSUME NEW a \in Nat, NEW d \in Nat \ {0}, NEW k \in Nat, Stretch(a, d, k)
  PROVE  a \div d = k /\ a % d = a - k * d
  <1>. DEFINE q == a \div d
              r == a % d
  <1>0. k * d <= a /\ a < k * d + d  BY DEF Stretch
  <1>1. q \in Int /\ r \in 0 .. d - 1 /\ a = q * d + r  OBVIOUS
  <1>. HIDE DEF q, r
  <1>. DEFINE e == q - k
  <1>2. e \in Int /\ e * d = q * d - k * d  BY <1>1
  <1>3. e * d < d /\ e * d > 0 - d  BY <1>0, <1>1, <1>2
  <1>. HIDE DEF e
  <1>4. (e >= 1 => e * d >= d) /\ (e <= -1 => e * d <= 0 - d)  BY <1>2
  <1>5. e = 0  BY <1>2, <1>3, <1>4
  <1>6. q = k  BY <1>1, <1>5 DEF e
  <1>7. r = a - k * d  BY <1>1, <1>6
  <1>. QED  BY <1>6, <1>7 DEF q, r

\* The flyer on a leg, both of its ends included.
LEMMA OnLeg ==
  ASSUME Placed, NEW k \in 0 .. 3, NEW a \in Nat,
         k * leg_sec <= a, a <= k * leg_sec + leg_sec
  PROVE  Path(a) = Lerp(Corner(k), Corner(k + 1), a - k * leg_sec, leg_sec)
  <1>. DEFINE d == leg_sec
              v == Speed(Flyer)
  <1>1. d \in Nat \ {0} /\ v \in Nat /\ Flyer \in ids
    BY SpeedSuffices, MissionAssumption
  <1>2. AirborneTargets \in [ids -> Position]  BY <1>1, Airborne
  <1>3. \A t : Path(t) = IF t \div d >= 4 THEN AirborneTargets[Flyer]
                         ELSE Lerp(Corner(t \div d), Corner((t \div d) + 1), t % d, d)
    BY <1>1, <1>2 DEF Path, SquareTargets
  <1>4. \A j \in 0 .. 3 : /\ Straight(Corner(j), Corner(j + 1), v, d)
                          /\ Corner(4) = AirborneTargets[Flyer]
    BY Corners
  <1>5. \A j \in 0 .. 3 : /\ Lerp(Corner(j), Corner(j + 1), 0, d) = Corner(j)
                          /\ Lerp(Corner(j), Corner(j + 1), d, d) = Corner(j + 1)
    BY <1>1, <1>4, LerpMoves
  <1>. HIDE DEF d, v
  <1>6. k * d <= a /\ a <= k * d + d /\ k * d \in Nat  BY <1>1 DEF d
  <1>7. CASE a < k * d + d
    <2>0. Stretch(a, d, k)  BY <1>6, <1>7 DEF Stretch
    <2>1. a \div d = k /\ a % d = a - k * d
      <3>1. k \in Nat  OBVIOUS
      <3>. QED  BY <1>1, <2>0, <3>1, Divided
    <2>. QED  BY <1>3, <2>1 DEF d
  <1>8. CASE a = k * d + d
    <2>1. (k + 1) * d = k * d + d  BY <1>1
    <2>2. a \div d = k + 1 /\ a % d = a - (k + 1) * d
      <3>1. Stretch(a, d, k + 1)  BY <1>1, <1>6, <1>8, <2>1 DEF Stretch
      <3>2. k + 1 \in Nat  OBVIOUS
      <3>. QED  BY <1>1, <3>1, <3>2, Divided
    <2>3. a % d = 0 /\ a - k * d = d  BY <1>1, <1>6, <1>8, <2>1, <2>2
    <2>4. CASE k = 3
      <3>1. Path(a) = Corner(4)  BY <1>3, <1>4, <2>2, <2>4
      <3>. QED  BY <1>5, <2>3, <2>4, <3>1 DEF d
    <2>5. CASE k # 3
      <3>1. k + 1 \in 0 .. 3  BY <2>5
      <3>2. Path(a) = Lerp(Corner(k + 1), Corner((k + 1) + 1), 0, d)
        BY <1>3, <2>2, <2>3, <3>1
      <3>3. Path(a) = Corner(k + 1)  BY <1>5, <3>1, <3>2
      <3>. QED  BY <1>5, <2>3, <3>3 DEF d
    <2>. QED  BY <2>4, <2>5
  <1>. QED  BY <1>6, <1>7, <1>8, <1>1

\* From age a to age b the flyer is no faster than its speed.
Flies(a, b) ==
  /\ Path(a) \in Position /\ Path(b) \in Position
  /\ Distance(Path(b), Path(a)) <= Speed(Flyer) * (b - a)

LEMMA OneLeg ==
  ASSUME Placed, NEW k \in 0 .. 3, NEW a \in Nat, NEW b \in Nat, a <= b,
         k * leg_sec <= a, b <= k * leg_sec + leg_sec
  PROVE  Flies(a, b)
  <1>1. leg_sec \in Nat \ {0} /\ Speed(Flyer) \in Nat
    BY SpeedSuffices, MissionAssumption
  <1>. DEFINE o == k * leg_sec
              n == a - o
              m == b - o
  <1>2. o \in Nat  BY <1>1
  <1>. HIDE DEF o
  <1>3. n \in Nat /\ m \in Nat /\ n <= m /\ m - n = b - a  BY <1>2 DEF o
  <1>4. Path(a) = Lerp(Corner(k), Corner(k + 1), n, leg_sec)
    <2>1. k * leg_sec <= a /\ a <= k * leg_sec + leg_sec  BY <1>1, <1>2 DEF o
    <2>. QED  BY <2>1, OnLeg DEF o
  <1>5. Path(b) = Lerp(Corner(k), Corner(k + 1), m, leg_sec)
    <2>1. k * leg_sec <= b /\ b <= k * leg_sec + leg_sec  BY <1>1, <1>2 DEF o
    <2>. QED  BY <2>1, OnLeg DEF o
  <1>6. Straight(Corner(k), Corner(k + 1), Speed(Flyer), leg_sec)
    BY Corners
  <1>. HIDE DEF n, m
  <1>7. /\ Lerp(Corner(k), Corner(k + 1), n, leg_sec) \in Position
        /\ Lerp(Corner(k), Corner(k + 1), m, leg_sec) \in Position
        /\ Distance(Lerp(Corner(k), Corner(k + 1), m, leg_sec),
                    Lerp(Corner(k), Corner(k + 1), n, leg_sec)) <= Speed(Flyer) * (m - n)
    <2>1. m <= m  BY <1>3
    <2>2. Lerp(Corner(k), Corner(k + 1), m, leg_sec) \in Position
      BY <1>1, <1>3, <1>6, <2>1, LerpMoves
    <2>. QED  BY <1>1, <1>3, <1>6, <2>2, LerpMoves
  <1>. QED  BY <1>3, <1>4, <1>5, <1>7 DEF Flies

LEMMA Onwards ==
  ASSUME NEW a \in Nat, NEW b \in Nat, NEW c \in Nat, Flies(a, b), Flies(b, c)
  PROVE  Flies(a, c)
  <1>. DEFINE v == Speed(Flyer)
  <1>1. v \in Nat  BY SpeedSuffices, MissionAssumption
  <1>. HIDE DEF v
  <1>2. /\ Path(a) \in Position /\ Path(b) \in Position /\ Path(c) \in Position
        /\ Distance(Path(b), Path(a)) <= v * (b - a)
        /\ Distance(Path(c), Path(b)) <= v * (c - b)
    BY DEF Flies, v
  <1>3. /\ Distance(Path(c), Path(a)) <= Distance(Path(c), Path(b)) + Distance(Path(b), Path(a))
        /\ Distance(Path(c), Path(a)) \in Nat /\ Distance(Path(c), Path(b)) \in Nat
        /\ Distance(Path(b), Path(a)) \in Nat
    BY <1>2, Distances
  <1>4. v * (c - a) = v * (c - b) + v * (b - a)  BY <1>1
  <1>5. v * (c - a) \in Int /\ v * (c - b) \in Int /\ v * (b - a) \in Int  BY <1>1
  <1>6. Distance(Path(c), Path(a)) <= v * (c - a)
    BY <1>2, <1>3, <1>4, <1>5
  <1>. QED  BY <1>2, <1>6 DEF Flies, v

\* Up to a corner, leg by leg.
LEMMA ToCorner ==
  ASSUME Placed, NEW k \in 0 .. 4, NEW a \in Nat, a <= k * leg_sec
  PROVE  Flies(a, k * leg_sec)
  <1>. DEFINE d == leg_sec
  <1>1. d \in Nat \ {0}  BY MissionAssumption
  <1>2. ASSUME NEW j \in 0 .. 3, NEW x \in Nat, NEW y \in Nat, x <= y,
               j * d <= x, y <= j * d + d
        PROVE  Flies(x, y)
    BY <1>2, OneLeg
  <1>. HIDE DEF d
  <1>3. 0 * d = 0 /\ 1 * d = d /\ 2 * d = d + d /\ 3 * d = d + d + d /\ 4 * d = d + d + d + d
    BY <1>1
  <1>4. ASSUME NEW x \in Nat, x <= 1 * d PROVE Flies(x, 1 * d)
    <2>1. 0 * d <= x /\ 1 * d <= 0 * d + d /\ 1 * d \in Nat  BY <1>1, <1>3
    <2>. QED  BY <1>2, <1>4, <2>1
  <1>5. ASSUME NEW x \in Nat, x <= 2 * d PROVE Flies(x, 2 * d)
    <2>1. 2 * d <= 1 * d + d /\ 1 * d \in Nat /\ 2 * d \in Nat /\ 1 * d <= 2 * d
      BY <1>1, <1>3
    <2>2. CASE x >= 1 * d  BY <1>2, <1>5, <2>1, <2>2
    <2>3. CASE x <= 1 * d
      <3>1. Flies(x, 1 * d)  BY <1>4, <2>3
      <3>2. Flies(1 * d, 2 * d)  BY <1>2, <2>1
      <3>. QED  BY <2>1, <3>1, <3>2, Onwards
    <2>. QED  BY <2>1, <2>2, <2>3
  <1>6. ASSUME NEW x \in Nat, x <= 3 * d PROVE Flies(x, 3 * d)
    <2>1. 3 * d <= 2 * d + d /\ 2 * d \in Nat /\ 3 * d \in Nat /\ 2 * d <= 3 * d
      BY <1>1, <1>3
    <2>2. CASE x >= 2 * d  BY <1>2, <1>6, <2>1, <2>2
    <2>3. CASE x <= 2 * d
      <3>1. Flies(x, 2 * d)  BY <1>5, <2>3
      <3>2. Flies(2 * d, 3 * d)  BY <1>2, <2>1
      <3>. QED  BY <2>1, <3>1, <3>2, Onwards
    <2>. QED  BY <2>1, <2>2, <2>3
  <1>7. ASSUME NEW x \in Nat, x <= 4 * d PROVE Flies(x, 4 * d)
    <2>1. 4 * d <= 3 * d + d /\ 3 * d \in Nat /\ 4 * d \in Nat /\ 3 * d <= 4 * d
      BY <1>1, <1>3
    <2>2. CASE x >= 3 * d  BY <1>2, <1>7, <2>1, <2>2
    <2>3. CASE x <= 3 * d
      <3>1. Flies(x, 3 * d)  BY <1>6, <2>3
      <3>2. Flies(3 * d, 4 * d)  BY <1>2, <2>1
      <3>. QED  BY <2>1, <3>1, <3>2, Onwards
    <2>. QED  BY <2>1, <2>2, <2>3
  <1>8. ASSUME k = 0 PROVE Flies(a, k * d)
    <2>1. a = 0 /\ k * d = 0  BY <1>1, <1>3, <1>8 DEF d
    <2>2. 0 * d <= 0 /\ 0 <= 0 * d + d  BY <1>1, <1>3
    <2>3. Flies(0, 0)  BY <1>2, <2>2
    <2>. QED  BY <2>1, <2>3
  <1>9. a <= k * d  BY DEF d
  <1>10. k = 0 \/ k = 1 \/ k = 2 \/ k = 3 \/ k = 4  OBVIOUS
  <1>11. Flies(a, k * d)  BY <1>4, <1>5, <1>6, <1>7, <1>8, <1>9, <1>10
  <1>. QED  BY <1>11 DEF d

LEMMA Hovers ==
  ASSUME Placed, NEW a \in Nat, a >= 4 * leg_sec
  PROVE  Path(a) = AirborneTargets[Flyer]
  <1>. DEFINE d == leg_sec
              q == a \div d
  <1>1. d \in Nat \ {0}  BY MissionAssumption
  <1>2. q \in Int /\ a < q * d + d  BY <1>1, Quotient
  <1>3. a >= 4 * d  BY DEF d
  <1>. HIDE DEF d, q
  <1>4. q >= 4
    <2>. DEFINE e == q - 3
    <2>1. e \in Int /\ e * d = q * d - 3 * d  BY <1>1, <1>2
    <2>2. e * d > 0
      <3>1. 4 * d = 3 * d + d  BY <1>1
      <3>. QED  BY <1>1, <1>2, <1>3, <2>1, <3>1
    <2>. HIDE DEF e
    <2>3. e <= 0 => e * d <= 0  BY <1>1, <2>1
    <2>4. e >= 1  BY <1>1, <2>1, <2>2, <2>3
    <2>. QED  BY <1>2, <2>4 DEF e
  <1>. QED  BY <1>4 DEF Path, SquareTargets, q, d

\* However late a callback is, along the whole rectangle.
LEMMA PathMoves ==
  ASSUME Placed, NEW a \in Nat, NEW b \in Nat, a <= b
  PROVE  Flies(a, b)
  <1>. DEFINE d == leg_sec
              v == Speed(Flyer)
  <1>1. d \in Nat \ {0} /\ v \in Nat /\ 4 * d \in Nat
    BY SpeedSuffices, MissionAssumption
  <1>2. \A x, y \in Nat : x >= 4 * d /\ y >= 4 * d /\ x <= y => Flies(x, y)
    <2>. SUFFICES ASSUME NEW x \in Nat, NEW y \in Nat, x >= 4 * d, y >= 4 * d, x <= y
                  PROVE  Flies(x, y)
      OBVIOUS
    <2>1. Path(x) = AirborneTargets[Flyer] /\ Path(y) = AirborneTargets[Flyer]
      BY Hovers
    <2>2. AirborneTargets[Flyer] \in Position
      BY MissionAssumption, Airborne DEF Within
    <2>3. Distance(Path(y), Path(x)) = 0  BY <2>1, <2>2, Distances
    <2>. HIDE DEF d, v
    <2>4. 0 <= v * (y - x)  BY <1>1
    <2>. QED  BY <2>1, <2>2, <2>3, <2>4 DEF Flies, v
  <1>3. CASE b >= 4 * d
    <2>1. CASE a >= 4 * d  BY <1>2, <1>3, <2>1
    <2>2. CASE a <= 4 * d
      <3>1. Flies(a, 4 * d)
        <4>1. 4 \in 0 .. 4  OBVIOUS
        <4>. QED  BY <2>2, <4>1, ToCorner
      <3>2. Flies(4 * d, b)
        <4>1. 4 * d >= 4 * d  BY <1>1
        <4>. QED  BY <1>1, <1>2, <1>3, <4>1
      <3>. QED  BY <1>1, <3>1, <3>2, Onwards
    <2>. QED  BY <1>1, <2>1, <2>2
  <1>4. CASE b < 4 * d
    <2>. DEFINE k == b \div d
    <2>1. k \in Int /\ k * d <= b /\ b < k * d + d  BY <1>1, Quotient
    <2>2. k \in 0 .. 3
      <3>. HIDE DEF k, d
      <3>1. k <= -1 => k * d <= 0 - d  BY <1>1, <2>1
      <3>2. k >= 4 => k * d >= 4 * d  BY <1>1, <2>1
      <3>3. k * d \in Int  BY <1>1, <2>1
      <3>4. k >= 0  BY <1>1, <2>1, <3>1, <3>3
      <3>5. k < 4  BY <1>1, <1>4, <2>1, <3>2, <3>3
      <3>. QED  BY <2>1, <3>4, <3>5
    <2>. HIDE DEF k
    <2>3. k * d \in Nat  BY <1>1, <2>2
    <2>4. CASE a >= k * d
      <3>1. b <= k * d + d  BY <1>1, <2>1, <2>3
      <3>. QED  BY <2>2, <2>4, <3>1, OneLeg
    <2>5. CASE a <= k * d
      <3>1. k \in 0 .. 4  BY <2>2
      <3>2. Flies(a, k * d)  BY <2>5, <3>1, ToCorner
      <3>3. Flies(k * d, b)
        <4>1. k * d <= k * d /\ b <= k * d + d  BY <1>1, <2>1, <2>3
        <4>. QED  BY <2>1, <2>2, <2>3, <4>1, OneLeg
      <3>. QED  BY <2>3, <3>2, <3>3, Onwards
    <2>. QED  BY <2>3, <2>4, <2>5
  <1>. QED  BY <1>1, <1>3, <1>4

LEMMA PathWithin ==
  ASSUME Placed, NEW t \in Nat
  PROVE  Within(Path(t), Flyer)
  <1>. DEFINE d == leg_sec
              k == t \div d
              n == t % d
              v == Speed(Flyer)
              p == AirborneTargets[Flyer]
  <1>1. /\ d \in Nat \ {0} /\ v \in Nat /\ Flyer \in ids /\ Within(p, Flyer)
        /\ AirborneTargets \in [ids -> Position] /\ takeoff_z[Flyer] \in Nat
    BY SpeedSuffices, MissionAssumption, Airborne
  <1>2. k \in Int /\ n \in Nat /\ k * d <= t /\ t < k * d + d
    BY <1>1, Quotient
  <1>3. Path(t) = IF k >= 4 THEN p ELSE Lerp(Corner(k), Corner(k + 1), n, d)
    BY <1>1 DEF Path, SquareTargets
  <1>. HIDE DEF d, k, n, v, p
  <1>4. k >= 0
    <2>1. k <= -1 => k * d <= 0 - d  BY <1>1, <1>2
    <2>2. k * d \in Int  BY <1>1, <1>2
    <2>. QED  BY <1>1, <1>2, <2>1, <2>2
  <1>5. CASE k >= 4  BY <1>1, <1>3, <1>5
  <1>6. CASE k < 4
    <2>1. k \in 0 .. 3  BY <1>2, <1>4, <1>6
    <2>2. /\ Straight(Corner(k), Corner(k + 1), v, d)
          /\ Corner(k)[3] = takeoff_z[Flyer] /\ Corner(k + 1)[3] = takeoff_z[Flyer]
      BY <2>1, Corners DEF v, d
    <2>3. n <= n  BY <1>2
    <2>4. Lerp(Corner(k), Corner(k + 1), n, d) \in Position
      BY <1>1, <1>2, <2>2, <2>3, LerpMoves
    <2>5. Lerp(Corner(k), Corner(k + 1), n, d)[3]
            = Coord(takeoff_z[Flyer], takeoff_z[Flyer], n, d)
      BY <2>2, LerpCoords
    <2>6. Lerp(Corner(k), Corner(k + 1), n, d)[3] = takeoff_z[Flyer]
      <3>1. PICK z \in Int : z = takeoff_z[Flyer]  BY <1>1
      <3>2. Coord(z, z, n, d) = z  BY <1>1, <1>2, CoordEnds
      <3>. QED  BY <2>5, <3>1, <3>2
    <2>. QED  BY <1>1, <1>3, <1>6, <2>4, <2>6 DEF Within
  <1>. QED  BY <1>2, <1>5, <1>6

LEMMA SquareMoves ==
  ASSUME Placed, NEW n \in Nat, NEW m \in Nat, n <= m, NEW i \in ids
  PROVE  /\ SquareTargets(n) \in [ids -> Position]
         /\ Within(SquareTargets(n)[i], i)
         /\ SquareTargets(0) = AirborneTargets
         /\ n >= 4 * leg_sec => SquareTargets(n) = AirborneTargets
         /\ Distance(SquareTargets(m)[i], SquareTargets(n)[i]) <= Speed(i) * (m - n)
  <1>1. /\ Flyer \in ids /\ AirborneTargets \in [ids -> Position]
        /\ \A j \in ids : Within(AirborneTargets[j], j) /\ Speed(j) \in Nat
        /\ leg_sec \in Nat \ {0}
    BY Airborne, SpeedSuffices, MissionAssumption
  <1>2. \A t \in Nat : /\ SquareTargets(t) = [AirborneTargets EXCEPT ![Flyer] = Path(t)]
                       /\ Path(t) \in Position /\ Within(Path(t), Flyer)
    <2>. SUFFICES ASSUME NEW t \in Nat
                  PROVE  /\ SquareTargets(t) = [AirborneTargets EXCEPT ![Flyer] = Path(t)]
                         /\ Path(t) \in Position /\ Within(Path(t), Flyer)
      OBVIOUS
    <2>1. Path(t) \in Position /\ Within(Path(t), Flyer)  BY PathWithin DEF Within
    <2>2. CASE t \div leg_sec >= 4
      <3>1. SquareTargets(t) = AirborneTargets  BY <2>2 DEF SquareTargets
      <3>. QED  BY <1>1, <2>1, <3>1 DEF Path
    <2>3. CASE ~(t \div leg_sec >= 4)
      <3>. DEFINE x == Lerp(Corner(t \div leg_sec), Corner((t \div leg_sec) + 1),
                            t % leg_sec, leg_sec)
      <3>1. SquareTargets(t) = [AirborneTargets EXCEPT ![Flyer] = x]
        BY <2>3 DEF SquareTargets
      <3>. HIDE DEF x
      <3>2. Path(t) = x  BY <1>1, <3>1 DEF Path
      <3>. QED  BY <2>1, <3>1, <3>2
    <2>. QED  BY <2>2, <2>3
  <1>3. \A t \in Nat : SquareTargets(t) \in [ids -> Position]
    BY <1>1, <1>2
  <1>4. \A t \in Nat : SquareTargets(t)[i] = IF i = Flyer THEN Path(t) ELSE AirborneTargets[i]
    BY <1>1, <1>2
  <1>5. Within(SquareTargets(n)[i], i)  BY <1>1, <1>2, <1>4
  <1>6. \A t \in Nat : Path(t) = AirborneTargets[Flyer] => SquareTargets(t) = AirborneTargets
    BY <1>1, <1>2
  <1>7. SquareTargets(0) = AirborneTargets
    <2>1. 0 * leg_sec <= 0 /\ 0 <= 0 * leg_sec + leg_sec  BY <1>1
    <2>2. Path(0) = Lerp(Corner(0), Corner(0 + 1), 0 - 0 * leg_sec, leg_sec)
      BY <2>1, OnLeg
    <2>3. 0 - 0 * leg_sec = 0 /\ 0 + 1 = 1  BY <1>1
    <2>4. Path(0) = Lerp(Corner(0), Corner(1), 0, leg_sec)  BY <2>2, <2>3
    <2>5. /\ Straight(Corner(0), Corner(1), Speed(Flyer), leg_sec)
          /\ Corner(0) = AirborneTargets[Flyer]
      <3>1. /\ Straight(Corner(0), Corner(0 + 1), Speed(Flyer), leg_sec)
            /\ Corner(0) = AirborneTargets[Flyer]
        BY Corners
      <3>. QED  BY <2>3, <3>1
    <2>6. Lerp(Corner(0), Corner(1), 0, leg_sec) = Corner(0)
      BY <1>1, <2>5, LerpMoves
    <2>. QED  BY <1>6, <2>4, <2>5, <2>6
  <1>8. n >= 4 * leg_sec => SquareTargets(n) = AirborneTargets
    BY <1>6, Hovers
  <1>9. Distance(SquareTargets(m)[i], SquareTargets(n)[i]) <= Speed(i) * (m - n)
    <2>1. CASE i = Flyer
      <3>1. Distance(Path(m), Path(n)) <= Speed(Flyer) * (m - n)
        BY PathMoves DEF Flies
      <3>. QED  BY <1>4, <2>1, <3>1
    <2>2. CASE i # Flyer
      <3>1. Distance(SquareTargets(m)[i], SquareTargets(n)[i]) = 0
        BY <1>1, <1>4, <2>2, Distances DEF Within
      <3>2. Speed(i) \in Nat /\ m - n \in Nat  BY <1>1
      <3>3. 0 <= Speed(i) * (m - n)  BY <3>2
      <3>. QED  BY <3>1, <3>3
    <2>. QED  BY <2>1, <2>2
  <1>. QED  BY <1>3, <1>5, <1>7, <1>8, <1>9

-----------------------------------------------------------------------------
(* The inductive invariant.                                                 *)

\* Nothing leaves the space between the ground and the height to go to.
HeightsInv ==
  /\ Placed
  /\ \A i \in ids : /\ Within(setpoint[i], i) /\ Within(at[i], i)
                    /\ positions[i] = Unknown \/ Within(positions[i], i)

\* How long setpoints have been sent is as long as the phase says.
StreamInv ==
  /\ phase = "WAIT_ODOMETRY" => command_age = CommandPeriod /\ stream_age = -1
  /\ phase = "PRESTREAM" => /\ command_age = CommandPeriod
                            /\ stream_age = AtMost(phase_age, prestream_sec)
  /\ phase \notin {"WAIT_ODOMETRY", "PRESTREAM"} => stream_age = prestream_sec

\* What is known of a UAV before the mission is where it is.
PositionsInv ==
  phase = "WAIT_ODOMETRY" => \A i \in ids : positions[i] \in {Unknown, at[i]}

\* The setpoints are those of the phase at its age; those of the last one are
\* at first late by no more than a callback can be.
SetpointInv ==
  /\ phase \in {"PRESTREAM", "ARM_OFFBOARD"} => setpoint = origin
  /\ phase = "TAKEOFF" => setpoint = TakeoffTargets(phase_age)
  /\ phase = "SETTLE" => setpoint = AirborneTargets
  /\ phase = "SQUARE" => setpoint = SquareTargets(phase_age)
  /\ phase = "FINAL_HOLD" =>
       \E age \in Nat, late \in Lag :
         age + late >= 4 * leg_sec /\ setpoint = SquareTargets(age)

MissionInv == TypeOK /\ HeightsInv /\ StreamInv /\ PositionsInv /\ SetpointInv

LEMMA InitMission == Init => MissionInv
  <1>. SUFFICES ASSUME Init PROVE MissionInv
    OBVIOUS
  <1>. USE DEF Init
  <1>1. home \in [ids -> Position] /\ \A i \in ids : home[i][3] \in 0 .. takeoff_z[i]
    BY MissionAssumption
  <1>2. TypeOK
    <2>1. CommandPeriod \in 0 .. CommandPeriod /\ -1 \in -1 .. prestream_sec
          /\ 0 \in 0 .. MaxDrops /\ 0 \in 0 .. MaxRestarts
      BY MissionAssumption
    <2>2. positions \in [ids -> Position \cup {Unknown}]  OBVIOUS
    <2>. QED  BY <1>1, <2>1, <2>2 DEF TypeOK, Phases, NotReady
  <1>3. HeightsInv  BY <1>1 DEF HeightsInv, Placed, Within
  <1>4. StreamInv /\ PositionsInv /\ SetpointInv
    BY DEF StreamInv, PositionsInv, SetpointInv
  <1>. QED  BY <1>2, <1>3, <1>4 DEF MissionInv

-----------------------------------------------------------------------------
(* The timer callback.                                                      *)

\* No setpoint is further from the one before than its UAV flies in the period.
Moved == \A i \in ids : Distance(setpoint'[i], setpoint[i]) <= Speed(i) * period'

LEMMA CappedSum ==
  ASSUME NEW c \in Nat, NEW a \in 0 .. c, NEW q \in Nat
  PROVE  /\ AtMost(a + q, c) \in 0 .. c
         /\ a = c => AtMost(a + q, c) = c
  BY DEF AtMost

LEMMA Waits ==
  ASSUME TypeOK, period' \in Period, NoRequest \/ RequestOffboardAndArm
  PROVE  /\ command_age' \in 0 .. CommandPeriod /\ at' = at
         /\ armed' \in [ids -> BOOLEAN] /\ offboard' \in [ids -> BOOLEAN]
         /\ NoRequest /\ command_age = CommandPeriod => command_age' = CommandPeriod
  <1>1. /\ command_age \in Nat /\ command_age <= CommandPeriod
        /\ CommandPeriod \in Nat /\ period' \in Nat /\ period' > 0
    BY MissionAssumption DEF TypeOK
  <1>2. at' = at  BY DEF NoRequest, RequestOffboardAndArm, px4
  <1>3. armed' \in [ids -> BOOLEAN] /\ offboard' \in [ids -> BOOLEAN]
    BY DEF NoRequest, RequestOffboardAndArm, px4, TypeOK
  <1>. DEFINE q == period'
              c == CommandPeriod
  <1>4. /\ c \in Nat /\ q \in Nat /\ command_age \in 0 .. c
        /\ NoRequest => command_age' = AtMost(command_age + q, c)
        /\ RequestOffboardAndArm => command_age' = 0 \/
                                     (command_age' = command_age + q /\ command_age + q < c)
    <2>1. NoRequest => command_age' = AtMost(command_age + q, c)
      BY DEF NoRequest
    <2>2. RequestOffboardAndArm => command_age' = 0 \/
                                   (command_age' = command_age + q /\ command_age + q < c)
      BY ZenonT(20) DEF RequestOffboardAndArm
    <2>3. c \in Nat /\ q \in Nat /\ command_age \in 0 .. c  BY <1>1
    <2>. QED  BY <2>1, <2>2, <2>3
  <1>5. /\ AtMost(command_age + q, c) \in 0 .. c
        /\ command_age = c => AtMost(command_age + q, c) = c
    BY <1>4, CappedSum
  <1>. HIDE DEF q, c
  <1>6. command_age' \in 0 .. c
    <2>1. CASE NoRequest  BY <1>4, <1>5, <2>1
    <2>2. CASE RequestOffboardAndArm  BY <1>4, <2>2
    <2>. QED  BY <2>1, <2>2
  <1>7. NoRequest /\ command_age = c => command_age' = c
    BY <1>4, <1>5
  <1>. QED  BY <1>2, <1>3, <1>6, <1>7 DEF c

LEMMA Streams ==
  ASSUME TypeOK, period' \in Period, NEW targets, Publish(targets)
  PROVE  /\ setpoint' = targets
         /\ stream_age' \in 0 .. prestream_sec
         /\ stream_age = -1 => stream_age' = 0
         /\ stream_age = prestream_sec => stream_age' = prestream_sec
         /\ \A age \in Nat : stream_age = AtMost(age, prestream_sec) =>
              stream_age' = AtMost(age + period', prestream_sec)
  <1>1. /\ stream_age \in Int /\ stream_age >= -1 /\ stream_age <= prestream_sec
        /\ prestream_sec \in Nat \ {0} /\ period' \in Nat /\ period' > 0
    BY MissionAssumption DEF TypeOK
  <1>2. /\ setpoint' = targets
        /\ stream_age' = IF stream_age < 0 THEN 0
                         ELSE AtMost(stream_age + period', prestream_sec)
    BY DEF Publish
  <1>6. stream_age \in 0 .. prestream_sec =>
          /\ AtMost(stream_age + period', prestream_sec) \in 0 .. prestream_sec
          /\ stream_age = prestream_sec =>
               AtMost(stream_age + period', prestream_sec) = prestream_sec
    <2>. DEFINE q == period'
    <2>1. q \in Nat /\ prestream_sec \in Nat  BY <1>1
    <2>. HIDE DEF q
    <2>2. stream_age \in 0 .. prestream_sec =>
            /\ AtMost(stream_age + q, prestream_sec) \in 0 .. prestream_sec
            /\ stream_age = prestream_sec =>
                 AtMost(stream_age + q, prestream_sec) = prestream_sec
      BY <2>1, CappedSum
    <2>. QED  BY <2>2 DEF q
  <1>7. stream_age = -1 \/ stream_age \in 0 .. prestream_sec  BY <1>1
  <1>3. stream_age' \in 0 .. prestream_sec  BY <1>1, <1>2, <1>6, <1>7
  <1>4. /\ stream_age = -1 => stream_age' = 0
        /\ stream_age = prestream_sec => stream_age' = prestream_sec
    BY <1>1, <1>2, <1>6, <1>7
  <1>5. ASSUME NEW age \in Nat, stream_age = AtMost(age, prestream_sec)
        PROVE  stream_age' = AtMost(age + period', prestream_sec)
    <2>. DEFINE q == period'
    <2>1. q \in Nat  BY <1>1
    <2>2. stream_age \in 0 .. prestream_sec  BY <1>1, <1>5 DEF AtMost
    <2>3. stream_age' = AtMost(stream_age + q, prestream_sec)  BY <1>2, <2>2
    <2>. HIDE DEF q
    <2>4. stream_age' = AtMost(age + q, prestream_sec)
      BY <1>1, <1>5, <2>1, <2>2, <2>3 DEF AtMost
    <2>. QED  BY <2>4 DEF q
  <1>. QED  BY <1>2, <1>3, <1>4, <1>5

\* What any phase's callback leaves of the invariant, once its own variables
\* are known to be right.
LEMMA PhaseKeeps ==
  ASSUME MissionInv, period' \in Period, NoRequest \/ RequestOffboardAndArm,
         phase' \in Phases \ {"WAIT_ODOMETRY"}, phase_age' \in Nat,
         stream_age' \in -1 .. prestream_sec,
         UNCHANGED <<positions, status, drops, restarts>>,
         Placed', \A i \in ids : Within(setpoint'[i], i),
         setpoint' \in [ids -> Position],
         StreamInv', SetpointInv'
  PROVE  MissionInv'
  <1>1. /\ command_age' \in 0 .. CommandPeriod /\ at' = at
        /\ armed' \in [ids -> BOOLEAN] /\ offboard' \in [ids -> BOOLEAN]
    BY Waits DEF MissionInv
  <1>2. origin' \in [ids -> Position]  BY DEF Placed
  <1>3. TypeOK'  BY <1>1, <1>2 DEF MissionInv, TypeOK
  <1>4. HeightsInv'
    BY <1>1 DEF MissionInv, HeightsInv, Within
  <1>5. PositionsInv'  BY DEF PositionsInv
  <1>. QED  BY <1>3, <1>4, <1>5 DEF MissionInv

\* The mission begins where every UAV is.
LEMMA WaitOdometryKeeps ==
  ASSUME MissionInv, period' \in Period, WaitOdometry, UNCHANGED <<drops, restarts>>
  PROVE  /\ MissionInv'
         /\ phase' # "WAIT_ODOMETRY" => \A i \in ids : setpoint'[i] = at[i]
  <1>. USE DEF MissionInv
  <1>1. /\ phase = "WAIT_ODOMETRY" /\ NoRequest
        /\ UNCHANGED <<positions, status>>
        /\ command_age = CommandPeriod /\ stream_age = -1
    BY DEF WaitOdometry, StreamInv
  <1>2. /\ command_age' = CommandPeriod /\ command_age' \in 0 .. CommandPeriod
        /\ at' = at /\ armed' \in [ids -> BOOLEAN] /\ offboard' \in [ids -> BOOLEAN]
    BY <1>1, Waits
  <1>3. CASE \E i \in ids : positions[i] = Unknown
    <2>1. UNCHANGED <<phase, phase_age, origin, setpoint, stream_age>>
      BY <1>3 DEF WaitOdometry
    <2>2. TypeOK'  BY <1>1, <1>2, <2>1 DEF TypeOK
    <2>3. HeightsInv'  BY <1>1, <1>2, <2>1 DEF HeightsInv, Placed, Within
    <2>4. StreamInv' /\ PositionsInv' /\ SetpointInv'
      BY <1>1, <1>2, <2>1 DEF StreamInv, PositionsInv, SetpointInv
    <2>. QED  BY <1>1, <2>1, <2>2, <2>3, <2>4
  <1>4. CASE ~(\E i \in ids : positions[i] = Unknown)
    <2>1. /\ origin' = positions /\ phase' = "PRESTREAM" /\ phase_age' = 0
          /\ Publish(positions)
      BY <1>4 DEF WaitOdometry, SetPhase, GroundTargets, Publish
    <2>2. setpoint' = positions /\ stream_age' = 0
      BY <1>1, <2>1, Streams
    <2>3. \A i \in ids : positions[i] = at[i] /\ Within(positions[i], i)
      BY <1>1, <1>4 DEF PositionsInv, HeightsInv
    <2>4. positions \in [ids -> Position]
      BY <2>3 DEF TypeOK, Within
    <2>5. Placed'
      BY <2>1, <2>3, <2>4 DEF Placed, Within
    <2>6. StreamInv'
      <3>1. AtMost(0, prestream_sec) = 0  BY MissionAssumption DEF AtMost
      <3>. QED  BY <1>2, <2>1, <2>2, <3>1 DEF StreamInv
    <2>7. SetpointInv'  BY <2>1, <2>2 DEF SetpointInv
    <2>8. /\ phase' \in Phases \ {"WAIT_ODOMETRY"} /\ phase_age' \in Nat
          /\ stream_age' \in -1 .. prestream_sec
      BY <2>1, <2>2, MissionAssumption DEF Phases
    <2>9. MissionInv'
      BY <1>1, <2>2, <2>3, <2>4, <2>5, <2>6, <2>7, <2>8, PhaseKeeps
    <2>. QED  BY <2>2, <2>3, <2>9
  <1>. QED  BY <1>3, <1>4

\* A phase with its callback's age.
LEMMA Ages ==
  ASSUME MissionInv, period' \in Period
  PROVE  /\ phase_age \in Nat /\ period' \in Nat /\ Age \in Nat
         /\ phase_age <= Age /\ Age - phase_age = period' /\ 0 <= Age
  <1>1. phase_age \in Nat /\ period' \in Nat
    BY MissionAssumption DEF MissionInv, TypeOK
  <1>. DEFINE q == period'
  <1>2. q \in Nat /\ Age = phase_age + q  BY <1>1 DEF Age
  <1>. HIDE DEF q
  <1>3. Age \in Nat /\ phase_age <= Age /\ Age - phase_age = q /\ 0 <= Age
    BY <1>1, <1>2
  <1>. QED  BY <1>1, <1>3 DEF q

\* On the ground the setpoint stays where it is.
LEMMA GroundKeeps ==
  ASSUME MissionInv, period' \in Period, Prestream \/ ArmOffboard,
         UNCHANGED <<drops, restarts>>
  PROVE  MissionInv' /\ Moved
  <1>. USE DEF MissionInv
  <1>1. /\ phase \in {"PRESTREAM", "ARM_OFFBOARD"} /\ Publish(origin)
        /\ UNCHANGED <<positions, status, origin>>
        /\ NoRequest \/ RequestOffboardAndArm
    BY DEF Prestream, ArmOffboard, GroundTargets
  <1>2. setpoint = origin /\ setpoint' = origin /\ origin' = origin
    BY <1>1, Streams DEF SetpointInv
  <1>3. \A i \in ids : Within(origin[i], i) /\ origin[i] \in Position
    BY DEF HeightsInv, Placed, Within
  <1>4. Placed'  BY <1>2 DEF HeightsInv, Placed, Within
  <1>5. Moved
    <2>. SUFFICES ASSUME NEW i \in ids
                  PROVE  Distance(setpoint'[i], setpoint[i]) <= Speed(i) * period'
      BY DEF Moved
    <2>1. Distance(origin[i], origin[i]) = 0  BY <1>3, Distances
    <2>2. Speed(i) \in Nat /\ period' \in Nat  BY SpeedSuffices, Ages
    <2>3. 0 <= Speed(i) * period'  BY <2>2
    <2>. QED  BY <1>2, <2>1, <2>3
  <1>6. phase_age \in Nat /\ Age \in Nat /\ Age = phase_age + period' /\ period' \in Nat
    BY Ages DEF Age
  <1>7. \/ phase' = phase /\ phase_age' = Age
        \/ phase = "PRESTREAM" /\ phase' = "ARM_OFFBOARD" /\ phase_age' = 0 /\ Age >= prestream_sec
        \/ phase = "ARM_OFFBOARD" /\ phase' = "TAKEOFF" /\ phase_age' = 0
    BY DEF Prestream, ArmOffboard, SetPhase, StayInPhase, Age
  <1>8. stream_age' \in 0 .. prestream_sec
    BY <1>1, Streams
  <1>9. StreamInv'
    <2>1. CASE phase = "PRESTREAM"
      <3>1. NoRequest  BY <2>1 DEF Prestream, ArmOffboard
      <3>2. command_age' = CommandPeriod
        BY <2>1, <3>1, Waits DEF StreamInv
      <3>3. stream_age = AtMost(phase_age, prestream_sec)
        BY <2>1 DEF StreamInv
      <3>4. stream_age' = AtMost(Age, prestream_sec)
        BY <1>1, <1>6, <3>3, Streams
      <3>5. Age >= prestream_sec => AtMost(Age, prestream_sec) = prestream_sec
        BY <1>6, MissionAssumption DEF AtMost
      <3>6. CASE phase' = "PRESTREAM" /\ phase_age' = Age
        BY <3>2, <3>4, <3>6 DEF StreamInv
      <3>7. CASE phase' = "ARM_OFFBOARD" /\ Age >= prestream_sec
        BY <3>4, <3>5, <3>7 DEF StreamInv
      <3>. QED  BY <1>7, <2>1, <3>6, <3>7
    <2>2. CASE phase = "ARM_OFFBOARD"
      <3>1. stream_age = prestream_sec  BY <2>2 DEF StreamInv
      <3>2. stream_age' = prestream_sec  BY <1>1, <3>1, Streams
      <3>3. phase' \in {"ARM_OFFBOARD", "TAKEOFF"}  BY <1>7, <2>2
      <3>. QED  BY <3>2, <3>3 DEF StreamInv
    <2>. QED  BY <1>1, <2>1, <2>2
  <1>10. SetpointInv'
    <2>1. CASE phase' \in {"PRESTREAM", "ARM_OFFBOARD"}
      BY <1>2, <2>1 DEF SetpointInv
    <2>2. CASE phase' = "TAKEOFF" /\ phase_age' = 0
      <3>0. Placed  BY DEF HeightsInv
      <3>1. \A i \in ids : TakeoffTargets(0)[i] = origin[i]
        BY <3>0, TakeoffMoves
      <3>2. origin \in [ids -> Position]  BY DEF TypeOK
      <3>3. TakeoffTargets(0) = [i \in ids |-> TakeoffTargets(0)[i]]
        BY DEF TakeoffTargets
      <3>4. TakeoffTargets(0) = origin  BY <3>1, <3>2, <3>3
      <3>5. TakeoffTargets(phase_age)' = TakeoffTargets(0)
        BY <1>2, <2>2 DEF TakeoffTargets, AirborneTargets
      <3>. QED  BY <1>2, <2>2, <3>4, <3>5 DEF SetpointInv
    <2>. QED  BY <1>1, <1>7, <2>1, <2>2
  <1>11. phase' \in Phases \ {"WAIT_ODOMETRY"} /\ phase_age' \in Nat
    BY <1>1, <1>6, <1>7 DEF Phases
  <1>12. setpoint' \in [ids -> Position] /\ \A i \in ids : Within(setpoint'[i], i)
    BY <1>2, <1>3 DEF TypeOK
  <1>13. stream_age' \in -1 .. prestream_sec
    BY <1>8, MissionAssumption
  <1>14. MissionInv'
    BY <1>1, <1>4, <1>9, <1>10, <1>11, <1>12, <1>13, PhaseKeeps
  <1>. QED  BY <1>5, <1>14

\* Up, and then in place.
LEMMA ClimbKeeps ==
  ASSUME MissionInv, period' \in Period, Takeoff \/ Settle,
         UNCHANGED <<drops, restarts>>
  PROVE  MissionInv' /\ Moved
  <1>. USE DEF MissionInv
  <1>0. Placed  BY DEF HeightsInv
  <1>1. /\ phase \in {"TAKEOFF", "SETTLE"} /\ RequestOffboardAndArm
        /\ UNCHANGED <<positions, status, origin>>
        /\ stream_age = prestream_sec
    BY DEF Takeoff, Settle, StreamInv
  <1>2. /\ phase_age \in Nat /\ Age \in Nat /\ phase_age <= Age
        /\ Age - phase_age = period' /\ period' \in Nat
    BY Ages
  <1>3. \A i \in ids : /\ Within(AirborneTargets[i], i)
                       /\ AirborneTargets[i] \in Position
    BY <1>0, Airborne DEF Within
  <1>4. AirborneTargets \in [ids -> Position]
    BY <1>3 DEF AirborneTargets
  <1>5. /\ \A t \in Nat : TakeoffTargets(t) = [i \in ids |-> TakeoffTargets(t)[i]]
        /\ \A t \in Nat, i \in ids : Within(TakeoffTargets(t)[i], i)
    <2>1. \A t \in Nat : t <= t  OBVIOUS
    <2>. QED  BY <1>0, <2>1, TakeoffMoves DEF TakeoffTargets
  <1>6. \A t \in Nat : t >= takeoff_sec => TakeoffTargets(t) = AirborneTargets
    <2>. SUFFICES ASSUME NEW t \in Nat, t >= takeoff_sec
                  PROVE  TakeoffTargets(t) = AirborneTargets
      OBVIOUS
    <2>1. t <= t  OBVIOUS
    <2>2. \A i \in ids : TakeoffTargets(t)[i] = AirborneTargets[i]
      BY <1>0, <2>1, TakeoffMoves
    <2>. QED  BY <1>4, <1>5, <2>2
  <1>7. Placed'  BY <1>0, <1>1 DEF Placed, Within
  <1>8. CASE phase = "TAKEOFF"
    <2>1. /\ Publish(TakeoffTargets(Age))
          /\ \/ phase' = "TAKEOFF" /\ phase_age' = Age
             \/ phase' = "SETTLE" /\ phase_age' = 0 /\ Age >= takeoff_sec
      BY <1>8 DEF Takeoff, Settle, SetPhase, StayInPhase, Age
    <2>2. /\ setpoint' = TakeoffTargets(Age) /\ stream_age' = prestream_sec
          /\ setpoint = TakeoffTargets(phase_age)
      BY <1>1, <1>8, <2>1, Streams DEF SetpointInv
    <2>3. \A i \in ids : Distance(setpoint'[i], setpoint[i]) <= Speed(i) * (Age - phase_age)
      BY <1>0, <1>2, <2>2, TakeoffMoves
    <2>4. Moved  BY <1>2, <2>3 DEF Moved
    <2>5. SetpointInv'
      <3>1. CASE phase' = "TAKEOFF" /\ phase_age' = Age
        <4>1. TakeoffTargets(phase_age)' = TakeoffTargets(Age)
          BY <1>1, <3>1 DEF TakeoffTargets, AirborneTargets
        <4>. QED  BY <2>2, <3>1, <4>1 DEF SetpointInv
      <3>2. CASE phase' = "SETTLE" /\ Age >= takeoff_sec
        <4>1. setpoint' = AirborneTargets  BY <1>2, <1>6, <2>2, <3>2
        <4>2. AirborneTargets' = AirborneTargets  BY <1>1 DEF AirborneTargets
        <4>. QED  BY <3>2, <4>1, <4>2 DEF SetpointInv
      <3>. QED  BY <2>1, <3>1, <3>2
    <2>6. /\ setpoint' \in [ids -> Position] /\ \A i \in ids : Within(setpoint'[i], i)
      BY <1>2, <1>5, <2>2 DEF Within
    <2>7. StreamInv'  BY <2>1, <2>2 DEF StreamInv
    <2>8. /\ phase' \in Phases \ {"WAIT_ODOMETRY"} /\ phase_age' \in Nat
          /\ stream_age' \in -1 .. prestream_sec
      BY <1>2, <2>1, <2>2, MissionAssumption DEF Phases
    <2>9. MissionInv'
      BY <1>1, <1>7, <2>5, <2>6, <2>7, <2>8, PhaseKeeps
    <2>. QED  BY <2>4, <2>9
  <1>9. CASE phase = "SETTLE"
    <2>1. /\ Publish(AirborneTargets)
          /\ \/ phase' = "SETTLE" /\ phase_age' = Age
             \/ phase' = "SQUARE" /\ phase_age' = 0
      BY <1>9 DEF Takeoff, Settle, SetPhase, StayInPhase, Age
    <2>2. /\ setpoint' = AirborneTargets /\ stream_age' = prestream_sec
          /\ setpoint = AirborneTargets
      BY <1>1, <1>9, <2>1, Streams DEF SetpointInv
    <2>3. Moved
      <3>. SUFFICES ASSUME NEW i \in ids
                    PROVE  Distance(setpoint'[i], setpoint[i]) <= Speed(i) * period'
        BY DEF Moved
      <3>1. Distance(AirborneTargets[i], AirborneTargets[i]) = 0  BY <1>3, Distances
      <3>2. Speed(i) \in Nat /\ period' \in Nat  BY <1>2, SpeedSuffices
      <3>3. 0 <= Speed(i) * period'  BY <3>2
      <3>. QED  BY <2>2, <3>1, <3>3
    <2>4. AirborneTargets' = AirborneTargets  BY <1>1 DEF AirborneTargets
    <2>5. SetpointInv'
      <3>1. CASE phase' = "SETTLE"  BY <2>2, <2>4, <3>1 DEF SetpointInv
      <3>2. CASE phase' = "SQUARE" /\ phase_age' = 0
        <4>1. 0 <= 0 /\ Flyer \in ids  BY MissionAssumption
        <4>2. SquareTargets(0) = AirborneTargets  BY <1>0, <4>1, SquareMoves
        <4>3. SquareTargets(phase_age)' = SquareTargets(0)
          BY <2>4, <3>2 DEF SquareTargets, Corner
        <4>. QED  BY <2>2, <3>2, <4>2, <4>3 DEF SetpointInv
      <3>. QED  BY <2>1, <3>1, <3>2
    <2>6. StreamInv'  BY <2>1, <2>2 DEF StreamInv
    <2>7. /\ phase' \in Phases \ {"WAIT_ODOMETRY"} /\ phase_age' \in Nat
          /\ stream_age' \in -1 .. prestream_sec
      BY <1>2, <2>1, <2>2, MissionAssumption DEF Phases
    <2>8. MissionInv'
      BY <1>1, <1>3, <1>4, <1>7, <2>2, <2>5, <2>6, <2>7, PhaseKeeps
    <2>. QED  BY <2>3, <2>8
  <1>. QED  BY <1>1, <1>8, <1>9

\* Around the rectangle, and from where its last setpoint was to its end.
LEMMA SquareKeeps ==
  ASSUME MissionInv, period' \in Period, NEW late \in Lag, Square(late),
         UNCHANGED <<drops, restarts>>
  PROVE  MissionInv' /\ Moved
  <1>. USE DEF MissionInv
  <1>0. Placed  BY DEF HeightsInv
  <1>1. /\ phase = "SQUARE" /\ RequestOffboardAndArm
        /\ UNCHANGED <<positions, status, origin>>
        /\ stream_age = prestream_sec /\ Publish(SquareTargets(Age))
        /\ \/ phase' = "SQUARE" /\ phase_age' = Age
           \/ phase' = "FINAL_HOLD" /\ phase_age' = 0 /\ Age + late >= 4 * leg_sec
    BY DEF Square, StreamInv, SetPhase, StayInPhase, Age
  <1>2. /\ phase_age \in Nat /\ Age \in Nat /\ phase_age <= Age
        /\ Age - phase_age = period' /\ period' \in Nat
    BY Ages
  <1>3. /\ setpoint' = SquareTargets(Age) /\ stream_age' = prestream_sec
        /\ setpoint = SquareTargets(phase_age)
    BY <1>1, Streams DEF SetpointInv
  <1>4. \A i \in ids : /\ SquareTargets(Age) \in [ids -> Position]
                       /\ Within(SquareTargets(Age)[i], i)
    <2>1. Age <= Age  BY <1>2
    <2>. QED  BY <1>0, <1>2, <2>1, SquareMoves
  <1>5. Flyer \in ids  BY MissionAssumption
  <1>6. \A i \in ids : Distance(setpoint'[i], setpoint[i]) <= Speed(i) * (Age - phase_age)
    BY <1>0, <1>2, <1>3, SquareMoves
  <1>7. Moved  BY <1>2, <1>6 DEF Moved
  <1>8. \A t \in Nat : SquareTargets(t)' = SquareTargets(t)
    BY <1>1 DEF SquareTargets, Corner, AirborneTargets
  <1>9. SetpointInv'
    <2>1. CASE phase' = "SQUARE" /\ phase_age' = Age
      <3>1. SquareTargets(phase_age)' = SquareTargets(Age)
        BY <1>1, <2>1 DEF SquareTargets, Corner, AirborneTargets
      <3>. QED  BY <1>3, <2>1, <3>1 DEF SetpointInv
    <2>2. CASE phase' = "FINAL_HOLD" /\ Age + late >= 4 * leg_sec
      <3>1. PICK age \in Nat : age = Age  BY <1>2
      <3>2. age + late >= 4 * leg_sec /\ setpoint' = SquareTargets(age)'
        BY <1>3, <1>8, <2>2, <3>1
      <3>. QED  BY <2>2, <3>2 DEF SetpointInv
    <2>. QED  BY <1>1, <2>1, <2>2
  <1>10. Placed'  BY <1>0, <1>1 DEF Placed, Within
  <1>11. StreamInv'  BY <1>1, <1>3 DEF StreamInv
  <1>12. /\ phase' \in Phases \ {"WAIT_ODOMETRY"} /\ phase_age' \in Nat
         /\ stream_age' \in -1 .. prestream_sec
    BY <1>1, <1>2, <1>3, MissionAssumption DEF Phases
  <1>13. MissionInv'
    BY <1>1, <1>3, <1>4, <1>5, <1>9, <1>10, <1>11, <1>12, PhaseKeeps
  <1>. QED  BY <1>7, <1>13

LEMMA FinalHoldKeeps ==
  ASSUME MissionInv, period' \in Period, FinalHold, UNCHANGED <<drops, restarts>>
  PROVE  MissionInv' /\ Moved
  <1>. USE DEF MissionInv
  <1>0. Placed  BY DEF HeightsInv
  <1>1. /\ phase = "FINAL_HOLD" /\ phase' = phase /\ phase_age' = phase_age
        /\ NoRequest /\ UNCHANGED <<positions, status, origin>>
        /\ stream_age = prestream_sec /\ Publish(AirborneTargets)
    BY DEF FinalHold, StreamInv
  <1>2. setpoint' = AirborneTargets /\ stream_age' = prestream_sec
    BY <1>1, Streams
  <1>3. PICK age \in Nat, late \in Lag :
          age + late >= 4 * leg_sec /\ setpoint = SquareTargets(age)
    BY <1>1 DEF SetpointInv
  <1>. DEFINE q == period'
              e == 4 * leg_sec
  <1>4. /\ q \in Nat /\ late \in Nat /\ late <= q
        /\ e \in Nat /\ Flyer \in ids
    BY Ages, MissionAssumption
  <1>5. SquareTargets(e) = AirborneTargets
    <2>1. e <= e /\ e >= 4 * leg_sec  BY <1>4
    <2>. QED  BY <1>0, <1>4, <2>1, SquareMoves
  <1>6. Moved
    <2>. SUFFICES ASSUME NEW i \in ids
                  PROVE  Distance(setpoint'[i], setpoint[i]) <= Speed(i) * q
      BY DEF Moved
    <2>1. Speed(i) \in Nat  BY SpeedSuffices
    <2>2. CASE age <= e
      <3>1. Distance(SquareTargets(e)[i], SquareTargets(age)[i]) <= Speed(i) * (e - age)
        BY <1>0, <1>4, <2>2, SquareMoves
      <3>2. Distance(setpoint'[i], setpoint[i]) <= Speed(i) * (e - age)
        BY <1>2, <1>3, <1>5, <3>1
      <3>3. age + late >= e  BY <1>3
      <3>4. Distance(setpoint'[i], setpoint[i]) \in Nat
        <4>1. SquareTargets(age)[i] \in Position /\ SquareTargets(e)[i] \in Position
          <5>1. e <= e /\ age <= age  BY <1>4
          <5>2. Within(SquareTargets(e)[i], i)  BY <1>0, <1>4, <5>1, SquareMoves
          <5>3. Within(SquareTargets(age)[i], i)  BY <1>0, <5>1, SquareMoves
          <5>. QED  BY <5>2, <5>3 DEF Within
        <4>. QED  BY <1>2, <1>3, <1>5, <4>1, Distances
      <3>. HIDE DEF e, q
      <3>5. e - age \in Int /\ e - age <= q  BY <1>4, <3>3
      <3>6. Speed(i) * (e - age) <= Speed(i) * q  BY <1>4, <2>1, <3>5
      <3>7. Speed(i) * (e - age) \in Int /\ Speed(i) * q \in Int  BY <1>4, <2>1
      <3>. QED  BY <3>2, <3>4, <3>6, <3>7
    <2>3. CASE age > e
      <3>1. age <= age /\ age >= 4 * leg_sec  BY <1>4, <2>3
      <3>2. SquareTargets(age) = AirborneTargets  BY <1>0, <1>4, <3>1, SquareMoves
      <3>3. AirborneTargets[i] \in Position  BY <1>0, Airborne DEF Within
      <3>4. Distance(setpoint'[i], setpoint[i]) = 0
        BY <1>2, <1>3, <3>2, <3>3, Distances
      <3>. HIDE DEF q
      <3>5. 0 <= Speed(i) * q  BY <1>4, <2>1
      <3>. QED  BY <3>4, <3>5
    <2>. QED  BY <1>4, <2>2, <2>3
  <1>7. Placed'  BY <1>0, <1>1 DEF Placed, Within
  <1>8. SetpointInv'
    <2>1. SquareTargets(e)' = SquareTargets(e)
      BY <1>1 DEF SquareTargets, Corner, AirborneTargets
    <2>2. e + late >= 4 * leg_sec  BY <1>4
    <2>3. setpoint' = SquareTargets(e)'  BY <1>2, <1>5, <2>1
    <2>4. \E x \in Nat, y \in Lag : x + y >= 4 * leg_sec /\ setpoint' = SquareTargets(x)'
      BY <1>4, <2>2, <2>3
    <2>. QED  BY <1>1, <2>4 DEF SetpointInv
  <1>9. StreamInv'  BY <1>1, <1>2 DEF StreamInv
  <1>10. /\ phase' \in Phases \ {"WAIT_ODOMETRY"} /\ phase_age' \in Nat
         /\ stream_age' \in -1 .. prestream_sec
    BY <1>1, <1>2, MissionAssumption DEF Phases, TypeOK
  <1>11. /\ setpoint' \in [ids -> Position] /\ \A i \in ids : Within(setpoint'[i], i)
    BY <1>0, <1>2, <1>4, Airborne
  <1>12. MissionInv'
    BY <1>1, <1>7, <1>8, <1>9, <1>10, <1>11, PhaseKeeps
  <1>. QED  BY <1>6, <1>12

LEMMA TimerKeeps ==
  ASSUME MissionInv, TimerCallback
  PROVE  /\ MissionInv'
         /\ phase # "WAIT_ODOMETRY" => Moved
         /\ phase = "WAIT_ODOMETRY" /\ phase' # "WAIT_ODOMETRY" =>
              \A i \in ids : setpoint'[i] = at[i]
  <1>1. period' \in Period /\ UNCHANGED <<drops, restarts>>
    BY DEF TimerCallback
  <1>2. CASE WaitOdometry
    <2>1. phase = "WAIT_ODOMETRY"  BY <1>2 DEF WaitOdometry
    <2>. QED  BY <1>1, <1>2, <2>1, WaitOdometryKeeps
  <1>3. CASE Prestream \/ ArmOffboard
    <2>1. phase # "WAIT_ODOMETRY"  BY <1>3 DEF Prestream, ArmOffboard
    <2>. QED  BY <1>1, <1>3, <2>1, GroundKeeps
  <1>4. CASE Takeoff \/ Settle
    <2>1. phase # "WAIT_ODOMETRY"  BY <1>4 DEF Takeoff, Settle
    <2>. QED  BY <1>1, <1>4, <2>1, ClimbKeeps
  <1>5. CASE \E late \in Lag : Square(late)
    <2>1. PICK late \in Lag : Square(late)  BY <1>5
    <2>2. phase # "WAIT_ODOMETRY"  BY <2>1 DEF Square
    <2>. QED  BY <1>1, <2>1, <2>2, SquareKeeps
  <1>6. CASE FinalHold
    <2>1. phase # "WAIT_ODOMETRY"  BY <1>6 DEF FinalHold
    <2>. QED  BY <1>1, <1>6, <2>1, FinalHoldKeeps
  <1>. QED  BY <1>2, <1>3, <1>4, <1>5, <1>6 DEF TimerCallback

-----------------------------------------------------------------------------
(* The other steps publish nothing.                                         *)

Silent == setpoint' = setpoint /\ period' = period

LEMMA SilentMoves ==
  ASSUME MissionInv, Silent
  PROVE  Moved
  <1>. SUFFICES ASSUME NEW i \in ids
                PROVE  Distance(setpoint'[i], setpoint[i]) <= Speed(i) * period'
    BY DEF Moved
  <1>1. setpoint[i] \in Position /\ period \in Nat /\ Speed(i) \in Nat
    BY SpeedSuffices, MissionAssumption DEF MissionInv, TypeOK
  <1>2. Distance(setpoint[i], setpoint[i]) = 0  BY <1>1, Distances
  <1>3. 0 <= Speed(i) * period  BY <1>1
  <1>. QED  BY <1>2, <1>3 DEF Silent

\* What the targets depend on is left alone.
SamePlan == UNCHANGED <<phase, phase_age, origin, setpoint>>

LEMMA SamePlanKeeps ==
  ASSUME SamePlan, SetpointInv, Placed
  PROVE  SetpointInv' /\ Placed'
  <1>1. SetpointInv'
    <2>. USE DEF SamePlan, SetpointInv
    <2>1. /\ TakeoffTargets(phase_age)' = TakeoffTargets(phase_age)
          /\ AirborneTargets' = AirborneTargets
          /\ SquareTargets(phase_age)' = SquareTargets(phase_age)
      BY DEF TakeoffTargets, AirborneTargets, SquareTargets, Corner
    <2>2. ASSUME phase = "FINAL_HOLD"
          PROVE  \E age \in Nat, late \in Lag :
                   age + late >= 4 * leg_sec /\ setpoint' = SquareTargets(age)'
      <3>1. PICK age \in Nat, late \in Lag :
              age + late >= 4 * leg_sec /\ setpoint = SquareTargets(age)
        BY <2>2
      <3>2. SquareTargets(age)' = SquareTargets(age)
        BY DEF SquareTargets, AirborneTargets, Corner
      <3>. QED  BY <3>1, <3>2
    <2>. QED  BY <2>1, <2>2
  <1>2. Placed'  BY DEF SamePlan, Placed, Within
  <1>. QED  BY <1>1, <1>2

LEMMA OdomKeeps ==
  ASSUME MissionInv, NEW i \in ids, OdomCallback(i)
  PROVE  MissionInv' /\ Silent /\ phase' = phase
  <1>. USE DEF MissionInv, OdomCallback, stream, px4
  <1>1. SamePlan /\ Silent  BY DEF SamePlan, Silent
  <1>2. SetpointInv' /\ Placed'  BY <1>1, SamePlanKeeps DEF HeightsInv
  <1>3. /\ positions \in [ids -> Position \cup {Unknown}] /\ at \in [ids -> Position]
        /\ positions' = [positions EXCEPT ![i] = at[i]]
    BY DEF TypeOK
  <1>4. /\ positions' \in [ids -> Position \cup {Unknown}]
        /\ \A j \in ids : positions'[j] \in {positions[j], at[j]}
    BY <1>3
  <1>5. TypeOK'  BY <1>4 DEF TypeOK
  <1>6. HeightsInv'  BY <1>2, <1>4 DEF HeightsInv, Within
  <1>7. StreamInv' /\ PositionsInv'  BY <1>4 DEF StreamInv, PositionsInv
  <1>. QED  BY <1>1, <1>2, <1>5, <1>6, <1>7

LEMMA StatusKeeps ==
  ASSUME MissionInv, NEW i \in ids, StatusCallback(i)
  PROVE  MissionInv' /\ Silent /\ phase' = phase
  <1>. USE DEF MissionInv, StatusCallback, stream, px4
  <1>1. SamePlan /\ Silent  BY DEF SamePlan, Silent
  <1>2. SetpointInv' /\ Placed'  BY <1>1, SamePlanKeeps DEF HeightsInv
  <1>3. status' \in [ids -> [armed : BOOLEAN, offboard : BOOLEAN]]
    <2>1. [armed |-> armed[i], offboard |-> offboard[i]]
            \in [armed : BOOLEAN, offboard : BOOLEAN]
      BY DEF TypeOK
    <2>. QED  BY <2>1 DEF TypeOK
  <1>4. TypeOK'  BY <1>3 DEF TypeOK
  <1>5. HeightsInv'  BY <1>2 DEF HeightsInv, Within
  <1>6. StreamInv' /\ PositionsInv'  BY DEF StreamInv, PositionsInv
  <1>. QED  BY <1>1, <1>2, <1>4, <1>5, <1>6

LEMMA FollowKeeps ==
  ASSUME MissionInv, NEW i \in ids, Follow(i)
  PROVE  MissionInv' /\ Silent /\ phase' = phase
  <1>. USE DEF MissionInv, stream
  <1>1. SamePlan /\ Silent  BY DEF Follow, SamePlan, Silent
  <1>2. SetpointInv' /\ Placed'  BY <1>1, SamePlanKeeps DEF HeightsInv
  <1>3. /\ at \in [ids -> Position] /\ setpoint \in [ids -> Position]
        /\ positions \in [ids -> Position \cup {Unknown}]
        /\ at' = [at EXCEPT ![i] = setpoint[i]]
    BY DEF TypeOK, Follow
  <1>4. /\ at' \in [ids -> Position]
        /\ \A j \in ids : at'[j] = IF j = i THEN setpoint[j] ELSE at[j]
    BY <1>3
  <1>5. /\ positions' \in [ids -> Position \cup {Unknown}]
        /\ \A j \in ids : positions'[j] = IF /\ j = i /\ phase = "WAIT_ODOMETRY"
                                              /\ positions[j] # Unknown
                                           THEN setpoint[j] ELSE positions[j]
    <2>1. CASE phase = "WAIT_ODOMETRY" /\ positions[i] # Unknown
      <3>1. positions' = [positions EXCEPT ![i] = setpoint[i]]  BY <2>1 DEF Follow
      <3>. QED  BY <1>3, <2>1, <3>1
    <2>2. CASE ~(phase = "WAIT_ODOMETRY" /\ positions[i] # Unknown)
      <3>1. positions' = positions  BY <2>2 DEF Follow
      <3>. QED  BY <1>3, <2>2, <3>1
    <2>. QED  BY <2>1, <2>2
  <1>6. TypeOK'  BY <1>1, <1>4, <1>5 DEF TypeOK, SamePlan, Follow
  <1>7. \A j \in ids : /\ Within(setpoint[j], j) /\ Within(at[j], j)
                       /\ positions[j] = Unknown \/ Within(positions[j], j)
    BY DEF HeightsInv
  <1>8. \A j \in ids : /\ Within(setpoint'[j], j) /\ Within(at'[j], j)
                       /\ positions'[j] = Unknown \/ Within(positions'[j], j)
    BY <1>1, <1>4, <1>5, <1>7 DEF SamePlan
  <1>9. HeightsInv'  BY <1>2, <1>8 DEF HeightsInv, Within
  <1>10. StreamInv'  BY DEF Follow, StreamInv
  <1>11. PositionsInv'  BY <1>1, <1>4, <1>5 DEF PositionsInv, SamePlan
  <1>. QED  BY <1>1, <1>2, <1>6, <1>9, <1>10, <1>11 DEF SamePlan

LEMMA DropKeeps ==
  ASSUME MissionInv, NEW i \in ids, Drop(i)
  PROVE  MissionInv' /\ Silent /\ phase' = phase
  <1>. USE DEF MissionInv, node, stream
  <1>1. /\ SamePlan /\ Silent
        /\ UNCHANGED <<command_age, positions, status, stream_age, at, restarts>>
    BY DEF Drop, SamePlan, Silent
  <1>2. SetpointInv' /\ Placed'  BY <1>1, SamePlanKeeps DEF HeightsInv
  <1>3. /\ armed' \in [ids -> BOOLEAN] /\ offboard' \in [ids -> BOOLEAN]
        /\ drops' \in 0 .. MaxDrops
    <2>1. drops' \in 0 .. MaxDrops  BY MissionAssumption DEF Drop, TypeOK
    <2>. QED  BY <2>1 DEF Drop, TypeOK
  <1>4. TypeOK'  BY <1>1, <1>3 DEF TypeOK, SamePlan, Silent
  <1>5. HeightsInv'  BY <1>1, <1>2 DEF HeightsInv, Within, SamePlan
  <1>6. StreamInv' /\ PositionsInv'
    BY <1>1 DEF StreamInv, PositionsInv, SamePlan
  <1>. QED  BY <1>1, <1>2, <1>4, <1>5, <1>6 DEF SamePlan

LEMMA RestartKeeps ==
  ASSUME MissionInv, Restart
  PROVE  MissionInv' /\ Silent /\ phase' = "WAIT_ODOMETRY"
  <1>. USE DEF MissionInv, px4
  <1>1. /\ phase' = "WAIT_ODOMETRY" /\ phase_age' = 0 /\ command_age' = CommandPeriod
        /\ positions' = [j \in ids |-> Unknown] /\ origin' = home
        /\ status' = [j \in ids |-> NotReady] /\ stream_age' = -1
        /\ UNCHANGED <<setpoint, period, armed, offboard, at, drops>>
        /\ restarts < MaxRestarts /\ restarts' = restarts + 1
    BY DEF Restart
  <1>2. TypeOK'
    <2>1. /\ home \in [ids -> Position] /\ CommandPeriod \in 0 .. CommandPeriod
          /\ -1 \in -1 .. prestream_sec /\ restarts' \in 0 .. MaxRestarts
      BY <1>1, MissionAssumption DEF TypeOK
    <2>2. positions' \in [ids -> Position \cup {Unknown}]  BY <1>1
    <2>3. status' \in [ids -> [armed : BOOLEAN, offboard : BOOLEAN]]
      BY <1>1 DEF NotReady
    <2>. QED  BY <1>1, <2>1, <2>2, <2>3 DEF TypeOK, Phases
  <1>3. HeightsInv'
    BY <1>1, MissionAssumption DEF HeightsInv, Placed, Within
  <1>4. StreamInv' /\ PositionsInv' /\ SetpointInv'
    BY <1>1 DEF StreamInv, PositionsInv, SetpointInv
  <1>. QED  BY <1>1, <1>2, <1>3, <1>4 DEF Silent

LEMMA StutterKeeps ==
  ASSUME MissionInv, UNCHANGED vars
  PROVE  MissionInv' /\ Silent /\ phase' = phase
  <1>. USE DEF MissionInv, vars, node, stream, px4
  <1>1. SamePlan /\ Silent  BY DEF SamePlan, Silent
  <1>2. SetpointInv' /\ Placed'  BY <1>1, SamePlanKeeps DEF HeightsInv
  <1>3. TypeOK' /\ StreamInv' /\ PositionsInv'
    BY DEF TypeOK, StreamInv, PositionsInv
  <1>4. HeightsInv'  BY <1>2 DEF HeightsInv, Within
  <1>. QED  BY <1>1, <1>2, <1>3, <1>4

-----------------------------------------------------------------------------
(* Every step.                                                              *)

LEMMA NextKeeps ==
  ASSUME MissionInv, [Next]_vars
  PROVE  /\ MissionInv'
         /\ phase # "WAIT_ODOMETRY" => Moved
         /\ phase = "WAIT_ODOMETRY" /\ phase' # "WAIT_ODOMETRY" =>
              \A i \in ids : setpoint'[i] = at[i]
  <1>1. CASE TimerCallback  BY <1>1, TimerKeeps
  <1>2. CASE \E i \in ids : OdomCallback(i) \/ StatusCallback(i) \/ Follow(i) \/ Drop(i)
    <2>1. MissionInv' /\ Silent /\ phase' = phase
      BY <1>2, OdomKeeps, StatusKeeps, FollowKeeps, DropKeeps
    <2>. QED  BY <2>1, SilentMoves
  <1>3. CASE Restart  BY <1>3, RestartKeeps, SilentMoves
  <1>4. CASE UNCHANGED vars  BY <1>4, StutterKeeps, SilentMoves
  <1>. QED  BY <1>1, <1>2, <1>3, <1>4 DEF Next

\* The mission keeps to its plan: in every reachable state the setpoints are
\* those of the phase at its age, heights stay between the ground and the one to
\* go to, and the stream has been running as long as the phase says
\* (uav1_fastlio_mission.py 250-280, 313-375).
THEOREM MissionInvariant == Spec => []MissionInv
  <1>1. Init => MissionInv  BY InitMission
  <1>2. MissionInv /\ [Next]_vars => MissionInv'  BY NextKeeps
  <1>. QED  BY <1>1, <1>2, PTL DEF Spec

\* Every variable keeps its type, for any number of UAVs and any parameters.
THEOREM MissionTypeCorrect == Spec => []TypeOK
  <1>1. MissionInv => TypeOK  BY DEF MissionInv
  <1>. QED  BY <1>1, MissionInvariant, PTL

\* No command to enter offboard mode or to arm is sent before setpoints have
\* been streamed for prestream_sec, whatever was restarted in between
\* (uav1_fastlio_mission.py 327-340).
THEOREM StreamedFirst == Spec => []StreamedBeforeOffboard
  <1>1. MissionInv => StreamedBeforeOffboard
    <2>. SUFFICES ASSUME MissionInv, command_age < CommandPeriod
                  PROVE  stream_age = prestream_sec
      BY DEF StreamedBeforeOffboard
    <2>1. command_age # CommandPeriod
      BY MissionAssumption DEF MissionInv, TypeOK
    <2>. QED  BY <2>1 DEF MissionInv, StreamInv
  <1>. QED  BY <1>1, MissionInvariant, PTL

\* From the start of the stream on no setpoint moves faster than the mission
\* flies its UAV, whatever the rate of the timer, the rectangle, the heights
\* and the times of the phases (uav1_fastlio_mission.py 250-280, 328-375).
THEOREM SetpointsNeverJump == Spec => SpeedBound
  <1>1. MissionInv /\ [Next]_vars =>
          [phase # "WAIT_ODOMETRY" =>
             \A i \in ids : Distance(setpoint'[i], setpoint[i]) <= Speed(i) * period']_vars
    BY NextKeeps DEF Moved
  <1>. QED  BY <1>1, MissionInvariant, PTL DEF Spec, SpeedBound

\* A node that starts, also in flight, first asks every UAV to stay where it is
\* (uav1_fastlio_mission.py 316-329).
THEOREM StartsInPlace == Spec => RestartInPlace
  <1>1. MissionInv /\ [Next]_vars =>
          [phase = "WAIT_ODOMETRY" /\ phase' # "WAIT_ODOMETRY" =>
             \A i \in ids : setpoint'[i] = at[i]]_vars
    BY NextKeeps
  <1>. QED  BY <1>1, MissionInvariant, PTL DEF Spec, RestartInPlace
=============================================================================
