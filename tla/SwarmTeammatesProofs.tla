------------------------ MODULE SwarmTeammatesProofs ------------------------
(***************************************************************************)
(* Theorems about how the UAVs of a fleet find each other's frames: types   *)
(* and found_all_teammates for any fleet, and for any number of starts of a *)
(* pair that neither keeps an extrinsic of a frame that is gone.  (Of three *)
(* that is false: README, section 4.)                                       *)
(***************************************************************************)
EXTENDS SwarmTeammatesProps, Integers, FiniteSetTheorems, WellFoundedInduction, TLAPS

-----------------------------------------------------------------------------
(* The inductive invariants.                                                *)

\* An edge joins two UAVs.
IsEdge(e) == DOMAIN e \subseteq UAVs /\ Cardinality(DOMAIN e) = 2

\* No two edges join the same two.
Simple(E) == \A d, e \in E : DOMAIN d = DOMAIN e => d = e

Edges(E) == Simple(E) /\ \A e \in E : IsEdge(e)

\* The graphs and the messages under way hold edges, one per pair.
EdgesInv ==
  /\ simple_graph = [u \in UAVs |-> simple_graph[u]]
  /\ extrinsic_msg = [u \in UAVs |-> [v \in UAVs |-> extrinsic_msg[u][v]]]
  /\ \A u \in UAVs : Edges(simple_graph[u])
  /\ \A u, v \in UAVs : Edges(extrinsic_msg[u][v])

\* What is no graph has its type.
Types ==
  /\ swarmlio_start \in [UAVs -> Start]
  /\ pc \in [UAVs -> {"reset", "solve", "track"}]
  /\ teammate_start \in [UAVs -> [UAVs -> Start \union {Unknown}]]
  /\ settled \in [UAVs -> SUBSET UAVs]
  /\ reconnected_id \in [UAVs -> SUBSET UAVs]
  /\ global_extrinsic \in [UAVs -> [UAVs -> Start \union {None, Wrong}]]
  /\ last_connected_nodes \in [UAVs -> SUBSET UAVs]
  /\ found_all_teammates \in [UAVs -> BOOLEAN]
  /\ matched \in [UAVs -> SUBSET UAVs]

FleetInv == Types /\ EdgesInv /\ FoundAllTracked

\* u has dealt with the last start of v.
Current(u, v) == teammate_start[u][v] = swarmlio_start[v] /\ v \notin reconnected_id[u]

\* What u has heard of v: no start to come, and of a teammate unheard it holds
\* nothing; a teammate is settled only where it knows of this start of u.
HeardInv(u, v) ==
  /\ teammate_start[u][v] <= swarmlio_start[v]
  /\ teammate_start[u][v] = Unknown =>
       /\ v \notin settled[u] /\ v \notin reconnected_id[u]
       /\ simple_graph[u] = {} /\ global_extrinsic[u][v] = None
  /\ v \in settled[u] => Current(v, u) \/ teammate_start[v][u] = Unknown

\* Edges of u lead from its present frame, and, where it has dealt with the last
\* start of v, to that of v; so does its extrinsic.
FrameInv(u, v) ==
  /\ \A e \in simple_graph[u] :
       /\ e[u] = swarmlio_start[u] /\ e[v] \in Start
       /\ Current(u, v) => e[v] = swarmlio_start[v]
  /\ Current(u, v) => global_extrinsic[u][v] \in {None, swarmlio_start[v]}

\* What v sent to u leads from its present frame and, once u listens, to the
\* present one of u.
SentInv(u, v) ==
  \A e \in extrinsic_msg[u][v] :
    /\ e[v] = swarmlio_start[v]
    /\ v \in settled[u] => e[u] = swarmlio_start[u]

PairOf(u, v) ==
  /\ HeardInv(u, v) /\ FrameInv(u, v) /\ SentInv(u, v)
  /\ extrinsic_msg[u][u] = {}

PairInv == \A u, v \in UAVs : u # v => PairOf(u, v)

-----------------------------------------------------------------------------
(* Iteration, and what is within reach.                                     *)

\* Every set of numbers has a least one.
LEMMA LeastNumber ==
  ASSUME NEW S \in SUBSET Nat, S # {}
  PROVE  \E least \in S : \A k \in S : least <= k
  <1>1. PICK least \in S : ~ \E k \in S : <<k, least>> \in OpToRel(<, Nat)
    BY WFMin, NatLessThanWellFounded
  <1>2. ASSUME NEW k \in S PROVE least <= k
    <2>1. <<k, least>> \notin OpToRel(<, Nat)  BY <1>1
    <2>. QED  BY <2>1 DEF OpToRel
  <1>. QED  BY <1>2

\* f is G, iterated from x up to n times.
Iterates(f, n, x, G) == f = [i \in 0 .. n |-> IF i = 0 THEN x ELSE G[f[i - 1]]]

\* A function can be iterated.
LEMMA IterationExists ==
  ASSUME NEW n \in Nat, NEW D, NEW x \in D, NEW G \in [D -> D]
  PROVE  \E f \in [0 .. n -> D] : Iterates(f, n, x, G)
  <1>. DEFINE Bad == {k \in 0 .. n : ~ \E f \in [0 .. k -> D] : Iterates(f, k, x, G)}
  <1>1. SUFFICES ASSUME Bad # {} PROVE FALSE  OBVIOUS
  <1>2. PICK k \in Bad : \A j \in Bad : k <= j
    <2>1. Bad \in SUBSET Nat  OBVIOUS
    <2>. HIDE DEF Bad
    <2>. QED  BY <1>1, <2>1, LeastNumber
  <1>3. CASE k = 0
    <2>1. Iterates([i \in 0 .. 0 |-> x], 0, x, G)  BY DEF Iterates
    <2>2. [i \in 0 .. 0 |-> x] \in [0 .. 0 -> D]  OBVIOUS
    <2>. QED  BY <1>2, <1>3, <2>1, <2>2
  <1>4. CASE k # 0
    <2>1. PICK j : j = k - 1  OBVIOUS
    <2>2. j \in Nat /\ j \in 0 .. n /\ k = j + 1 /\ k \in 0 .. n /\ ~ k <= j
      BY <1>4, <2>1
    <2>3. j \notin Bad  BY <1>2, <2>2
    <2>4. PICK f \in [0 .. j -> D] : Iterates(f, j, x, G)  BY <2>2, <2>3
    <2>5. \A i \in 0 .. j : f[i] = IF i = 0 THEN x ELSE G[f[i - 1]]
      BY <2>4 DEF Iterates
    <2>. DEFINE g == [i \in 0 .. k |-> IF i = k THEN G[f[j]] ELSE f[i]]
    <2>6. g \in [0 .. k -> D]
      <3>1. f[j] \in D  BY <2>2, <2>4
      <3>2. G[f[j]] \in D  BY <3>1
      <3>3. \A i \in 0 .. k : i # k => i \in 0 .. j  BY <2>2
      <3>. QED  BY <2>4, <3>2, <3>3
    <2>7. ASSUME NEW i \in 0 .. k PROVE g[i] = IF i = 0 THEN x ELSE G[g[i - 1]]
      <3>1. CASE i = k
        <4>1. i - 1 = j /\ j \in 0 .. k /\ j # k /\ i # 0  BY <2>2, <3>1
        <4>2. g[i - 1] = f[j]  BY <4>1
        <4>. QED  BY <3>1, <4>1, <4>2
      <3>2. CASE i # k
        <4>1. i \in 0 .. j /\ g[i] = f[i]  BY <2>2, <3>2
        <4>2. CASE i = 0  BY <2>5, <4>1, <4>2
        <4>3. CASE i # 0
          <5>1. i - 1 \in 0 .. k /\ i - 1 # k  BY <2>2, <4>1, <4>3
          <5>2. g[i - 1] = f[i - 1]  BY <5>1
          <5>. QED  BY <2>5, <4>1, <4>3, <5>2
        <4>. QED  BY <4>2, <4>3
      <3>. QED  BY <3>1, <3>2
    <2>8. Iterates(g, k, x, G)
      <3>. HIDE DEF g
      <3>1. g = [i \in 0 .. k |-> g[i]]  BY <2>6
      <3>. QED  BY <2>7, <3>1 DEF Iterates
    <2>9. \E h \in [0 .. k -> D] : Iterates(h, k, x, G)
      <3>. HIDE DEF g
      <3>. QED  BY <2>6, <2>8
    <2>. QED  BY <1>2, <2>9
  <1>. QED  BY <1>3, <1>4

\* One step along the edges.
Next1(E, R) == R \union UNION {DOMAIN e : e \in {d \in E : DOMAIN d \intersect R # {}}}

\* f holds what is within reach in 0, 1, ... steps.
Reaches(f, E, u) ==
  f = [n \in 0 .. Cardinality(UAVs) |-> IF n = 0 THEN {u} ELSE Next1(E, f[n - 1])]

LEMMA ConnectedReaches ==
  ASSUME NEW E, \A e \in E : DOMAIN e \subseteq UAVs, NEW u \in UAVs
  PROVE  \E f : /\ Reaches(f, E, u)
                /\ Connected(E, u) = f[Cardinality(UAVs)]
                /\ \A n \in 0 .. Cardinality(UAVs) : f[n] \subseteq UAVs
  <1>1. PICK N : N = Cardinality(UAVs)  OBVIOUS
  <1>2. N \in Nat  BY <1>1, FleetAssumption, FS_CardinalityType
  <1>3. ASSUME NEW R \in SUBSET UAVs PROVE Next1(E, R) \in SUBSET UAVs
    BY DEF Next1
  <1>4. PICK G : G = [R \in SUBSET UAVs |-> Next1(E, R)]  OBVIOUS
  <1>5. G \in [SUBSET UAVs -> SUBSET UAVs]  BY <1>3, <1>4
  <1>6. {u} \in SUBSET UAVs  OBVIOUS
  <1>7. PICK h \in [0 .. N -> SUBSET UAVs] : Iterates(h, N, {u}, G)
    BY <1>2, <1>5, <1>6, IterationExists
  <1>8. Reaches(h, E, u)
    <2>1. ASSUME NEW i \in 0 .. N, i # 0 PROVE G[h[i - 1]] = Next1(E, h[i - 1])
      <3>1. i - 1 \in 0 .. N  BY <1>2, <2>1
      <3>2. h[i - 1] \in SUBSET UAVs  BY <3>1
      <3>. QED  BY <1>4, <3>2
    <2>2. h = [i \in 0 .. N |-> IF i = 0 THEN {u} ELSE G[h[i - 1]]]
      BY <1>7 DEF Iterates
    <2>3. [i \in 0 .. N |-> IF i = 0 THEN {u} ELSE G[h[i - 1]]]
            = [i \in 0 .. N |-> IF i = 0 THEN {u} ELSE Next1(E, h[i - 1])]
      BY <2>1
    <2>. QED  BY <1>1, <2>2, <2>3 DEF Reaches
  <1>9. PICK f : f = CHOOSE g : Reaches(g, E, u)  OBVIOUS
  <1>10. Reaches(f, E, u)  BY <1>8, <1>9
  <1>11. Connected(E, u) = f[Cardinality(UAVs)]
    BY <1>9, Zenon DEF Connected, Reaches, Next1
  <1>. DEFINE Bad == {n \in 0 .. N : ~ f[n] \subseteq UAVs}
  <1>12. \A n \in 0 .. N : f[n] = IF n = 0 THEN {u} ELSE Next1(E, f[n - 1])
    BY <1>1, <1>10 DEF Reaches
  <1>13. ASSUME Bad # {} PROVE FALSE
    <2>1. PICK k \in Bad : \A j \in Bad : k <= j
      <3>1. Bad \in SUBSET Nat  OBVIOUS
      <3>. HIDE DEF Bad
      <3>. QED  BY <1>13, <3>1, LeastNumber
    <2>2. k \in 0 .. N /\ ~ f[k] \subseteq UAVs  BY <2>1
    <2>3. k # 0  BY <1>12, <2>2
    <2>4. k - 1 \in 0 .. N /\ ~ k <= k - 1  BY <1>2, <2>2, <2>3
    <2>5. k - 1 \notin Bad  BY <2>1, <2>4
    <2>6. f[k - 1] \in SUBSET UAVs  BY <2>4, <2>5
    <2>7. f[k] = Next1(E, f[k - 1])  BY <1>12, <2>2, <2>3
    <2>. QED  BY <1>3, <2>2, <2>6, <2>7
  <1>. QED  BY <1>1, <1>10, <1>11, <1>13

\* What is connected is of the fleet.
LEMMA ConnectedWithin ==
  ASSUME NEW E, \A e \in E : DOMAIN e \subseteq UAVs, NEW u \in UAVs
  PROVE  Connected(E, u) \subseteq UAVs
  <1>1. Cardinality(UAVs) \in Nat  BY FleetAssumption, FS_CardinalityType
  <1>2. Cardinality(UAVs) \in 0 .. Cardinality(UAVs)  BY <1>1
  <1>. QED  BY <1>2, ConnectedReaches

-----------------------------------------------------------------------------
(* The edges: what builds them and what a graph does with them.             *)

\* What Edge gives.
LEMMA EdgeProperties ==
  ASSUME NEW u, NEW r, NEW v, NEW s, u # v
  PROVE  /\ DOMAIN Edge(u, r, v, s) = {u, v}
         /\ Edge(u, r, v, s)[u] = r
         /\ Edge(u, r, v, s)[v] = s
  BY DEF Edge

\* An edge of two UAVs is one.
LEMMA EdgeIsEdge ==
  ASSUME NEW u \in UAVs, NEW v \in UAVs, u # v, NEW r, NEW s
  PROVE  IsEdge(Edge(u, r, v, s))
  <1>1. IsFiniteSet({u}) /\ Cardinality({u}) = 1  BY FS_Singleton
  <1>2. Cardinality({u} \union {v}) = 2  BY <1>1, FS_AddElement
  <1>3. {u, v} = {u} \union {v}  OBVIOUS
  <1>4. DOMAIN Edge(u, r, v, s) = {u, v}  BY Zenon DEF Edge
  <1>5. {u, v} \subseteq UAVs  OBVIOUS
  <1>. QED  BY <1>2, <1>3, <1>4, <1>5, Zenon DEF IsEdge

\* Edges from one UAV to some of the others.
Star(u, r, f, S) == {Edge(u, r, v, f[v]) : v \in S}

LEMMA StarOfEdges ==
  ASSUME NEW u \in UAVs, NEW r, NEW f, NEW S \in SUBSET (UAVs \ {u})
  PROVE  Edges(Star(u, r, f, S))
  <1>1. ASSUME NEW v \in S
        PROVE  IsEdge(Edge(u, r, v, f[v])) /\ DOMAIN Edge(u, r, v, f[v]) = {u, v}
    <2>1. v \in UAVs /\ u # v  OBVIOUS
    <2>2. PICK s : s = f[v]  OBVIOUS
    <2>3. IsEdge(Edge(u, r, v, s))  BY <2>1, EdgeIsEdge
    <2>4. DOMAIN Edge(u, r, v, s) = {u, v}  BY <2>1, EdgeProperties
    <2>. QED  BY <2>2, <2>3, <2>4
  <1>2. ASSUME NEW v \in S, NEW w \in S,
               DOMAIN Edge(u, r, v, f[v]) = DOMAIN Edge(u, r, w, f[w])
        PROVE  v = w
    <2>1. {u, v} = {u, w}  BY <1>1, <1>2
    <2>2. v # u  OBVIOUS
    <2>. QED  BY <2>1, <2>2
  <1>3. Simple(Star(u, r, f, S))  BY <1>2, Zenon DEF Simple, Star
  <1>. QED  BY <1>1, <1>3, Zenon DEF Edges, Star

\* Edges added to a graph leave it one.
LEMMA AddEdgesKeeps ==
  ASSUME NEW E, NEW new, Edges(E), Edges(new)
  PROVE  Edges(AddEdges(E, new))
  BY DEF AddEdges, Edges, Simple

\* So does the removal of nodes.
LEMMA RemoveNodesKeeps ==
  ASSUME NEW E, NEW gone, Edges(E)
  PROVE  Edges(RemoveNodes(E, gone))
  BY DEF RemoveNodes, Edges, Simple

-----------------------------------------------------------------------------
(* Any fleet: types, and found_all_teammates.                               *)

LEMMA FleetIsTyped == FleetInv => TypeOK
  BY Zenon DEF FleetInv, Types, EdgesInv, Edges, IsEdge, Simple, TypeOK

LEMMA EdgesKept ==
  ASSUME EdgesInv, UNCHANGED <<simple_graph, extrinsic_msg>>
  PROVE  EdgesInv'
  BY Zenon DEF EdgesInv

LEMMA FoundKept ==
  ASSUME FoundAllTracked, UNCHANGED <<global_extrinsic, found_all_teammates>>
  PROVE  FoundAllTracked'
  BY Zenon DEF FoundAllTracked, Tracked

LEMMA NoEdges == Edges({})
  BY DEF Edges, Simple

LEMMA FleetInit == Init => FleetInv
  <1>. SUFFICES ASSUME Init PROVE FleetInv  OBVIOUS
  <1>0. MaxStart \in Nat \ {0}  BY FleetAssumption
  <1>1. Types
    BY <1>0 DEF Init, Types, Start, Unknown, None
  <1>2. EdgesInv  BY NoEdges DEF Init, EdgesInv
  <1>3. FoundAllTracked  BY DEF Init, FoundAllTracked
  <1>. QED  BY <1>1, <1>2, <1>3 DEF FleetInv

LEMMA FleetQuadstate ==
  ASSUME FleetInv, NEW u \in UAVs, NEW v \in UAVs, QuadstateCbk(u, v)
  PROVE  FleetInv'
  <1>1. Types'  BY DEF FleetInv, Types, QuadstateCbk, frames, graph
  <1>2. EdgesInv'  BY EdgesKept DEF FleetInv, QuadstateCbk, graph
  <1>3. FoundAllTracked'  BY FoundKept DEF FleetInv, QuadstateCbk, frames
  <1>. QED  BY <1>1, <1>2, <1>3 DEF FleetInv

LEMMA FleetSettle ==
  ASSUME FleetInv, NEW u \in UAVs, NEW v \in UAVs, Settle(u, v)
  PROVE  FleetInv'
  <1>1. Types'  BY DEF FleetInv, Types, Settle, frames, graph, Known, Teammates
  <1>2. EdgesInv'  BY NoEdges DEF FleetInv, EdgesInv, Settle, graph
  <1>3. FoundAllTracked'  BY FoundKept DEF FleetInv, Settle, frames
  <1>. QED  BY <1>1, <1>2, <1>3 DEF FleetInv

LEMMA FleetGlobalExtrinsic ==
  ASSUME FleetInv, NEW u \in UAVs, NEW v \in UAVs, GlobalExtrinsicCbk(u, v)
  PROVE  FleetInv'
  <1>1. Types'  BY DEF FleetInv, Types, GlobalExtrinsicCbk, frames, heard
  <1>2. EdgesInv'
    <2>1. Edges(AddEdges(simple_graph[u], extrinsic_msg[u][v]))
      BY AddEdgesKeeps DEF FleetInv, EdgesInv
    <2>. QED  BY <2>1, NoEdges DEF FleetInv, EdgesInv, GlobalExtrinsicCbk
  <1>3. FoundAllTracked'  BY FoundKept DEF FleetInv, GlobalExtrinsicCbk, frames
  <1>. QED  BY <1>1, <1>2, <1>3 DEF FleetInv

LEMMA FleetReset ==
  ASSUME FleetInv, NEW u \in UAVs, ResetReconnectedGlobalExtrinsic(u)
  PROVE  FleetInv'
  <1>1. Types'
    BY DEF FleetInv, Types, ResetReconnectedGlobalExtrinsic, StillFound
  <1>2. EdgesInv'
    <2>1. Edges(RemoveNodes(simple_graph[u], reconnected_id[u]))
      BY RemoveNodesKeeps DEF FleetInv, EdgesInv
    <2>. QED  BY <2>1 DEF FleetInv, EdgesInv, ResetReconnectedGlobalExtrinsic
  <1>3. FoundAllTracked'
    BY DEF FleetInv, Types, FoundAllTracked, Tracked, Teammates,
           ResetReconnectedGlobalExtrinsic, StillFound
  <1>. QED  BY <1>1, <1>2, <1>3 DEF FleetInv

\* Claims agree on a frame, or on none.
LEMMA AgreedInRange ==
  ASSUME NEW claims
  PROVE  Agreed(claims) \in Start \union {Wrong}
  <1>1. CASE \E s \in Start : claims = {s}
    <2>1. PICK t : t = CHOOSE s \in Start : claims = {s}  OBVIOUS
    <2>2. t \in Start  BY <1>1, <2>1, Zenon
    <2>3. Agreed(claims) = t  BY <1>1, <2>1, Zenon DEF Agreed
    <2>. QED  BY <2>2, <2>3
  <1>2. CASE ~ \E s \in Start : claims = {s}
    BY <1>2, Zenon DEF Agreed
  <1>. QED  BY <1>1, <1>2

LEMMA SolvedInRange ==
  ASSUME NEW E, NEW u, NEW v \in UAVs
  PROVE  Solved(E, u)[v] \in Start \union {Wrong}
  BY AgreedInRange DEF Solved

LEMMA FleetSolve ==
  ASSUME FleetInv, NEW u \in UAVs, Solve(u)
  PROVE  FleetInv'
  <1>. DEFINE nodes == Connected(simple_graph[u], u)
              solved == Solved(simple_graph[u], u)
              found == [v \in UAVs |-> IF v \in nodes \intersect Known(u)
                                            /\ global_extrinsic[u][v] = None
                                       THEN solved[v] ELSE global_extrinsic[u][v]]
  <1>1. nodes \subseteq UAVs
    BY ConnectedWithin DEF FleetInv, EdgesInv, Edges, IsEdge
  <1>2. \A v \in UAVs : solved[v] \in Start \union {Wrong}  BY SolvedInRange
  <1>3. \A v \in UAVs : found[v] \in Start \union {None, Wrong}
    BY <1>2 DEF FleetInv, Types
  <1>4. \A v \in UAVs : global_extrinsic[u][v] # None => found[v] # None
    OBVIOUS
  <1>5. \/ /\ last_connected_nodes' = [last_connected_nodes EXCEPT ![u] = nodes]
           /\ global_extrinsic' = [global_extrinsic EXCEPT ![u] = found]
        \/ UNCHANGED <<last_connected_nodes, global_extrinsic>>
    BY Zenon DEF Solve
  <1>. HIDE DEF nodes, solved, found
  <1>6. Types'
    <2>1. found \in [UAVs -> Start \union {None, Wrong}]  BY <1>3 DEF found
    <2>2. /\ pc' = [pc EXCEPT ![u] = "track"]
          /\ UNCHANGED <<swarmlio_start, heard, found_all_teammates, matched>>
      BY Zenon DEF Solve
    <2>3. CASE UNCHANGED <<last_connected_nodes, global_extrinsic>>
      BY <2>2, <2>3 DEF FleetInv, Types, heard
    <2>4. CASE /\ last_connected_nodes' = [last_connected_nodes EXCEPT ![u] = nodes]
               /\ global_extrinsic' = [global_extrinsic EXCEPT ![u] = found]
      BY <1>1, <2>1, <2>2, <2>4 DEF FleetInv, Types, heard
    <2>. QED  BY <1>5, <2>3, <2>4
  <1>7. EdgesInv'  BY EdgesKept DEF FleetInv, Solve
  <1>8. FoundAllTracked'
    <2>1. UNCHANGED found_all_teammates  BY Zenon DEF Solve
    <2>2. ASSUME NEW w \in UAVs, NEW v \in UAVs, global_extrinsic[w][v] # None
          PROVE  global_extrinsic'[w][v] # None
      BY <1>4, <1>5, <2>2 DEF FleetInv, Types
    <2>. QED
      BY <2>1, <2>2 DEF FleetInv, FoundAllTracked, Tracked, Teammates
  <1>. QED  BY <1>6, <1>7, <1>8 DEF FleetInv

LEMMA FleetTrack ==
  ASSUME FleetInv, NEW u \in UAVs, NEW new \in SUBSET Matchable(u),
         NEW publish \in BOOLEAN, Track(u, new, publish)
  PROVE  FleetInv'
  <1>. DEFINE extrinsic == [v \in UAVs |-> IF v \in new THEN teammate_start[u][v]
                                           ELSE global_extrinsic[u][v]]
              ids == matched[u] \union new
              star == {Edge(u, swarmlio_start[u], v, extrinsic[v]) : v \in new}
  <1>1. new \subseteq Known(u) /\ Known(u) \subseteq UAVs \ {u}
    BY DEF Matchable, Known, Teammates
  <1>2. /\ global_extrinsic' = [global_extrinsic EXCEPT ![u] = extrinsic]
        /\ found_all_teammates' = [found_all_teammates EXCEPT ![u] =
             @ \/ \A v \in Teammates(u) : extrinsic[v] # None]
        /\ matched' = [matched EXCEPT ![u] = ids]
        /\ simple_graph' = [simple_graph EXCEPT ![u] = AddEdges(@, star)]
        /\ extrinsic_msg' = [w \in UAVs |-> [extrinsic_msg[w] EXCEPT ![u] =
             IF publish /\ w # u THEN Extrinsics(u, extrinsic, ids) ELSE @]]
    BY Zenon DEF Track
  <1>3. \A v \in new : teammate_start[u][v] \in Start
    BY <1>1 DEF FleetInv, Types, Known, Unknown, Start
  <1>4. extrinsic \in [UAVs -> Start \union {None, Wrong}]
    BY <1>3 DEF FleetInv, Types
  <1>5. \A v \in UAVs : global_extrinsic[u][v] # None => extrinsic[v] # None
    BY <1>3 DEF None, Start
  <1>6. Edges(star)
    <2>1. PICK r : r = swarmlio_start[u]  OBVIOUS
    <2>2. PICK f : f = extrinsic  OBVIOUS
    <2>3. new \in SUBSET (UAVs \ {u})  BY <1>1
    <2>4. Edges(Star(u, r, f, new))  BY <2>3, StarOfEdges
    <2>5. star = Star(u, r, f, new)  BY <2>1, <2>2, Zenon DEF Star
    <2>. QED  BY <2>4, <2>5
  <1>7. Edges(Extrinsics(u, extrinsic, ids))
    <2>. HIDE DEF extrinsic, ids
    <2>. DEFINE told == {w \in Known(u) \intersect ids : extrinsic[w] # None}
    <2>1. told \in SUBSET (UAVs \ {u})  BY <1>1
    <2>2. Extrinsics(u, extrinsic, ids) = Star(u, swarmlio_start[u], extrinsic, told)
      BY Zenon DEF Extrinsics, Star
    <2>. HIDE DEF told
    <2>. QED  BY <2>1, <2>2, StarOfEdges
  <1>8. ids \in SUBSET UAVs  BY <1>1 DEF FleetInv, Types
  <1>. HIDE DEF extrinsic, ids, star
  <1>9. Types'
    <2>1. pc' = [pc EXCEPT ![u] = "reset"] /\ UNCHANGED <<swarmlio_start, heard, last_connected_nodes>>
      BY DEF Track
    <2>2. \A b \in BOOLEAN : found_all_teammates' = [found_all_teammates EXCEPT ![u] = b]
             => found_all_teammates' \in [UAVs -> BOOLEAN]
      BY DEF FleetInv, Types
    <2>3. found_all_teammates' \in [UAVs -> BOOLEAN]  BY <1>2 DEF FleetInv, Types
    <2>. QED  BY <1>2, <1>4, <1>8, <2>1, <2>3 DEF FleetInv, Types, heard
  <1>10. EdgesInv'
    <2>1. Edges(AddEdges(simple_graph[u], star))
      BY <1>6, AddEdgesKeeps DEF FleetInv, EdgesInv
    <2>2. \A w \in UAVs : Edges(simple_graph'[w])
      BY <1>2, <2>1 DEF FleetInv, EdgesInv
    <2>3. \A w, v \in UAVs : Edges(extrinsic_msg'[w][v])
      BY <1>2, <1>7 DEF FleetInv, EdgesInv
    <2>4. simple_graph' = [w \in UAVs |-> simple_graph'[w]]
      BY <1>2 DEF FleetInv, EdgesInv
    <2>5. extrinsic_msg' = [w \in UAVs |-> [v \in UAVs |-> extrinsic_msg'[w][v]]]
      BY <1>2 DEF FleetInv, EdgesInv
    <2>. QED  BY <2>2, <2>3, <2>4, <2>5 DEF EdgesInv
  <1>11. FoundAllTracked'
    <2>1. ASSUME NEW w \in UAVs, found_all_teammates'[w]
          PROVE  \A v \in Teammates(w) : global_extrinsic'[w][v] # None
      <3>1. CASE w # u
        BY <1>2, <2>1, <3>1 DEF FleetInv, Types, FoundAllTracked, Tracked
      <3>2. CASE w = u
        <4>1. found_all_teammates[u] \/ \A v \in Teammates(u) : extrinsic[v] # None
          BY <1>2, <2>1, <3>2 DEF FleetInv, Types
        <4>2. global_extrinsic'[u] = extrinsic  BY <1>2 DEF FleetInv, Types
        <4>3. Teammates(u) \subseteq UAVs  BY DEF Teammates
        <4>. QED  BY <1>5, <3>2, <4>1, <4>2, <4>3 DEF FleetInv, FoundAllTracked, Tracked
      <3>. QED  BY <3>1, <3>2
    <2>. QED  BY <2>1 DEF FoundAllTracked, Tracked
  <1>. QED  BY <1>9, <1>10, <1>11 DEF FleetInv

LEMMA FleetRestart ==
  ASSUME FleetInv, NEW u \in UAVs, Restart(u)
  PROVE  FleetInv'
  <1>1. Types'
    <2>1. MaxStart \in Nat \ {0}  BY FleetAssumption
    <2>. QED  BY <2>1 DEF FleetInv, Types, Restart, Start, Unknown, None
  <1>2. EdgesInv'  BY NoEdges DEF FleetInv, EdgesInv, Restart
  <1>3. FoundAllTracked'
    BY DEF FleetInv, Types, FoundAllTracked, Tracked, Teammates, Restart
  <1>. QED  BY <1>1, <1>2, <1>3 DEF FleetInv

LEMMA FleetStep == FleetInv /\ [Next]_vars => FleetInv'
  <1>. SUFFICES ASSUME FleetInv, [Next]_vars PROVE FleetInv'  OBVIOUS
  <1>1. ASSUME NEW u \in UAVs, Scan(u) PROVE FleetInv'
    BY <1>1, FleetReset, FleetSolve, FleetTrack DEF Scan
  <1>2. ASSUME NEW u \in UAVs, Restart(u) PROVE FleetInv'
    BY <1>2, FleetRestart
  <1>3. ASSUME NEW u \in UAVs, NEW v \in UAVs,
               QuadstateCbk(u, v) \/ Settle(u, v) \/ GlobalExtrinsicCbk(u, v)
        PROVE  FleetInv'
    BY <1>3, FleetQuadstate, FleetSettle, FleetGlobalExtrinsic
  <1>4. CASE UNCHANGED vars
    <2>1. Types'
      BY <1>4 DEF FleetInv, Types, vars, heard, graph, frames
    <2>2. EdgesInv'  BY <1>4, EdgesKept DEF FleetInv, vars, graph
    <2>3. FoundAllTracked'  BY <1>4, FoundKept DEF FleetInv, vars, frames
    <2>. QED  BY <2>1, <2>2, <2>3 DEF FleetInv
  <1>. QED  BY <1>1, <1>2, <1>3, <1>4 DEF Next

\* The state of any fleet keeps its type, its graphs at most one edge between
\* any two UAVs.
THEOREM FleetTypeCorrect == Spec => []TypeOK
  BY FleetInit, FleetStep, FleetIsTyped, PTL DEF Spec

\* In any fleet a UAV that closes itself to the extrinsics of others tracks
\* every teammate.
THEOREM FoundTracksAll == Spec => []FoundAllTracked
  <1>1. FleetInv => FoundAllTracked  BY DEF FleetInv
  <1>. QED  BY <1>1, FleetInit, FleetStep, PTL DEF Spec

-----------------------------------------------------------------------------
(* A pair.                                                                  *)

\* u and v are all there are.
Both(u, v) == u # v /\ UAVs = {u, v}

\* Every edge joins the two.
LEMMA PairEdge ==
  ASSUME NEW u, NEW v, Both(u, v), NEW e, IsEdge(e)
  PROVE  DOMAIN e = UAVs
  <1>1. IsFiniteSet({u}) /\ Cardinality({u}) = 1  BY FS_Singleton
  <1>2. v \notin {u} /\ UAVs = {u} \union {v}  BY DEF Both
  <1>3. IsFiniteSet(UAVs) /\ Cardinality(UAVs) = 2  BY <1>1, <1>2, FS_AddElement
  <1>. QED  BY <1>3, FS_Subset DEF IsEdge

LEMMA PairCardinality ==
  ASSUME NEW u, NEW v, Both(u, v)
  PROVE  Cardinality(UAVs) = 2
  <1>1. IsFiniteSet({u}) /\ Cardinality({u}) = 1  BY FS_Singleton
  <1>2. v \notin {u} /\ UAVs = {u} \union {v}  BY DEF Both
  <1>. QED  BY <1>1, <1>2, FS_AddElement

\* Without edges a UAV is connected to none.
LEMMA PairAlone ==
  ASSUME NEW u, NEW v, Both(u, v)
  PROVE  Connected({}, u) = {u}
  <1>1. u \in UAVs  BY DEF Both
  <1>2. PICK f : /\ Reaches(f, {}, u)
                 /\ Connected({}, u) = f[Cardinality(UAVs)]
    BY <1>1, ConnectedReaches
  <1>3. f = [n \in 0 .. 2 |-> IF n = 0 THEN {u} ELSE Next1({}, f[n - 1])]
    BY <1>2, PairCardinality DEF Reaches
  <1>4. \A R : Next1({}, R) = R  BY DEF Next1
  <1>5. f[0] = {u}  BY <1>3
  <1>6. f[1] = Next1({}, f[0])  BY <1>3
  <1>7. f[2] = Next1({}, f[1])  BY <1>3
  <1>. QED  BY <1>2, <1>4, <1>5, <1>6, <1>7, PairCardinality

\* f holds what the edges, followed from u in 0, 1, ... steps, say.
Step1(E, S) == S \union UNION {UNION {Says(e, v, S) : v \in DOMAIN e} : e \in E}
Tells(f, E, u) ==
  f = [n \in 0 .. Cardinality(UAVs) |->
         IF n = 0 THEN {<<u, swarmlio_start[u]>>} ELSE Step1(E, f[n - 1])]

\* An edge says where its other end is to who knows this one,
LEMMA SaysOther ==
  ASSUME NEW u, NEW v, Both(u, v), NEW e, DOMAIN e = UAVs, NEW S, NEW here,
         here = <<u, e[u]>>, here \in S, e[u] \in Start
  PROVE  Says(e, u, S) = {<<v, e[v]>>}
  <1>1. {x \in DOMAIN e \ {u} : \E s \in Start : <<u, s>> \in S} = {v}
    <2>1. \E s \in Start : <<u, s>> \in S  OBVIOUS
    <2>2. DOMAIN e \ {u} = {v}  BY DEF Both
    <2>. QED  BY <2>1, <2>2
  <1>2. Says(e, u, S) = {<<w, e[w]>> : w \in {v}}
    BY <1>1, Zenon DEF Says
  <1>. QED  BY <1>2, Zenon

\* and nothing to who does not.
LEMMA SaysNothing ==
  ASSUME NEW e, NEW v, NEW S, \A s \in Start : <<v, s>> \notin S
  PROVE  Says(e, v, S) = {}
  <1>1. {x \in DOMAIN e \ {v} : \E s \in Start : <<v, s>> \in S} = {}  OBVIOUS
  <1>. QED  BY <1>1, Zenon DEF Says

\* The edge between the two says where its far end is.
LEMMA PairSolved ==
  ASSUME NEW u, NEW v, Both(u, v), NEW e, DOMAIN e = UAVs,
         e[u] = swarmlio_start[u], e[u] \in Start, e[v] \in Start
  PROVE  Solved({e}, u)[v] = e[v]
  <1>1. PICK A : A = {<<u, e[u]>>}  OBVIOUS
  <1>2. PICK B : B = {<<u, e[u]>>, <<v, e[v]>>}  OBVIOUS
  <1>3. u # v /\ Both(v, u) /\ DOMAIN e = {u, v}  BY DEF Both
  <1>4. Says(e, u, A) = {<<v, e[v]>>}
    <2>1. PICK here : here = <<u, e[u]>>  OBVIOUS
    <2>2. here \in A  BY <1>1, <2>1
    <2>. QED  BY <2>1, <2>2, SaysOther
  <1>5. Says(e, v, A) = {}
    <2>1. \A s \in Start : <<v, s>> \notin A  BY <1>1, <1>3
    <2>. QED  BY <2>1, SaysNothing
  <1>6. Says(e, u, B) = {<<v, e[v]>>}
    <2>1. PICK here : here = <<u, e[u]>>  OBVIOUS
    <2>2. here \in B  BY <1>2, <2>1
    <2>. QED  BY <2>1, <2>2, SaysOther
  <1>7. Says(e, v, B) = {<<u, e[u]>>}
    <2>1. PICK here : here = <<v, e[v]>>  OBVIOUS
    <2>2. here \in B  BY <1>2, <2>1
    <2>. QED  BY <1>3, <2>1, <2>2, SaysOther
  <1>8. ASSUME NEW S
        PROVE  Step1({e}, S) = S \union (Says(e, u, S) \union Says(e, v, S))
    <2>1. UNION {Says(e, w, S) : w \in DOMAIN e} = Says(e, u, S) \union Says(e, v, S)
      BY <1>3
    <2>2. Step1({e}, S) = S \union UNION {Says(e, w, S) : w \in DOMAIN e}
      BY DEF Step1
    <2>. QED  BY <2>1, <2>2
  <1>9. Step1({e}, A) = B /\ Step1({e}, B) = B
    BY <1>1, <1>2, <1>4, <1>5, <1>6, <1>7, <1>8
  <1>10. Cardinality(UAVs) = 2  BY PairCardinality
  <1>11. PICK h : h = [n \in 0 .. 2 |-> IF n = 0 THEN A ELSE B]  OBVIOUS
  <1>12. Tells(h, {e}, u)
    <2>1. ASSUME NEW n \in 0 .. 2, n # 0 PROVE B = Step1({e}, h[n - 1])
      <3>1. n - 1 \in 0 .. 2  BY <2>1
      <3>2. h[n - 1] = A \/ h[n - 1] = B  BY <1>11, <3>1
      <3>. QED  BY <1>9, <3>2
    <2>2. h = [n \in 0 .. 2 |-> IF n = 0 THEN A ELSE Step1({e}, h[n - 1])]
      BY <1>11, <2>1
    <2>. QED  BY <1>1, <1>10, <2>2 DEF Tells
  <1>13. PICK f : f = CHOOSE g : Tells(g, {e}, u)  OBVIOUS
  <1>14. Tells(f, {e}, u)  BY <1>12, <1>13
  <1>15. f = [n \in 0 .. 2 |-> IF n = 0 THEN A ELSE Step1({e}, f[n - 1])]
    BY <1>1, <1>10, <1>14 DEF Tells
  <1>16. f[2] = B
    <2>1. f[0] = A  BY <1>15
    <2>2. f[1] = Step1({e}, f[0])  BY <1>15
    <2>3. f[2] = Step1({e}, f[1])  BY <1>15
    <2>. QED  BY <1>9, <2>1, <2>2, <2>3
  <1>17. Solved({e}, u) =
           [w \in UAVs |-> Agreed({s \in Start \union {Wrong} :
                                     <<w, s>> \in f[Cardinality(UAVs)]})]
    BY <1>13, Zenon DEF Solved, Tells, Step1
  <1>18. PICK C : C = {s \in Start \union {Wrong} : <<v, s>> \in B}  OBVIOUS
  <1>19. Solved({e}, u)[v] = Agreed(C)
    <2>1. v \in UAVs  BY DEF Both
    <2>. QED  BY <1>10, <1>16, <1>17, <1>18, <2>1, Zenon
  <1>20. C = {e[v]}  BY <1>2, <1>3, <1>18
  <1>21. Agreed({e[v]}) = e[v]
    <2>1. PICK t : t = CHOOSE s \in Start : {e[v]} = {s}  OBVIOUS
    <2>2. {e[v]} = {t}  BY <2>1
    <2>3. Agreed({e[v]}) = t  BY <2>1, Zenon DEF Agreed
    <2>. QED  BY <2>2, <2>3
  <1>. QED  BY <1>19, <1>20, <1>21

\* Two UAVs that are right about each other make a pair that is.
LEMMA PairMade ==
  ASSUME NEW u, NEW v, Both(u, v), PairOf(u, v)', PairOf(v, u)'
  PROVE  PairInv'
  <1>1. ASSUME NEW x \in UAVs, NEW y \in UAVs, x # y PROVE PairOf(x, y)'
    <2>1. \/ x = u /\ y = v
          \/ x = v /\ y = u
      BY <1>1 DEF Both
    <2>. QED  BY <2>1
  <1>. QED  BY <1>1 DEF PairInv

\* What the two know of each other.
LEMMA PairKnows ==
  ASSUME FleetInv, PairInv, NEW u, NEW v, Both(u, v)
  PROVE  /\ u \in UAVs /\ v \in UAVs /\ u # v
         /\ swarmlio_start[u] \in Start /\ swarmlio_start[v] \in Start
         /\ teammate_start[u][v] \in Start \union {Unknown}
         /\ teammate_start[v][u] \in Start \union {Unknown}
         /\ PairOf(u, v) /\ PairOf(v, u)
  BY DEF FleetInv, Types, PairInv, Both

LEMMA PairInit ==
  ASSUME NEW a, NEW b, Both(a, b), Init
  PROVE  PairInv
  <1>0. MaxStart \in Nat \ {0} /\ 0 # 1  BY FleetAssumption
  <1>1. ASSUME NEW u \in UAVs, NEW v \in UAVs, u # v
        PROVE  PairOf(u, v)
    <2>1. HeardInv(u, v)
      BY <1>0, <1>1 DEF Init, HeardInv, Current, Unknown, None
    <2>2. FrameInv(u, v)  BY <1>1 DEF Init, FrameInv, None
    <2>3. SentInv(u, v)  BY <1>1 DEF Init, SentInv
    <2>4. extrinsic_msg[u][u] = {}  BY DEF Init
    <2>. QED  BY <2>1, <2>2, <2>3, <2>4 DEF PairOf
  <1>. QED  BY <1>1 DEF PairInv

LEMMA PairQuadstate ==
  ASSUME FleetInv, PairInv, NEW u, NEW v, Both(u, v), QuadstateCbk(u, v)
  PROVE  PairInv'
  <1>1. /\ u \in UAVs /\ v \in UAVs /\ u # v
        /\ swarmlio_start[v] \in Start
        /\ PairOf(u, v) /\ PairOf(v, u)
    BY PairKnows
  <1>2. /\ teammate_start'[u][v] = swarmlio_start[v]
        /\ teammate_start'[v] = teammate_start[v]
        /\ UNCHANGED <<swarmlio_start, settled, simple_graph, global_extrinsic, extrinsic_msg>>
        /\ teammate_start[u][v] # swarmlio_start[v]
        /\ reconnected_id'[v] = reconnected_id[v]
        /\ IF teammate_start[u][v] = Unknown THEN UNCHANGED reconnected_id
                                             ELSE v \in reconnected_id'[u]
    BY <1>1 DEF QuadstateCbk, graph, frames, Restarted, Known, Teammates, FleetInv, Types
  <1>3. HeardInv(u, v)' /\ FrameInv(u, v)' /\ SentInv(u, v)'
    BY <1>1, <1>2 DEF PairOf, HeardInv, FrameInv, SentInv, Current, Start, Unknown
  <1>4. HeardInv(v, u)' /\ FrameInv(v, u)' /\ SentInv(v, u)'
    BY <1>1, <1>2 DEF PairOf, HeardInv, FrameInv, SentInv, Current, Start, Unknown
  <1>5. PairOf(u, v)' /\ PairOf(v, u)'  BY <1>1, <1>2, <1>3, <1>4 DEF PairOf
  <1>. QED  BY <1>5, PairMade

LEMMA PairSettle ==
  ASSUME FleetInv, PairInv, NEW u, NEW v, Both(u, v), Settle(u, v)
  PROVE  PairInv'
  <1>1. /\ u \in UAVs /\ v \in UAVs /\ u # v
        /\ PairOf(u, v) /\ PairOf(v, u)
    BY PairKnows
  <1>2. /\ settled'[v] = settled[v] /\ settled'[u] = settled[u] \union {v}
        /\ extrinsic_msg'[u][v] = {} /\ extrinsic_msg'[u][u] = extrinsic_msg[u][u]
        /\ extrinsic_msg'[v] = extrinsic_msg[v]
        /\ UNCHANGED <<swarmlio_start, teammate_start, reconnected_id, simple_graph,
                       global_extrinsic>>
        /\ Current(v, u) /\ teammate_start[u][v] # Unknown
    BY <1>1 DEF Settle, graph, frames, Known, FleetInv, Types, EdgesInv, Current
  <1>3. HeardInv(u, v)' /\ FrameInv(u, v)' /\ SentInv(u, v)'
    BY <1>1, <1>2 DEF PairOf, HeardInv, FrameInv, SentInv, Current
  <1>4. HeardInv(v, u)' /\ FrameInv(v, u)' /\ SentInv(v, u)'
    BY <1>1, <1>2 DEF PairOf, HeardInv, FrameInv, SentInv, Current
  <1>5. PairOf(u, v)' /\ PairOf(v, u)'  BY <1>1, <1>2, <1>3, <1>4 DEF PairOf
  <1>. QED  BY <1>5, PairMade

LEMMA PairGlobalExtrinsic ==
  ASSUME FleetInv, PairInv, NEW u, NEW v, Both(u, v), GlobalExtrinsicCbk(u, v)
  PROVE  PairInv'
  <1>1. /\ u \in UAVs /\ v \in UAVs /\ u # v
        /\ PairOf(u, v) /\ PairOf(v, u) /\ swarmlio_start[v] \in Start
    BY PairKnows
  <1>2. /\ extrinsic_msg'[u][v] = {} /\ extrinsic_msg'[u][u] = extrinsic_msg[u][u]
        /\ extrinsic_msg'[v] = extrinsic_msg[v]
        /\ UNCHANGED <<swarmlio_start, teammate_start, reconnected_id, settled,
                       global_extrinsic>>
        /\ simple_graph'[v] = simple_graph[v]
        /\ \/ simple_graph'[u] = simple_graph[u]
           \/ /\ simple_graph'[u] = AddEdges(simple_graph[u], extrinsic_msg[u][v])
              /\ v \in settled[u]
    BY <1>1 DEF GlobalExtrinsicCbk, heard, frames, FleetInv, Types, EdgesInv, Accepts
  <1>3. \A e \in simple_graph'[u] :
          e \in simple_graph[u] \/ (e \in extrinsic_msg[u][v] /\ v \in settled[u])
    BY <1>2 DEF AddEdges
  <1>4. HeardInv(u, v)' /\ FrameInv(u, v)' /\ SentInv(u, v)'
    <2>1. HeardInv(u, v)'
      BY <1>1, <1>2 DEF PairOf, HeardInv, Current
    <2>2. FrameInv(u, v)'
      BY <1>1, <1>2, <1>3 DEF PairOf, FrameInv, SentInv, Current
    <2>3. SentInv(u, v)'  BY <1>2 DEF SentInv
    <2>. QED  BY <2>1, <2>2, <2>3
  <1>5. HeardInv(v, u)' /\ FrameInv(v, u)' /\ SentInv(v, u)'
    BY <1>1, <1>2 DEF PairOf, HeardInv, FrameInv, SentInv, Current
  <1>6. PairOf(u, v)' /\ PairOf(v, u)'  BY <1>1, <1>2, <1>4, <1>5 DEF PairOf
  <1>. QED  BY <1>6, PairMade

LEMMA PairReset ==
  ASSUME FleetInv, PairInv, NEW u, NEW v, Both(u, v),
         ResetReconnectedGlobalExtrinsic(u)
  PROVE  PairInv'
  <1>1. /\ u \in UAVs /\ v \in UAVs /\ u # v
        /\ PairOf(u, v) /\ PairOf(v, u)
    BY PairKnows
  <1>2. /\ global_extrinsic'[u][v] = IF v \in reconnected_id[u] THEN None
                                     ELSE global_extrinsic[u][v]
        /\ global_extrinsic'[v] = global_extrinsic[v]
        /\ simple_graph'[u] = RemoveNodes(simple_graph[u], reconnected_id[u])
        /\ simple_graph'[v] = simple_graph[v]
        /\ reconnected_id'[u] = {} /\ reconnected_id'[v] = reconnected_id[v]
        /\ UNCHANGED <<swarmlio_start, teammate_start, settled, extrinsic_msg>>
    BY <1>1 DEF ResetReconnectedGlobalExtrinsic, FleetInv, Types, EdgesInv
  <1>3. \A e \in simple_graph'[u] : e \in simple_graph[u] /\ v \notin reconnected_id[u]
    <2>1. \A e \in simple_graph[u] : v \in DOMAIN e
      BY <1>1, PairEdge DEF FleetInv, EdgesInv, Edges
    <2>. QED  BY <1>2, <2>1 DEF RemoveNodes
  <1>4. HeardInv(u, v)' /\ FrameInv(u, v)' /\ SentInv(u, v)'
    <2>1. HeardInv(u, v)'
      BY <1>1, <1>2, <1>3 DEF PairOf, HeardInv, Current
    <2>2. FrameInv(u, v)'
      BY <1>1, <1>2, <1>3 DEF PairOf, FrameInv, Current
    <2>3. SentInv(u, v)'  BY <1>1, <1>2 DEF PairOf, SentInv
    <2>. QED  BY <2>1, <2>2, <2>3
  <1>5. HeardInv(v, u)' /\ FrameInv(v, u)' /\ SentInv(v, u)'
    BY <1>1, <1>2 DEF PairOf, HeardInv, FrameInv, SentInv, Current
  <1>6. PairOf(u, v)' /\ PairOf(v, u)'  BY <1>1, <1>2, <1>4, <1>5 DEF PairOf
  <1>. QED  BY <1>6, PairMade

LEMMA PairSolve ==
  ASSUME FleetInv, PairInv, NEW u, NEW v, Both(u, v), Solve(u)
  PROVE  PairInv'
  <1>1. /\ u \in UAVs /\ v \in UAVs /\ u # v
        /\ PairOf(u, v) /\ PairOf(v, u)
        /\ swarmlio_start[u] \in Start /\ swarmlio_start[v] \in Start
    BY PairKnows
  <1>2. /\ UNCHANGED <<swarmlio_start, heard, simple_graph, extrinsic_msg>>
        /\ \/ UNCHANGED global_extrinsic
           \/ /\ Unsolved(u)
              /\ global_extrinsic' = [global_extrinsic EXCEPT ![u] =
                   [w \in UAVs |->
                      IF w \in Connected(simple_graph[u], u) \intersect Known(u) /\ @[w] = None
                      THEN Solved(simple_graph[u], u)[w] ELSE @[w]]]
    BY Zenon DEF Solve
  <1>3. UNCHANGED <<teammate_start, settled, reconnected_id>>  BY <1>2 DEF heard
  <1>4. Unsolved(u) => simple_graph[u] # {}
    BY PairAlone DEF Unsolved
  <1>5. global_extrinsic'[v] = global_extrinsic[v]
    BY <1>1, <1>2 DEF FleetInv, Types
  <1>6. \/ global_extrinsic'[u][v] = global_extrinsic[u][v]
        \/ /\ simple_graph[u] # {}
           /\ v \in Known(u)
           /\ global_extrinsic'[u][v] = Solved(simple_graph[u], u)[v]
    BY <1>1, <1>2, <1>4 DEF FleetInv, Types
  <1>7. ASSUME Current(u, v), simple_graph[u] # {}
        PROVE  Solved(simple_graph[u], u)[v] = swarmlio_start[v]
    <2>1. PICK e : e \in simple_graph[u]  BY <1>7
    <2>2. \A d \in simple_graph[u] : DOMAIN d = UAVs
      BY <1>1, PairEdge DEF FleetInv, EdgesInv, Edges
    <2>3. simple_graph[u] = {e}
      BY <1>1, <2>1, <2>2 DEF FleetInv, EdgesInv, Edges, Simple
    <2>4. e[u] = swarmlio_start[u] /\ e[v] = swarmlio_start[v]
      BY <1>1, <1>7, <2>1 DEF PairOf, FrameInv
    <2>5. Solved({e}, u)[v] = e[v]
      BY <1>1, <2>1, <2>2, <2>4, PairSolved
    <2>. QED  BY <2>3, <2>4, <2>5
  <1>8. HeardInv(u, v)' /\ FrameInv(u, v)' /\ SentInv(u, v)'
    <2>1. HeardInv(u, v)'
      BY <1>1, <1>2, <1>3, <1>6
         DEF PairOf, HeardInv, Current, Known
    <2>2. FrameInv(u, v)'
      BY <1>1, <1>2, <1>3, <1>6, <1>7 DEF PairOf, FrameInv, Current
    <2>3. SentInv(u, v)'  BY <1>1, <1>2, <1>3 DEF PairOf, SentInv
    <2>. QED  BY <2>1, <2>2, <2>3
  <1>9. HeardInv(v, u)' /\ FrameInv(v, u)' /\ SentInv(v, u)'
    BY <1>1, <1>2, <1>3, <1>5 DEF PairOf, HeardInv, FrameInv, SentInv, Current
  <1>10. PairOf(u, v)' /\ PairOf(v, u)'  BY <1>1, <1>2, <1>8, <1>9 DEF PairOf
  <1>. QED  BY <1>10, PairMade

LEMMA PairRestart ==
  ASSUME FleetInv, PairInv, NEW u, NEW v, Both(u, v), Restart(u)
  PROVE  PairInv'
  <1>1. /\ u \in UAVs /\ v \in UAVs /\ u # v
        /\ PairOf(u, v) /\ PairOf(v, u)
        /\ swarmlio_start[u] \in Nat /\ swarmlio_start[v] \in Nat
        /\ swarmlio_start[u] \in Start
        /\ teammate_start[v][u] \in Nat
    BY PairKnows DEF Start, Unknown
  <1>2. /\ swarmlio_start'[u] = swarmlio_start[u] + 1
        /\ swarmlio_start'[v] = swarmlio_start[v]
        /\ teammate_start'[u][v] = Unknown /\ teammate_start'[v] = teammate_start[v]
        /\ settled'[u] = {} /\ settled'[v] = settled[v]
        /\ reconnected_id'[u] = {} /\ reconnected_id'[v] = reconnected_id[v]
        /\ global_extrinsic'[u][v] = None /\ global_extrinsic'[v] = global_extrinsic[v]
        /\ simple_graph'[u] = {} /\ simple_graph'[v] = simple_graph[v]
        /\ extrinsic_msg'[u][u] = {} /\ extrinsic_msg'[u][v] = {}
        /\ extrinsic_msg'[v][u] = {} /\ extrinsic_msg'[v][v] = extrinsic_msg[v][v]
    BY <1>1 DEF Restart, FleetInv, Types, EdgesInv
  <1>3. HeardInv(u, v)' /\ FrameInv(u, v)' /\ SentInv(u, v)'
    BY <1>1, <1>2 DEF HeardInv, FrameInv, SentInv, Current, Unknown, None
  <1>4. HeardInv(v, u)'
    BY <1>1, <1>2 DEF PairOf, HeardInv, Current, Unknown
  <1>5. FrameInv(v, u)'
    BY <1>1, <1>2 DEF PairOf, HeardInv, FrameInv, Current
  <1>6. SentInv(v, u)'  BY <1>2 DEF SentInv
  <1>7. PairOf(u, v)' /\ PairOf(v, u)'
    BY <1>1, <1>2, <1>3, <1>4, <1>5, <1>6 DEF PairOf
  <1>. QED  BY <1>7, PairMade

LEMMA PairTrack ==
  ASSUME FleetInv, PairInv, NEW u, NEW v, Both(u, v),
         NEW new \in SUBSET Matchable(u), NEW publish \in BOOLEAN, Track(u, new, publish)
  PROVE  PairInv'
  <1>. DEFINE extrinsic == [w \in UAVs |-> IF w \in new THEN teammate_start[u][w]
                                           ELSE global_extrinsic[u][w]]
              ids == matched[u] \union new
              star == {Edge(u, swarmlio_start[u], w, extrinsic[w]) : w \in new}
  <1>1. /\ u \in UAVs /\ v \in UAVs /\ u # v
        /\ PairOf(u, v) /\ PairOf(v, u)
        /\ swarmlio_start[u] \in Start /\ swarmlio_start[v] \in Start
    BY PairKnows
  <1>2. /\ global_extrinsic' = [global_extrinsic EXCEPT ![u] = extrinsic]
        /\ simple_graph' = [simple_graph EXCEPT ![u] = AddEdges(@, star)]
        /\ extrinsic_msg' = [w \in UAVs |-> [extrinsic_msg[w] EXCEPT ![u] =
             IF publish /\ w # u THEN Extrinsics(u, extrinsic, ids) ELSE @]]
        /\ UNCHANGED <<swarmlio_start, heard>>
    BY Zenon DEF Track
  <1>3. UNCHANGED <<swarmlio_start, teammate_start, settled, reconnected_id>>
    BY <1>2 DEF heard
  <1>4. Known(u) \subseteq {v}  BY <1>1 DEF Known, Teammates, Both
  <1>5. new \subseteq {v}  BY <1>4 DEF Matchable
  <1>6. v \in new => Current(u, v) /\ teammate_start[u][v] # Unknown
    BY DEF Matchable, Known, Current
  <1>7. extrinsic[v] = IF v \in new THEN swarmlio_start[v] ELSE global_extrinsic[u][v]
    BY <1>1, <1>6 DEF Current
  <1>0. LET e == Edge(u, swarmlio_start[u], v, extrinsic[v])
        IN  e[u] = swarmlio_start[u] /\ e[v] = extrinsic[v]
    <2>1. PICK r, s : r = swarmlio_start[u] /\ s = extrinsic[v]  OBVIOUS
    <2>2. PICK e : e = Edge(u, r, v, s)  OBVIOUS
    <2>3. e[u] = r /\ e[v] = s  BY <1>1, <2>2 DEF Edge
    <2>. QED  BY <2>1, <2>2, <2>3, Zenon
  <1>8. \A e \in star : v \in new /\ e[u] = swarmlio_start[u] /\ e[v] = swarmlio_start[v]
    <2>1. \A e \in star : v \in new /\ e = Edge(u, swarmlio_start[u], v, extrinsic[v])
      BY <1>5
    <2>. QED  BY <1>0, <1>7, <2>1
  <1>9. \A e \in Extrinsics(u, extrinsic, ids) :
          /\ v \in Known(u) /\ extrinsic[v] # None
          /\ e[u] = swarmlio_start[u] /\ e[v] = extrinsic[v]
    <2>1. ASSUME NEW e \in Extrinsics(u, extrinsic, ids)
          PROVE  /\ v \in Known(u) /\ extrinsic[v] # None
                 /\ e = Edge(u, swarmlio_start[u], v, extrinsic[v])
      BY <1>4 DEF Extrinsics
    <2>. QED  BY <1>0, <2>1
  <1>. HIDE DEF extrinsic, ids, star
  <1>10. /\ global_extrinsic'[u][v] = extrinsic[v]
         /\ global_extrinsic'[v] = global_extrinsic[v]
    BY <1>1, <1>2 DEF FleetInv, Types
  <1>11. /\ simple_graph'[v] = simple_graph[v]
         /\ \A e \in simple_graph'[u] : e \in simple_graph[u] \/ e \in star
    BY <1>1, <1>2 DEF FleetInv, EdgesInv, AddEdges
  <1>12. /\ extrinsic_msg'[u][u] = extrinsic_msg[u][u]
         /\ extrinsic_msg'[u][v] = extrinsic_msg[u][v]
         /\ extrinsic_msg'[v][v] = extrinsic_msg[v][v]
         /\ \/ extrinsic_msg'[v][u] = extrinsic_msg[v][u]
            \/ extrinsic_msg'[v][u] = Extrinsics(u, extrinsic, ids)
    BY <1>1, <1>2 DEF FleetInv, EdgesInv
  <1>13. HeardInv(u, v)'
    BY <1>1, <1>3, <1>6, <1>7, <1>8, <1>10, <1>11 DEF PairOf, HeardInv, Current
  <1>14. FrameInv(u, v)'
    BY <1>1, <1>3, <1>6, <1>7, <1>8, <1>10, <1>11 DEF PairOf, FrameInv, Current
  <1>15. SentInv(u, v)'  BY <1>1, <1>3, <1>12 DEF PairOf, SentInv
  <1>16. HeardInv(v, u)' /\ FrameInv(v, u)'
    BY <1>1, <1>3, <1>10, <1>11 DEF PairOf, HeardInv, FrameInv, Current
  <1>17. SentInv(v, u)'
    <2>1. CASE extrinsic_msg'[v][u] = extrinsic_msg[v][u]
      BY <1>1, <1>3, <2>1 DEF PairOf, SentInv
    <2>2. CASE extrinsic_msg'[v][u] = Extrinsics(u, extrinsic, ids)
      <3>1. ASSUME NEW e \in Extrinsics(u, extrinsic, ids), u \in settled[v]
            PROVE  e[v] = swarmlio_start[v]
        <4>1. v \in Known(u) /\ extrinsic[v] # None /\ e[v] = extrinsic[v]
          BY <1>9, <3>1
        <4>2. Current(u, v)
          BY <1>1, <3>1, <4>1 DEF PairOf, HeardInv, Known
        <4>3. global_extrinsic[u][v] \in {None, swarmlio_start[v]}
          BY <1>1, <4>2 DEF PairOf, FrameInv
        <4>. QED  BY <1>7, <4>1, <4>3
      <3>. QED  BY <1>3, <1>9, <2>2, <3>1 DEF SentInv
    <2>. QED  BY <1>12, <2>1, <2>2
  <1>18. PairOf(u, v)' /\ PairOf(v, u)'
    BY <1>1, <1>12, <1>13, <1>14, <1>15, <1>16, <1>17 DEF PairOf
  <1>. QED  BY <1>18, PairMade

LEMMA PairStep ==
  ASSUME NEW a, NEW b, Both(a, b)
  PROVE  FleetInv /\ PairInv /\ [Next]_vars => PairInv'
  <1>. SUFFICES ASSUME FleetInv, PairInv, [Next]_vars PROVE PairInv'  OBVIOUS
  <1>1. ASSUME NEW u \in UAVs PROVE \E v \in UAVs : Both(u, v)
    BY DEF Both
  <1>2. ASSUME NEW u \in UAVs, Scan(u) PROVE PairInv'
    <2>1. PICK v \in UAVs : Both(u, v)  BY <1>1
    <2>. QED  BY <1>2, <2>1, PairReset, PairSolve, PairTrack DEF Scan
  <1>3. ASSUME NEW u \in UAVs, Restart(u) PROVE PairInv'
    BY <1>1, <1>3, PairRestart
  <1>4. ASSUME NEW u \in UAVs, NEW v \in UAVs, u # v,
               QuadstateCbk(u, v) \/ Settle(u, v) \/ GlobalExtrinsicCbk(u, v)
        PROVE  PairInv'
    <2>1. Both(u, v)  BY <1>4 DEF Both
    <2>. QED  BY <1>4, <2>1, PairQuadstate, PairSettle, PairGlobalExtrinsic
  <1>5. ASSUME NEW u \in UAVs, QuadstateCbk(u, u) \/ Settle(u, u) \/ GlobalExtrinsicCbk(u, u)
        PROVE  FALSE
    <2>1. PICK v \in UAVs : Both(u, v)  BY <1>1
    <2>2. extrinsic_msg[u][u] = {}  BY <2>1, PairKnows DEF PairOf
    <2>. QED
      BY <1>5, <2>2 DEF QuadstateCbk, Settle, Known, Teammates, GlobalExtrinsicCbk
  <1>6. CASE UNCHANGED vars
    BY <1>6 DEF vars, heard, graph, frames, PairInv, PairOf, HeardInv, FrameInv, SentInv,
                Current
  <1>. QED  BY <1>2, <1>3, <1>4, <1>5, <1>6 DEF Next

\* Of a pair, however often they start and whatever messages are lost, each
\* holds only an extrinsic of the other's present frame once it has dealt with
\* the other's last start.
THEOREM PairNeverStale ==
  ASSUME NEW a, NEW b, a # b, UAVs = {a, b}
  PROVE  Spec => []NoStaleExtrinsic
  <1>1. Both(a, b)  BY DEF Both
  <1>2. Init => PairInv  BY <1>1, PairInit
  <1>3. FleetInv /\ PairInv /\ [Next]_vars => PairInv'  BY <1>1, PairStep
  <1>4. PairInv => NoStaleExtrinsic
    <2>. SUFFICES ASSUME PairInv, NEW u \in UAVs, NEW v \in Tracked(u), Current(u, v)
                  PROVE  global_extrinsic[u][v] = swarmlio_start[v]
      BY DEF NoStaleExtrinsic, Current
    <2>1. v \in UAVs /\ u # v /\ global_extrinsic[u][v] # None
      BY DEF Tracked, Teammates
    <2>. QED  BY <2>1 DEF PairInv, PairOf, FrameInv
  <1>. QED  BY <1>2, <1>3, <1>4, FleetInit, FleetStep, PTL DEF Spec

=============================================================================
