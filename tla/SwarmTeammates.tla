--------------------------- MODULE SwarmTeammates ---------------------------
(***************************************************************************)
(* How the UAVs of a Swarm-LIO fleet find each other's frames (MultiUAV.cpp,*)
(* ExtrinsicInfection.hpp, mars_simple_graph.hpp). Each start of a UAV's    *)
(* estimator begins a new world frame, named here by the number of the      *)
(* start. A UAV keeps, for each teammate, the extrinsic of its frame:       *)
(*   - a teammate it sees long enough is matched by its trajectory;         *)
(*   - the extrinsics it has and those it hears are the edges of a graph,   *)
(*     which gives it the teammates it does not see;                        *)
(*   - a teammate whose start time changes is forgotten and found again.    *)
(* One thread per UAV scans, another runs the callbacks of the messages.    *)
(* An extrinsic is abstracted to the start of the teammate's frame that it  *)
(* leads to, or Wrong when it leads to no frame at all.                     *)
(***************************************************************************)
EXTENDS Naturals, FiniteSets

CONSTANTS UAVs,      \* actual_uav_num of them
          Sees,      \* pairs <<u, v>>: u comes to see v fly (trajectory matching)
          Met,       \* pairs <<u, v>>: u has heard v for two seconds at the start
          MaxStart   \* bound: how often a UAV starts

Unknown == 0         \* a teammate of which no QuadState has arrived
None == 0            \* global_extrinsic_trans is zero: no extrinsic, no tracker
Wrong == MaxStart + 1
Start == 1 .. MaxStart

Teammates(u) == UAVs \ {u}

ASSUME FleetAssumption ==
  /\ IsFiniteSet(UAVs) /\ MaxStart \in Nat \ {0}
  /\ Sees \union Met \subseteq {p \in UAVs \X UAVs : p[1] # p[2]}

VARIABLES swarmlio_start,        \* this UAV's start: first_lidar_time
          pc,                    \* the scan: "reset", "solve", "track"
          teammate_start,        \* swarmlio_start_time last heard of each
          settled,               \* teammates heard for two seconds
          reconnected_id,
          global_extrinsic,      \* of each teammate, as the filter holds it
          simple_graph,          \* a set of edges, see Edge
          last_connected_nodes,
          found_all_teammates,
          matched,               \* teammate_id_by_traj_matching
          extrinsic_msg          \* extrinsic_msg[u][v]: on its way from v to u

heard == <<teammate_start, settled, reconnected_id>>
graph == <<simple_graph, last_connected_nodes>>
frames == <<global_extrinsic, found_all_teammates, matched>>
vars == <<swarmlio_start, pc, heard, graph, frames, extrinsic_msg>>

(***************************************************************************)
(* MarsSimpleGraph. An edge is a function from its two ends to the start of *)
(* the frame it joins at each; its inverse is the same edge.                *)
(***************************************************************************)
EdgeOneWay(u, r, v, s) == [x \in {v} |-> s]
Edge(u, r, v, s) == [x \in {u, v} |-> IF x = u THEN r ELSE s]

\* An edge replaces the one between the same two UAVs.
AddEdges(E, new) ==
  new \union {e \in E : \A d \in new : DOMAIN d # DOMAIN e}

RemoveNodes(E, gone) == {e \in E : DOMAIN e \intersect gone = {}}

\* GetConnectedEdgesAndNodes: the nodes within reach of u.
Connected(E, u) ==
  LET reach[n \in 0 .. Cardinality(UAVs)] ==
        IF n = 0 THEN {u}
        ELSE reach[n - 1] \union
               UNION {DOMAIN e : e \in {d \in E : DOMAIN d \intersect reach[n - 1] # {}}}
  IN  reach[Cardinality(UAVs)]

\* What an edge says of its other ends, to one who has a claim on v.
Says(e, v, claims) ==
  {<<w, IF <<v, e[v]>> \in claims THEN e[w] ELSE Wrong>> :
     w \in {x \in DOMAIN e \ {v} : \E s \in Start : <<v, s>> \in claims}}

\* The frame that all claims on a node agree on, or what the optimiser
\* returns is none.
Agreed(claims) == IF \E s \in Start : claims = {s}
                  THEN CHOOSE s \in Start : claims = {s} ELSE Wrong

\* SolveGraphIsam2: what the edges, followed from u, say of each node.
Solved(E, u) ==
  LET says[n \in 0 .. Cardinality(UAVs)] ==
        IF n = 0 THEN {<<u, swarmlio_start[u]>>}
        ELSE says[n - 1] \union
               UNION {UNION {Says(e, v, says[n - 1]) : v \in DOMAIN e} : e \in E}
  IN  [v \in UAVs |-> Agreed({s \in Start \union {Wrong} :
                                <<v, s>> \in says[Cardinality(UAVs)]})]

-----------------------------------------------------------------------------
Init ==
  /\ swarmlio_start = [u \in UAVs |-> 1]
  /\ pc = [u \in UAVs |-> "reset"]
  /\ teammate_start = [u \in UAVs |->
       [v \in UAVs |-> IF <<u, v>> \in Met THEN 1 ELSE Unknown]]
  /\ settled = [u \in UAVs |-> {v \in UAVs : <<u, v>> \in Met}]
  /\ reconnected_id = [u \in UAVs |-> {}]
  /\ global_extrinsic = [u \in UAVs |-> [v \in UAVs |-> None]]
  /\ simple_graph = [u \in UAVs |-> {}]
  /\ last_connected_nodes = [u \in UAVs |-> {}]
  /\ found_all_teammates = [u \in UAVs |-> FALSE]
  /\ matched = [u \in UAVs |-> {}]
  /\ extrinsic_msg = [u \in UAVs |-> [v \in UAVs |-> {}]]

Known(u) == {v \in Teammates(u) : teammate_start[u][v] # Unknown}
Tracked(u) == {v \in Teammates(u) : global_extrinsic[u][v] # None}

(***************************************************************************)
(* The callbacks. Messages are lost, and a later one replaces an earlier    *)
(* one that the bridge has not handed on.                                   *)
(***************************************************************************)

\* abs(... - msg->swarmlio_start_time) > 0.1, of a teammate already there.
RestartedUnnoticed(u, v) == FALSE
Restarted(u, v) == v \in Known(u)

\* Only a QuadState with a start time that is news changes anything here.
QuadstateCbk(u, v) ==
  /\ v # u
  /\ teammate_start[u][v] # swarmlio_start[v]
  /\ reconnected_id' = IF Restarted(u, v)
                       THEN [reconnected_id EXCEPT ![u] = @ \union {v}]
                       ELSE reconnected_id
  /\ teammate_start' = [teammate_start EXCEPT ![u][v] = swarmlio_start[v]]
  /\ UNCHANGED <<swarmlio_start, pc, settled, graph, frames, extrinsic_msg>>

\* Two seconds after first_connect_time. The code takes them to be enough
\* for the teammate to have dealt with the start of this UAV; a message
\* stamped earlier will not be accepted.
Settle(u, v) ==
  /\ v \in Known(u) \ settled[u]
  /\ teammate_start[v][u] = swarmlio_start[u]
  /\ u \notin reconnected_id[v]
  /\ settled' = [settled EXCEPT ![u] = @ \union {v}]
  /\ extrinsic_msg' = [extrinsic_msg EXCEPT ![u][v] = {}]
  /\ UNCHANGED <<swarmlio_start, pc, teammate_start, reconnected_id, graph, frames>>

AcceptsAtOnce(u, v) == ~found_all_teammates[u]
Accepts(u, v) == ~found_all_teammates[u] /\ v \in settled[u]

GlobalExtrinsicCbk(u, v) ==
  /\ extrinsic_msg[u][v] # {}
  /\ simple_graph' = IF Accepts(u, v)
                     THEN [simple_graph EXCEPT ![u] = AddEdges(@, extrinsic_msg[u][v])]
                     ELSE simple_graph
  /\ extrinsic_msg' = [extrinsic_msg EXCEPT ![u][v] = {}]
  /\ UNCHANGED <<swarmlio_start, pc, heard, last_connected_nodes, frames>>

(***************************************************************************)
(* The scan.                                                                *)
(***************************************************************************)
StillFoundAnyway(u) == found_all_teammates[u]
StillFound(u) ==
  found_all_teammates[u] /\ reconnected_id[u] \intersect Tracked(u) = {}

ResetReconnectedGlobalExtrinsic(u) ==
  /\ pc[u] = "reset"
  /\ global_extrinsic' = [global_extrinsic EXCEPT ![u] =
       [v \in UAVs |-> IF v \in reconnected_id[u] THEN None ELSE @[v]]]
  /\ found_all_teammates' = [found_all_teammates EXCEPT ![u] = StillFound(u)]
  /\ simple_graph' = [simple_graph EXCEPT ![u] = RemoveNodes(@, reconnected_id[u])]
  /\ reconnected_id' = [reconnected_id EXCEPT ![u] = {}]
  /\ pc' = [pc EXCEPT ![u] = "solve"]
  /\ UNCHANGED <<swarmlio_start, teammate_start, settled, last_connected_nodes,
                 matched, extrinsic_msg>>

UnsolvedOnce(u) ==
  LET nodes == Connected(simple_graph[u], u)
  IN  ~found_all_teammates[u] /\ nodes # {u} /\ last_connected_nodes[u] = {}

\* The graph is solved when other nodes are connected than the last time.
Unsolved(u) ==
  LET nodes == Connected(simple_graph[u], u)
  IN  ~found_all_teammates[u] /\ nodes # {u} /\ nodes # last_connected_nodes[u]

\* UpdateFactorGraph, then UpdateGlobalExtrinsicAndCreateNewTeammateTracker:
\* a result is kept only for a teammate that has been heard itself; the
\* assignment swarm->state = state drops the others.
Solve(u) ==
  /\ pc[u] = "solve"
  /\ IF Unsolved(u)
     THEN LET nodes == Connected(simple_graph[u], u)
              solved == Solved(simple_graph[u], u)
          IN  /\ last_connected_nodes' = [last_connected_nodes EXCEPT ![u] = nodes]
              /\ global_extrinsic' = [global_extrinsic EXCEPT ![u] =
                   [v \in UAVs |-> IF v \in nodes \intersect Known(u) /\ @[v] = None
                                   THEN solved[v] ELSE @[v]]]
     ELSE UNCHANGED <<last_connected_nodes, global_extrinsic>>
  /\ pc' = [pc EXCEPT ![u] = "track"]
  /\ UNCHANGED <<swarmlio_start, heard, simple_graph, found_all_teammates,
                 matched, extrinsic_msg>>

\* A trajectory is matched against the odometry of a teammate that is heard
\* and has no tracker yet.
Matchable(u) ==
  IF found_all_teammates[u] THEN {}
  ELSE {v \in Known(u) \ (Tracked(u) \union reconnected_id[u]) :
          <<u, v>> \in Sees /\ teammate_start[u][v] = swarmlio_start[v]}

\* PublishGlobalExtrinsic: the bridge sends on those of matched teammates.
Extrinsics(u, extrinsic, ids) ==
  {Edge(u, swarmlio_start[u], v, extrinsic[v]) :
     v \in {w \in Known(u) \intersect ids : extrinsic[w] # None}}

\* CreateTeammateTracker for the teammates of new, then
\* CreateTempTrackerByHighIntensity; every tenth of a second the extrinsics
\* are published.
Track(u, new, publish) ==
  /\ pc[u] = "track"
  /\ LET extrinsic == [v \in UAVs |-> IF v \in new THEN teammate_start[u][v]
                                      ELSE global_extrinsic[u][v]]
         ids == matched[u] \union new
     IN  /\ global_extrinsic' = [global_extrinsic EXCEPT ![u] = extrinsic]
         /\ found_all_teammates' = [found_all_teammates EXCEPT ![u] =
              @ \/ \A v \in Teammates(u) : extrinsic[v] # None]
         /\ matched' = [matched EXCEPT ![u] = ids]
         /\ simple_graph' = [simple_graph EXCEPT ![u] =
              AddEdges(@, {Edge(u, swarmlio_start[u], v, extrinsic[v]) : v \in new})]
         /\ extrinsic_msg' = [w \in UAVs |-> [extrinsic_msg[w] EXCEPT ![u] =
              IF publish /\ w # u THEN Extrinsics(u, extrinsic, ids) ELSE @]]
  /\ pc' = [pc EXCEPT ![u] = "reset"]
  /\ UNCHANGED <<swarmlio_start, heard, last_connected_nodes>>

\* A UAV's estimator starts again, after longer than the 300 scans for which
\* trajectories are kept: nothing it sent before is under way any more.
Restart(u) ==
  /\ swarmlio_start[u] < MaxStart
  /\ swarmlio_start' = [swarmlio_start EXCEPT ![u] = @ + 1]
  /\ pc' = [pc EXCEPT ![u] = "reset"]
  /\ teammate_start' = [teammate_start EXCEPT ![u] = [v \in UAVs |-> Unknown]]
  /\ settled' = [settled EXCEPT ![u] = {}]
  /\ reconnected_id' = [reconnected_id EXCEPT ![u] = {}]
  /\ global_extrinsic' = [global_extrinsic EXCEPT ![u] = [v \in UAVs |-> None]]
  /\ simple_graph' = [simple_graph EXCEPT ![u] = {}]
  /\ last_connected_nodes' = [last_connected_nodes EXCEPT ![u] = {}]
  /\ found_all_teammates' = [found_all_teammates EXCEPT ![u] = FALSE]
  /\ matched' = [matched EXCEPT ![u] = {}]
  /\ extrinsic_msg' = [w \in UAVs |-> [v \in UAVs |->
                         IF u \in {v, w} THEN {} ELSE extrinsic_msg[w][v]]]

-----------------------------------------------------------------------------
Scan(u) == \/ ResetReconnectedGlobalExtrinsic(u)
           \/ Solve(u)
           \/ \E new \in SUBSET Matchable(u), publish \in BOOLEAN : Track(u, new, publish)

Next == \E u \in UAVs :
  \/ Scan(u)
  \/ Restart(u)
  \/ \E v \in UAVs : QuadstateCbk(u, v) \/ Settle(u, v) \/ GlobalExtrinsicCbk(u, v)

Spec == Init /\ [][Next]_vars

(***************************************************************************)
(* Scans keep coming at the lidar's rate and publish every tenth of a       *)
(* second, QuadStates arrive, and two seconds pass. UAVs that come to see   *)
(* each other fly trajectories that can be matched, and of the extrinsics   *)
(* that say something new one arrives in the end. What happens once per     *)
(* start or edge happens finitely often: fairness to all is that to each.   *)
(***************************************************************************)
Fairness ==
  /\ \A u \in UAVs : []<><<\E new \in SUBSET Matchable(u) : Track(u, new, TRUE)>>_vars
  /\ WF_vars(\E u, v \in UAVs : QuadstateCbk(u, v))
  /\ WF_vars(\E u, v \in UAVs : Settle(u, v))
  /\ SF_vars(\E u \in UAVs : \E new \in SUBSET Matchable(u) \ {{}} : Track(u, new, TRUE))
  /\ SF_vars(\E u, v \in UAVs : /\ GlobalExtrinsicCbk(u, v)
                                /\ simple_graph' # simple_graph)

FairSpec == Spec /\ Fairness
=============================================================================
