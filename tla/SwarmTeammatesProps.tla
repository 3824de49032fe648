------------------------ MODULE SwarmTeammatesProps ------------------------
(* What the UAVs of a fleet may rely on when they find each other.          *)
EXTENDS SwarmTeammates

\* The state is well formed.
TypeOK ==
  /\ swarmlio_start \in [UAVs -> Start]
  /\ pc \in [UAVs -> {"reset", "solve", "track"}]
  /\ teammate_start \in [UAVs -> [UAVs -> Start \union {Unknown}]]
  /\ settled \in [UAVs -> SUBSET UAVs]
  /\ reconnected_id \in [UAVs -> SUBSET UAVs]
  /\ global_extrinsic \in [UAVs -> [UAVs -> Start \union {None, Wrong}]]
  /\ last_connected_nodes \in [UAVs -> SUBSET UAVs]
  /\ found_all_teammates \in [UAVs -> BOOLEAN]
  /\ matched \in [UAVs -> SUBSET UAVs]
  /\ \A u, v \in UAVs : \A e \in simple_graph[u] \union extrinsic_msg[u][v] :
       DOMAIN e \subseteq UAVs /\ Cardinality(DOMAIN e) = 2
  /\ \A u \in UAVs : \A d, e \in simple_graph[u] : DOMAIN d = DOMAIN e => d = e

\* A UAV that has dealt with the last start of a teammate has no extrinsic of
\* a frame from an earlier start, and none that is no frame's at all. It holds of a
\* pair; a third UAV may pass on what it published before it noticed the start.
NoStaleExtrinsic ==
  \A u \in UAVs : \A v \in Tracked(u) :
    teammate_start[u][v] = swarmlio_start[v] /\ v \notin reconnected_id[u]
      => global_extrinsic[u][v] = swarmlio_start[v]

\* found_all_teammates, which closes a UAV to the extrinsics of others and to
\* new trajectories, is set only while it tracks every teammate.
FoundAllTracked ==
  \A u \in UAVs : found_all_teammates[u] => Tracked(u) = Teammates(u)

AllFound == \A u, v \in UAVs : u # v => global_extrinsic[u][v] = swarmlio_start[v]

\* Once UAVs no longer restart, all have found each other's frames.
FoundForGood == <>[]AllFound

\* The same in a fleet in which some never see each other, as long as no UAV
\* solves its graph for a teammate it has not heard yet.
InfectionCompletes ==
  [](\A u \in UAVs : last_connected_nodes[u] \subseteq Known(u) \union {u})
    => <>[]AllFound
=============================================================================
