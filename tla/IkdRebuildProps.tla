-------------------------- MODULE IkdRebuildProps --------------------------
(***************************************************************************)
(* What the two-thread rebuild of the ikd-Tree promises, and where it does *)
(* not keep it.                                                            *)
(***************************************************************************)
EXTENDS IkdRebuild

RPositions == {"idle", "lockw", "drain1", "flatten", "open1", "relock",
               "replay", "empty", "swap", "emptyswap", "open2", "flag",
               "delete", "crashed"}
Races == {"unlogged", "overlogged", "emptied", "withdrawn"}

\* The type of every variable.
TypeOK ==
  /\ Rebuild_Ptr \in Target \cup {None}
  /\ rebuild_flag \in BOOLEAN
  /\ Rebuild_Logger \in Seq(Operation)
  /\ working \in {None, "rebuild", "mapper"}
  /\ search_flag \in {None, "mapper"}
  /\ search_mutex_counter \in Int
  /\ content \in [Son -> SUBSET Point]
  /\ pending \in [Son -> BOOLEAN] /\ rooted \in BOOLEAN
  /\ rpc \in RPositions /\ target \in Target \cup {None} /\ new \subseteq Point
  /\ rpc \in Busy => target \in Target
  /\ mpc \in {"run", "lock", "apply", "inbox", "omp", "crashed"}
  /\ todo \in Seq([kind : Kind, at : Target, op : Operation])
  /\ mpc \in {"lock", "apply", "inbox"} => todo # <<>>
  /\ box \subseteq Point /\ found \subseteq Point /\ ops \in 0 .. MaxOps
  /\ path \subseteq Target /\ old \subseteq Target /\ freed \in BOOLEAN
  /\ spc \in [Searcher -> {"start", "wait", "in", "walk", "done",
                       "crashed"}]
  /\ sat \in [Searcher -> Target \cup {None}]
  /\ raced \subseteq Races

\* Positions in which the rebuild thread reads or replaces the target.
Exclusive == {"flatten", "open1", "swap", "emptyswap", "open2"}

NoSearchInside ==
  \A i \in Searcher :
    /\ spc[i] # "in"
    /\ spc[i] = "walk" => sat[i] \notin Cover(target) \cup {target}

\* While the rebuild thread copies or replaces the target of a request that
\* stands, no nearest-neighbour search is inside the target: not a counted one,
\* nor one that went in because it did not see the target (the
\* search_mutex_counter protocol, ikd_Tree.cpp 260-277, 307-315 and 347-349
\* against 437-449 and 1103-1122, whatever the mapper withdraws at 843-844,
\* 911-912 or 1051-1052).
SearchExclusion ==
  rpc \in Exclusive /\ Rebuild_Ptr # None => NoSearchInside

\* The same of every rebuild: the search is locked while the target is copied
\* ("Lock Search", ikd_Tree.cpp 257-266).  It does not hold: once the mapper has
\* withdrawn the request of a running rebuild, a search goes into its target.
ExclusionUnconditional == rpc \in Exclusive => NoSearchInside

\* Nothing is left in the log from an earlier rebuild when the rebuild thread
\* starts to copy: what it prints ERROR!!! about (ikd_Tree.cpp 244-247). It does not
\* hold: rebuild_flag is cleared after working_flag_mutex is given up.
LogStartsEmpty ==
  rpc \in {"drain1", "flatten", "open1"} => Rebuild_Logger = <<>>

\* What the operations of a log make of S: p is in the result if the last
\* operation that touches p adds it, or if none does and p is in S.
Replayed(S, log) == {p \in Point :
  \/ \E i \in DOMAIN log :
       /\ p \in log[i].add
       /\ \A j \in DOMAIN log : j > i => p \notin log[j].del
  \/ p \in S /\ \A j \in DOMAIN log : p \notin log[j].del}

TargetPoints == IF target = Root THEN Map ELSE content[target]

\* As long as no operation escaped the protocol, the copy with the log applied
\* is the live subtree: no operation done during the rebuild is lost, doubled
\* or reordered (the "missed operations" of ikd_Tree.cpp 279-304).
ReplayCatchesUp ==
  raced = {} /\ rpc \in Copied =>
    Replayed(new, Rebuild_Logger) = TargetPoints

\* As long as no operation escaped, the rebuild thread never changes the set of
\* points the map holds: copying, replaying and swapping are invisible.
RebuildInvisible ==
  [][raced' = {} /\ rpc' # rpc => Map' = Map]_vars

\* The new subtree that is swapped in equals the live one: the blocked
\* operations were all updated into it (ikd_Tree.cpp 279 and 285). It does not hold:
\* Add_Points looks at Rebuild_Ptr once for two operations (513-519).
SwapInSync == rpc = "swap" => new = TargetPoints

\* What the requests still have to take out and to put in.
OpsLeft == {todo[i].op : i \in {j \in DOMAIN todo : todo[j].kind = "op"}}
OrNone(S) == IF raced = {} THEN S ELSE {}

PM == INSTANCE PointMap WITH
  points <- OrNone(Map), cell <- OrNone(box),
  removing <- OrNone(UNION {op.del : op \in OpsLeft}),
  adding <- OrNone(UNION {op.add : op \in OpsLeft}),
  intact <- raced = {}

\* As long as no operation escapes, the tree with its background rebuild, its
\* lazy deletion marks and its log implements a plain set of points: a finished
\* deletion leaves none of its points in the map, an insertion loses and brings
\* back nothing else, a downsampled box ends with one point.
ImplementsPointMap == PM!Spec

\* No box search stands on nodes that delete_tree_nodes has freed. It does not
\* hold: Search_by_range takes no part in the search counter (ikd_Tree.cpp 501).
NoUseAfterFree == ~freed

\* A requested rebuild completes: the rebuild thread is not starved by the
\* searches it waits for nor by the operations logged while it replays.
RebuildCompletes ==
  Rebuild_Ptr # None ~> Rebuild_Ptr = None \/ rpc = "crashed"

\* A request of the mapper completes whatever the rebuild thread is doing: the
\* two never wait for each other.
RequestCompletes == todo # <<>> ~> todo = <<>> \/ rpc = "crashed"

\* Every search of a scan gets past the lock-out, so the mapper's wait for its
\* OpenMP workers ends.
SearchesComplete == mpc = "omp" ~> mpc = "run" \/ rpc = "crashed"
=============================================================================
