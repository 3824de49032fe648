----------------------------- MODULE IkdRebuild -----------------------------
(***************************************************************************)
(* The two-thread rebuild of the ikd-Tree, the point map of FAST-LIO       *)
(* (fast_lio/include/ikd-Tree/ikd_Tree.cpp).                               *)
(*                                                                         *)
(*   - the mapper, the node's main thread, deletes boxes of points and     *)
(*     adds points (Delete_Point_Boxes, Delete_Points, Add_Points) and     *)
(*     asks for a rebuild of a subtree that became unbalanced (Rebuild);   *)
(*   - the searchers, the OpenMP workers of h_share_model, run             *)
(*     Nearest_Search while the mapper waits for them;                     *)
(*   - the rebuild thread copies the requested subtree, builds a balanced  *)
(*     one, replays the operations logged meanwhile and swaps it in.       *)
(*                                                                         *)
(* The tree is abstracted to the root node and its two sons: a rebuild     *)
(* target is the root or one of the sons, which stand for any big subtree  *)
(* and its sibling.  What is below a target is a set of points: balance,   *)
(* division axes and the size criteria are a free choice of the mapper:    *)
(* whether a subtree is asked to be rebuilt, is too small for the second   *)
(* thread after all, or is rebuilt in place, which keeps its points.       *)
(* A test of Rebuild_Ptr is one step, as one load of the pointer is.       *)
(***************************************************************************)
EXTENDS Integers, Sequences, FiniteSets

CONSTANTS
  Point,     \* the points that may be in the map
  SonOf,     \* SonOf[p]: the son of the root p is routed to
  Added,     \* the points Add_Points is given without downsampling
  Deleted,   \* the points Delete_Points is given
  Box,       \* the boxes Delete_Point_Boxes is given, as sets of points
  Voxel,     \* the downsampling boxes of Add_Points, as sets of points
  Searcher,  \* the OpenMP search threads
  MaxOps     \* bound: the number of requests of the mapper

Son == {"left", "right"}
Root == "root"
None == "none"
Target == Son \cup {Root}

ASSUME ConstAssumption ==
  /\ IsFiniteSet(Point)
  /\ SonOf \in [Point -> Son]
  /\ Added \subseteq Point /\ Deleted \subseteq Point
  /\ Box \subseteq SUBSET Point
  /\ Voxel \subseteq (SUBSET Point) \ {Point}
  /\ IsFiniteSet(Searcher)
  /\ MaxOps \in Nat

VARIABLES
  Rebuild_Ptr,          \* the requested or running target, or None
  rebuild_flag,         \* TRUE while the mapper must log what it does
  Rebuild_Logger,       \* the operations the new subtree has not seen
  working,              \* the owner of working_flag_mutex
  search_flag,          \* who holds search_flag_mutex across a traversal
  search_mutex_counter, \* counted searches, -1 when searches are locked out
  content,              \* content[s]: the undeleted points below son s
  pending,              \* pending[s]: the root is deleted, not pushed to s
  rooted,               \* Root_Node is not null
  rpc, target, new,     \* the rebuild thread: position, target, new subtree
  mpc, todo, box, found, ops,  \* the mapper: position, remaining work
  path, old, freed,     \* the mapper's box search: nodes it stands on
  spc, sat,             \* the searchers: position, subtree searched
  raced                 \* history: how an operation escaped the protocol

rvars == <<rpc, target, new>>
mvars == <<mpc, todo, box, found, ops>>
walk  == <<path, old, freed>>
svars == <<spc, sat>>
tree  == <<content, pending, rooted>>
shared == <<Rebuild_Ptr, rebuild_flag, Rebuild_Logger, working, search_flag,
            search_mutex_counter>>
vars == <<shared, tree, rvars, mvars, walk, svars, raced>>

-----------------------------------------------------------------------------
(* An operation removes the points of a box and then adds points: ADD_POINT,*)
(* DELETE_POINT, DELETE_BOX and DOWNSAMPLE_DELETE, and the PUSH_DOWN of a   *)
(* deleted father.  Steps of the mapper's descent carry where they act.     *)
Operation == [del : SUBSET Point, add : SUBSET Point]
Perform(S, op) == (S \ op.del) \cup op.add

Delete(B) == [del |-> B, add |-> {}]
Add(p)    == [del |-> {}, add |-> {p}]

Kind == {"op", "push", "search", "decide", "unwind"}
Step(kind, at, op) == [kind |-> kind, at |-> at, op |-> op]
Nothing == Delete({})
Unwind  == Step("unwind", Root, Nothing)
Both(kind, op) == <<Step(kind, "left", op), Step(kind, "right", op)>>

Cover(t) == IF t = Root THEN Son ELSE {t}
Below(s) == IF pending[s] THEN {} ELSE content[s]
Map == UNION {Below(s) : s \in Son}
Split(S) == [s \in Son |-> {p \in S : SonOf[p] = s}]

\* The root is deleted as a whole and nothing was pushed down since.
Marked == \A s \in Son : pending[s]

\* Push_Down of the root: one step per son the deletion has not reached.
PushTo(s) == IF pending[s] THEN <<Step("push", s, Delete(Point))>> ELSE <<>>
Pushes == PushTo("left") \o PushTo("right")

\* The rebuild thread has copied s and has not yet swapped the copy in.
Copied == {"open1", "relock", "replay", "empty", "swap", "emptyswap"}
InFlight(s) == rpc \in Copied /\ s \in Cover(target)

\* The rebuild thread has accepted a request it has not yet finished.
Busy == Copied \cup {"drain1", "flatten", "open2"}

-----------------------------------------------------------------------------
Init ==
  /\ Rebuild_Ptr = None /\ rebuild_flag = FALSE /\ Rebuild_Logger = <<>>
  /\ working = None /\ search_flag = None /\ search_mutex_counter = 0
  /\ content \in {c \in {Split(S) : S \in SUBSET Point} : \A s \in Son : c[s] # {}}
  /\ pending = [s \in Son |-> FALSE] /\ rooted = TRUE
  /\ rpc = "idle" /\ target = None /\ new = {}
  /\ mpc = "run" /\ todo = <<>> /\ box = {} /\ found = {} /\ ops = 0
  /\ path = {} /\ old = {} /\ freed = FALSE
  /\ spc = [i \in Searcher |-> "done"] /\ sat = [i \in Searcher |-> None]
  /\ raced = {}

-----------------------------------------------------------------------------
(* The rebuild thread, multi_thread_rebuild.  It owns rebuild_ptr_mutex in *)
(* every position but "idle".  It reads the target through Rebuild_Ptr     *)
(* until it has put the new subtree in place, and the mapper may set       *)
(* Rebuild_Ptr to null meanwhile (Withdraw).                               *)

\* Takes rebuild_ptr_mutex, then waits for working_flag_mutex.
RLockPtr ==
  /\ rpc = "idle"
  /\ rpc' = "lockw"
  /\ UNCHANGED <<shared, tree, target, new, mvars, walk, svars, raced>>

\* Nothing is requested: both mutexes are released.
RNoRequest ==
  /\ rpc = "lockw" /\ working = None /\ Rebuild_Ptr = None
  /\ rpc' = "idle"
  /\ UNCHANGED <<shared, tree, target, new, mvars, walk, svars, raced>>

\* Mutant: the test of Rebuild_Ptr is missing.
RAcceptAny ==
  /\ rpc = "lockw" /\ working = None
  /\ working' = "rebuild" /\ rebuild_flag' = TRUE
  /\ target' = Rebuild_Ptr /\ rpc' = "drain1"
  /\ UNCHANGED <<Rebuild_Ptr, Rebuild_Logger, search_flag,
                 search_mutex_counter, tree, new, mvars, walk, svars, raced>>

\* Accepts the request and keeps working_flag_mutex.
RAccept ==
  /\ rpc = "lockw" /\ working = None /\ Rebuild_Ptr # None
  /\ working' = "rebuild"
  /\ rebuild_flag' = TRUE
  /\ target' = Rebuild_Ptr
  /\ rpc' = "drain1"
  /\ UNCHANGED <<Rebuild_Ptr, Rebuild_Logger, search_flag,
                 search_mutex_counter, tree, new, mvars, walk, svars, raced>>

\* Waits until no counted search is left and locks searches out.
LockSearch(from, to) ==
  /\ rpc = from
  /\ search_flag = None /\ search_mutex_counter = 0
  /\ search_mutex_counter' = -1
  /\ rpc' = to
  /\ UNCHANGED <<Rebuild_Ptr, rebuild_flag, Rebuild_Logger, working,
                 search_flag, tree, target, new, mvars, walk, svars, raced>>

RLockSearch == LockSearch("drain1", "flatten")

\* flatten copies the undeleted points; from the root it pushes down first.
RFlatten ==
  /\ rpc = "flatten" /\ Rebuild_Ptr # None
  /\ IF target = Root
     THEN /\ new' = Map
          /\ content' = [s \in Son |-> Below(s)]
          /\ pending' = [s \in Son |-> FALSE]
          /\ UNCHANGED rooted
     ELSE new' = content[target] /\ UNCHANGED tree
  /\ rpc' = "open1"
  /\ UNCHANGED <<shared, target, mvars, walk, svars, raced>>

\* Lets searches in, releases working_flag_mutex and builds the new subtree;
\* an empty copy skips the replay and the mutex the replay would take.
RUnlockSearch ==
  /\ rpc = "open1" /\ search_flag = None
  /\ search_mutex_counter' = 0
  /\ working' = None
  /\ rpc' = IF new = {} THEN "empty" ELSE "relock"
  /\ UNCHANGED <<Rebuild_Ptr, rebuild_flag, Rebuild_Logger, search_flag,
                 tree, target, new, mvars, walk, svars, raced>>

RRelock ==
  /\ rpc = "relock" /\ working = None
  /\ working' = "rebuild"
  /\ rpc' = "replay"
  /\ UNCHANGED <<Rebuild_Ptr, rebuild_flag, Rebuild_Logger, search_flag,
                 search_mutex_counter, tree, target, new, mvars, walk, svars,
                 raced>>

\* Pops one logged operation, releases working_flag_mutex and runs it on the
\* new subtree, which no other thread can reach.
RReplay ==
  /\ rpc = "replay" /\ Rebuild_Logger # <<>>
  /\ new' = Perform(new, Head(Rebuild_Logger))
  /\ Rebuild_Logger' = Tail(Rebuild_Logger)
  /\ working' = None
  /\ rpc' = "relock"
  /\ UNCHANGED <<Rebuild_Ptr, rebuild_flag, search_flag,
                 search_mutex_counter, tree, target, mvars, walk, svars,
                 raced>>

\* Mutant: the replay loop ends before the log is empty.
RLockSearch2Early == LockSearch("replay", "swap")

\* The log is empty: locks searches out again, working_flag_mutex in hand.
RLockSearch2 == Rebuild_Logger = <<>> /\ LockSearch("replay", "swap")

RLockSearchEmpty == LockSearch("empty", "emptyswap")

\* A null pointer is read through: the process stops.
Crash ==
  /\ rpc' = "crashed" /\ mpc' = "crashed"
  /\ spc' = [i \in Searcher |-> "crashed"]
  /\ UNCHANGED <<shared, tree, target, new, todo, box, found, ops, walk, sat,
                 raced>>

\* The request was withdrawn before the target is copied or replaced.
RLostRequest ==
  /\ rpc \in {"flatten", "swap", "emptyswap"} /\ Rebuild_Ptr = None
  /\ Crash

\* Puts S in the place of the target; a box search that stands on the target
\* stays on the replaced nodes.
Replace(S) ==
  /\ Rebuild_Ptr # None
  /\ IF target = Root
     THEN /\ content' = Split(S)
          /\ pending' = [s \in Son |-> FALSE]
     ELSE content' = [content EXCEPT ![target] = S] /\ UNCHANGED pending
  /\ old' = IF target \in path THEN old \cup {target} ELSE old
  /\ rpc' = "open2"
  /\ UNCHANGED <<shared, target, new, mvars, path, freed, svars>>

RSwap == rpc = "swap" /\ Replace(new) /\ UNCHANGED <<rooted, raced>>

\* new_root_node is null: valid_new reads through it.  An unoptimised build
\* stops here; where the unused load is removed, a null subtree is put in
\* place, and Root_Node is null if the target was the root.
REmptyCrash == rpc = "emptyswap" /\ Rebuild_Ptr # None /\ Crash

REmptySwap ==
  /\ rpc = "emptyswap"
  /\ Replace({})
  /\ rooted' = (rooted /\ target # Root)
  /\ raced' = IF Rebuild_Logger = <<>> THEN raced ELSE raced \cup {"emptied"}

\* Mutants: the request is not dropped; searches stay locked out.
RFinishKeepsRequest ==
  /\ rpc = "open2" /\ search_flag = None
  /\ search_mutex_counter' = 0 /\ working' = None /\ rpc' = "flag"
  /\ UNCHANGED <<Rebuild_Ptr, rebuild_flag, Rebuild_Logger, search_flag, tree,
                 target, new, mvars, walk, svars, raced>>

RFinishKeepsLockout ==
  /\ rpc = "open2" /\ search_flag = None
  /\ Rebuild_Ptr' = None /\ working' = None /\ rpc' = "flag"
  /\ UNCHANGED <<rebuild_flag, Rebuild_Logger, search_flag,
                 search_mutex_counter, tree, target, new, mvars, walk, svars,
                 raced>>

\* Lets searches in, drops the request and unlocks working_flag_mutex, held
\* or not (an unlock by a thread that does not own it takes it from the owner).
RFinish ==
  /\ rpc = "open2" /\ search_flag = None
  /\ search_mutex_counter' = 0
  /\ Rebuild_Ptr' = None
  /\ working' = None
  /\ rpc' = "flag"
  /\ UNCHANGED <<rebuild_flag, Rebuild_Logger, search_flag, tree, target, new,
                 mvars, walk, svars, raced>>

\* rebuild_flag is cleared after working_flag_mutex was released.
RClearFlag ==
  /\ rpc = "flag"
  /\ rebuild_flag' = FALSE
  /\ rpc' = "delete"
  /\ UNCHANGED <<Rebuild_Ptr, Rebuild_Logger, working, search_flag,
                 search_mutex_counter, tree, target, new, mvars, walk, svars,
                 raced>>

\* delete_tree_nodes frees the replaced nodes; rebuild_ptr_mutex is released.
RDelete ==
  /\ rpc = "delete"
  /\ freed' = (freed \/ old # {})
  /\ rpc' = "idle"
  /\ UNCHANGED <<shared, tree, target, new, mvars, path, old, svars, raced>>

RNext ==
  \/ RLockPtr \/ RNoRequest \/ RAccept \/ RLockSearch \/ RFlatten
  \/ RUnlockSearch \/ RRelock \/ RReplay \/ RLockSearch2 \/ RLockSearchEmpty
  \/ RSwap \/ REmptyCrash \/ REmptySwap \/ RLostRequest \/ RFinish
  \/ RClearFlag \/ RDelete

-----------------------------------------------------------------------------
(* The mapper.  A request is laid out as the list of steps its descent      *)
(* takes; todo is what is left of it.                                       *)

Ready == mpc = "run" /\ todo = <<>>
At(kind) == mpc = "run" /\ todo # <<>> /\ Head(todo).kind = kind
Here == Head(todo)

\* The OpenMP loop of h_share_model: the mapper waits for every searcher.
\* timer_callback does not come to it while Root_Node is null.
MScan ==
  /\ Ready /\ rooted
  /\ mpc' = "omp"
  /\ spc' = [i \in Searcher |-> "start"]
  /\ UNCHANGED <<shared, tree, rvars, todo, box, found, ops, walk, sat, raced>>

MJoin ==
  /\ mpc = "omp" /\ \A i \in Searcher : spc[i] = "done"
  /\ mpc' = "run"
  /\ UNCHANGED <<shared, tree, rvars, todo, box, found, ops, walk, svars,
                 raced>>

Request(steps) ==
  /\ Ready /\ ops < MaxOps
  /\ ops' = ops + 1
  /\ todo' = steps
  /\ UNCHANGED <<shared, rvars, mpc, found, svars, raced>>

\* timer_callback found Root_Node null: Build makes a new tree of a scan.
MBuild(S) ==
  /\ ~rooted
  /\ Request(<<>>)
  /\ content' = Split(S) /\ pending' = [s \in Son |-> FALSE]
  /\ rooted' = TRUE
  /\ UNCHANGED <<box, walk>>

\* Delete_Point_Boxes for one box.  A box around the whole tree only marks
\* the root; a tree so marked, or a null one, is left alone.
MDeleteBox(B) ==
  /\ \/ /\ Rebuild_Ptr = Root
        /\ Request(<<Step("op", Root, Delete(B))>>)
        /\ UNCHANGED pending
     \/ /\ Rebuild_Ptr # Root /\ B # Point
        /\ IF Marked \/ ~rooted
           THEN Request(<<>>)
           ELSE Request(Pushes \o Both("op", Delete(B)) \o <<Unwind>>)
        /\ UNCHANGED pending
     \/ /\ Rebuild_Ptr # Root /\ B = Point
        /\ Request(<<>>)
        /\ pending' = [s \in Son |-> rooted]
  /\ UNCHANGED <<content, rooted, box, walk>>

\* Mutant: Add_by_point goes down without Push_Down.
MPointUnpushed(p, op) ==
  /\ Request(IF Rebuild_Ptr = Root THEN <<Step("op", Root, op)>>
             ELSE IF op.add = {} /\ (Marked \/ ~rooted) THEN <<>>
             ELSE <<Step("op", SonOf[p], op), Unwind>>)
  /\ UNCHANGED <<tree, box, walk>>

\* Add_Points without downsampling, or Delete_Points, for one point.
MPoint(p, op) ==
  /\ Request(IF Rebuild_Ptr = Root THEN <<Step("op", Root, op)>>
             ELSE IF op.add = {} /\ (Marked \/ ~rooted) THEN <<>>
             ELSE Pushes \o <<Step("op", SonOf[p], op), Unwind>>)
  /\ UNCHANGED <<tree, box, walk>>

\* Add_Points with downsampling, for one point: the box search comes first,
\* from Root_Node and without a look at Rebuild_Ptr.
MDownsample(p, V) ==
  /\ Request(Pushes \o Both("search", Nothing) \o <<Step("decide", Root, Add(p))>>)
  /\ box' = V
  /\ path' = {Root}
  /\ UNCHANGED <<tree, old, freed>>

\* A son under rebuild is searched with search_flag_mutex held; the counter,
\* which may be -1, is not read.
MSearchLock ==
  /\ At("search") /\ Rebuild_Ptr = Here.at
  /\ search_flag = None
  /\ search_flag' = "mapper"
  /\ found' = found \cup (Below(Here.at) \cap box)
  /\ path' = path \cup {Here.at}
  /\ mpc' = "inbox"
  /\ UNCHANGED <<Rebuild_Ptr, rebuild_flag, Rebuild_Logger, working,
                 search_mutex_counter, tree, rvars, todo, box, ops, old, freed,
                 svars, raced>>

MSearchUnlock ==
  /\ mpc = "inbox"
  /\ search_flag' = None
  /\ path' = path \ {Here.at} /\ old' = old \ {Here.at}
  /\ mpc' = "run" /\ todo' = Tail(todo)
  /\ UNCHANGED <<Rebuild_Ptr, rebuild_flag, Rebuild_Logger, working,
                 search_mutex_counter, tree, rvars, box, found, ops, freed,
                 svars, raced>>

MSearch ==
  /\ At("search") /\ Rebuild_Ptr # Here.at
  /\ found' = found \cup (Below(Here.at) \cap box)
  /\ todo' = Tail(todo)
  /\ UNCHANGED <<shared, tree, rvars, mpc, box, ops, walk, svars, raced>>

\* Add_Points keeps the point r nearest to the centre of the box: the new
\* point or one already there.  Rebuild_Ptr is read once for both operations.
MDecide(r) ==
  /\ At("decide")
  /\ r \in found \cup Here.op.add
  /\ LET remove == IF found = {} THEN {} ELSE box
     IN todo' =
          IF ~(Cardinality(found) > 1 \/ r \in Here.op.add) THEN <<>>
          ELSE IF Rebuild_Ptr = Root
          THEN <<Step("op", Root, [del |-> remove, add |-> {r}])>>
          ELSE (IF found = {} THEN <<>>
                ELSE Both("op", Delete(box)) \o <<Unwind>>)
               \o <<Step("op", SonOf[r], Add(r)), Unwind>>
  /\ box' = {} /\ found' = {} /\ path' = {} /\ old' = {}
  /\ UNCHANGED <<shared, tree, rvars, mpc, ops, freed, svars, raced>>

\* Rebuild: a subtree of Multi_Thread_Rebuild_Point_Num points or more becomes
\* the request if rebuild_ptr_mutex is free and it is the larger one.
TryRebuild(t) ==
  \/ UNCHANGED Rebuild_Ptr
  \/ /\ rpc = "idle"
     /\ Rebuild_Ptr # Root
     /\ Rebuild_Ptr' = t

\* A node that has fallen below that size when the mapper comes back up to it:
\* a request for it is withdrawn, without rebuild_ptr_mutex and whether or not
\* the rebuild thread has begun.
Withdraw(t) == Rebuild_Ptr = t /\ Rebuild_Ptr' = None

\* What the history records of this step when it withdraws a running request.
Withdrawn ==
  IF rpc \in Busy /\ Rebuild_Ptr # None /\ Rebuild_Ptr' = None
  THEN {"withdrawn"} ELSE {}

Act(at, op) ==
  /\ content' = IF at = Root
                THEN [s \in Son |-> (Below(s) \ op.del) \cup Split(op.add)[s]]
                ELSE [content EXCEPT ![at] = Perform(@, op)]
  /\ pending' = [s \in Son |-> IF s \in Cover(at) THEN FALSE ELSE pending[s]]
  /\ UNCHANGED rooted

\* Mutant: the descent comes back to the same son.
MVisitAgain ==
  /\ At("op") \/ At("push")
  /\ Here.at # Root /\ Rebuild_Ptr # Here.at
  /\ Act(Here.at, Here.op)
  /\ UNCHANGED <<shared, rvars, mvars, walk, svars, raced>>

\* A son that is not the request: the descent goes on without a lock.  Nothing
\* is withdrawn on the way back up from it: the son becomes the request, if it
\* does, after the test that would withdraw it.
MVisit ==
  /\ At("op") \/ At("push")
  /\ Here.at # Root /\ Rebuild_Ptr # Here.at
  /\ rooted \/ Here.kind = "push"
  /\ Act(Here.at, Here.op)
  /\ raced' = IF InFlight(Here.at) THEN raced \cup {"unlogged"} ELSE raced
  /\ IF Here.kind = "op" THEN TryRebuild(Here.at) ELSE UNCHANGED Rebuild_Ptr
  /\ todo' = Tail(todo)
  /\ UNCHANGED <<rebuild_flag, Rebuild_Logger, working, search_flag,
                 search_mutex_counter, rvars, mpc, box, found, ops, walk,
                 svars>>

\* The target: working_flag_mutex is wanted from here on.
MVisitTarget ==
  /\ At("op") \/ At("push")
  /\ Here.at = Root \/ Rebuild_Ptr = Here.at
  /\ mpc' = "lock"
  /\ UNCHANGED <<shared, tree, rvars, todo, box, found, ops, walk, svars,
                 raced>>

MLock ==
  /\ mpc = "lock" /\ working = None
  /\ working' = "mapper"
  /\ mpc' = "apply"
  /\ UNCHANGED <<Rebuild_Ptr, rebuild_flag, Rebuild_Logger, search_flag,
                 search_mutex_counter, tree, rvars, todo, box, found, ops,
                 walk, svars, raced>>

\* Mutant: the operation is not logged.
MApplyUnlogged ==
  /\ mpc = "apply"
  /\ Act(Here.at, Here.op)
  /\ working' = None
  /\ mpc' = "run" /\ todo' = Tail(todo)
  /\ UNCHANGED <<Rebuild_Ptr, rebuild_flag, Rebuild_Logger, search_flag,
                 search_mutex_counter, rvars, box, found, ops, walk, svars,
                 raced>>

\* Operates on the target, withdraws the request if the target has become too
\* small, logs the operation if rebuild_flag is set, unlocks.
MApply ==
  /\ mpc = "apply" /\ (rooted \/ Here.op.add = {})
  /\ Act(Here.at, Here.op)
  /\ Rebuild_Logger' = IF rebuild_flag THEN Append(Rebuild_Logger, Here.op)
                                       ELSE Rebuild_Logger
  /\ \/ UNCHANGED Rebuild_Ptr
     \/ Here.kind = "op" /\ rooted /\ Withdraw(Here.at)
  /\ raced' = raced \cup Withdrawn \cup
       (IF rebuild_flag /\ ~\A s \in Cover(Here.at) : InFlight(s)
        THEN {"overlogged"} ELSE {})
  /\ working' = None
  /\ mpc' = "run" /\ todo' = Tail(todo)
  /\ UNCHANGED <<rebuild_flag, search_flag, search_mutex_counter, rvars, box,
                 found, ops, walk, svars>>

\* Back at the root node: the whole tree may be unbalanced, or be too small by
\* now for a request that a moment ago it was large enough for.
MUnwind ==
  /\ At("unwind") /\ rooted
  /\ TryRebuild(Root) \/ Withdraw(Root)
  /\ raced' = raced \cup Withdrawn
  /\ todo' = Tail(todo)
  /\ UNCHANGED <<rebuild_flag, Rebuild_Logger, working, search_flag,
                 search_mutex_counter, tree, rvars, mpc, box, found, ops, walk,
                 svars>>

\* Or it is rebuilt in place: a tree whose points are all deleted is then null.
\* A tree that small holds no larger subtree, as a request for a son is until
\* the rebuild thread has replaced the son.
MUnwindEmpty ==
  /\ At("unwind") /\ rooted
  /\ Map = {} /\ (Rebuild_Ptr \in Son => rpc = "open2")
  /\ Rebuild_Ptr' = IF Rebuild_Ptr = Root THEN None ELSE Rebuild_Ptr
  /\ content' = [s \in Son |-> {}] /\ pending' = [s \in Son |-> FALSE]
  /\ rooted' = FALSE
  /\ raced' = raced \cup Withdrawn
  /\ todo' = Tail(todo)
  /\ UNCHANGED <<rebuild_flag, Rebuild_Logger, working, search_flag,
                 search_mutex_counter, rvars, mpc, box, found, ops, walk,
                 svars>>

\* Root_Node is null, and the mapper reads through it to insert at the root, to
\* go on to a son or to update the root on the way up.
MNullRoot ==
  /\ ~rooted
  /\ \/ At("op") /\ Here.at # Root
     \/ At("unwind")
     \/ mpc = "apply" /\ Here.op.add # {}
  /\ Crash

MNext ==
  \/ MScan \/ MJoin
  \/ \E S \in (SUBSET Added) \ {{}} : MBuild(S)
  \/ \E B \in Box : MDeleteBox(B)
  \/ \E p \in Added : MPoint(p, Add(p))
  \/ \E p \in Deleted : MPoint(p, Delete({p}))
  \/ \E V \in Voxel : \E p \in V : MDownsample(p, V)
  \/ MSearchLock \/ MSearchUnlock \/ MSearch \/ (\E r \in Point : MDecide(r))
  \/ MVisit \/ MVisitTarget \/ MLock \/ MApply \/ MUnwind \/ MUnwindEmpty
  \/ MNullRoot

-----------------------------------------------------------------------------
(* The searchers, Nearest_Search and Search.                                *)

MoveSearcher(i, pc, at) ==
  /\ spc' = [spc EXCEPT ![i] = pc]
  /\ sat' = [sat EXCEPT ![i] = at]

\* Goes to the root when the root is the target, else to one of the sons: as
\* a counted search into the target, straight into any other son.
SVisit(i) ==
  /\ mpc = "omp" /\ spc[i] = "start"
  /\ \E t \in Target :
       /\ t = Root <=> Rebuild_Ptr = Root
       /\ MoveSearcher(i, IF Rebuild_Ptr = t THEN "wait" ELSE "walk", t)
  /\ UNCHANGED <<shared, tree, rvars, mvars, walk, raced>>

\* Mutant: a search does not wait while searches are locked out.
SEnterAlways(i) ==
  /\ spc[i] = "wait" /\ search_flag = None
  /\ search_mutex_counter' = search_mutex_counter + 1
  /\ MoveSearcher(i, "in", sat[i])
  /\ UNCHANGED <<Rebuild_Ptr, rebuild_flag, Rebuild_Logger, working,
                 search_flag, tree, rvars, mvars, walk, raced>>

\* A search goes into the target when searches are not locked out.
SEnter(i) ==
  /\ spc[i] = "wait" /\ search_flag = None /\ search_mutex_counter # -1
  /\ search_mutex_counter' = search_mutex_counter + 1
  /\ MoveSearcher(i, "in", sat[i])
  /\ UNCHANGED <<Rebuild_Ptr, rebuild_flag, Rebuild_Logger, working,
                 search_flag, tree, rvars, mvars, walk, raced>>

SLeave(i) ==
  /\ spc[i] = "in" /\ search_flag = None
  /\ search_mutex_counter' = search_mutex_counter - 1
  /\ MoveSearcher(i, "start", None)
  /\ UNCHANGED <<Rebuild_Ptr, rebuild_flag, Rebuild_Logger, working,
                 search_flag, tree, rvars, mvars, walk, raced>>

SWalkEnd(i) ==
  /\ spc[i] = "walk"
  /\ MoveSearcher(i, "start", None)
  /\ UNCHANGED <<shared, tree, rvars, mvars, walk, raced>>

SDone(i) ==
  /\ spc[i] = "start"
  /\ MoveSearcher(i, "done", None)
  /\ UNCHANGED <<shared, tree, rvars, mvars, walk, raced>>

SNext == \E i \in Searcher :
  SVisit(i) \/ SEnter(i) \/ SLeave(i) \/ SWalkEnd(i) \/ SDone(i)

-----------------------------------------------------------------------------
\* A crashed process stays down.
Down == rpc = "crashed" /\ UNCHANGED vars

Next == RNext \/ MNext \/ SNext \/ Down

Spec == Init /\ [][Next]_vars

(***************************************************************************)
(* Fairness.  The rebuild thread polls its mutexes and the search counter   *)
(* every few microseconds while the mapper waits up to a scan period for    *)
(* the next cloud, so it meets a mutex that is free again and again (SF).   *)
(* The mapper finishes a request it began and a search visits finitely many *)
(* nodes; neither is obliged to begin another one.                          *)
(***************************************************************************)
MProgress ==
  \/ MJoin \/ MSearchLock \/ MSearchUnlock \/ MSearch
  \/ (\E r \in Point : MDecide(r))
  \/ MVisit \/ MVisitTarget \/ MLock \/ MApply \/ MUnwind \/ MUnwindEmpty
  \/ MNullRoot

Fairness ==
  /\ SF_vars(RNext)
  /\ SF_vars(MProgress)
  /\ \A i \in Searcher :
       /\ SF_vars(SEnter(i))
       /\ SF_vars(SDone(i))
       /\ WF_vars(SLeave(i) \/ SWalkEnd(i))

FairSpec == Spec /\ Fairness
=============================================================================
