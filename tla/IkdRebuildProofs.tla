-------------------------- MODULE IkdRebuildProofs --------------------------
(***************************************************************************)
(* Proofs about the two-thread rebuild, for any set of points, boxes and   *)
(* searchers and any number of requests, in four parts: the types; that    *)
(* the search_mutex_counter protocol keeps every search out of a subtree   *)
(* that is copied or replaced; that the copy catches up with the subtree   *)
(* by its log, so that nobody can tell that it was swapped in; and that    *)
(* the whole implements a plain set of points, PointMap.                   *)
(***************************************************************************)
EXTENDS IkdRebuildProps, FiniteSetTheorems, SequenceTheorems, TLAPS

STEP == [kind : Kind, at : Target, op : Operation]

-----------------------------------------------------------------------------
(* The steps a request is laid out in.                                      *)

LEMMA OperationTypes ==
  /\ \A B \in SUBSET Point : Delete(B) \in Operation
  /\ \A p \in Point : Add(p) \in Operation
BY DEF Delete, Add, Operation

LEMMA StepSequences ==
  /\ <<>> \in Seq(STEP)
  /\ \A x \in STEP : <<x>> \in Seq(STEP)
  /\ \A x, y \in STEP : <<x, y>> \in Seq(STEP)
  /\ \A s, t \in Seq(STEP) : s \o t \in Seq(STEP)
OBVIOUS

LEMMA StepTypes ==
  ASSUME NEW k \in Kind, NEW t \in Target, NEW op \in Operation
  PROVE  Step(k, t, op) \in STEP /\ Both(k, op) \in Seq(STEP)
<1>1. "left" \in Target /\ "right" \in Target
  BY DEF Target, Son
<1>2. \A u \in Target : Step(k, u, op) \in STEP
  BY DEF Step, STEP
<1>3. Both(k, op) \in Seq(STEP)
  BY <1>1, <1>2 DEF Both
<1>4. QED
  BY <1>2, <1>3

LEMMA UnwindType == Unwind \in STEP /\ Nothing \in Operation
<1>1. Nothing \in Operation
  BY DEF Nothing, Delete, Operation
<1>2. QED
  BY <1>1 DEF Unwind, Step, STEP, Kind, Target

LEMMA PushesType == Pushes \in Seq(STEP)
<1>1. \A s \in Son : Step("push", s, Delete(Point)) \in STEP
  BY OperationTypes DEF Step, STEP, Kind, Target, Delete, Operation
<1>2. \A s \in Son : PushTo(s) \in Seq(STEP)
  BY <1>1 DEF PushTo
<1>3. QED
  BY <1>2 DEF Pushes, Son

-----------------------------------------------------------------------------
(* Type correctness.                                                        *)

LEMMA InitType == Init => TypeOK
<1> SUFFICES ASSUME Init PROVE TypeOK
  OBVIOUS
<1>1. content \in [Son -> SUBSET Point]
  BY DEF Init, Split
<1>2. /\ pending \in [Son -> BOOLEAN] /\ rooted \in BOOLEAN
      /\ spc \in [Searcher -> {"start", "wait", "in", "walk", "done", "crashed"}]
      /\ sat \in [Searcher -> Target \cup {None}]
  BY DEF Init
<1>3. /\ rpc \in RPositions /\ rpc \notin Busy
      /\ mpc \in {"run", "lock", "apply", "inbox", "omp", "crashed"}
      /\ mpc \notin {"lock", "apply", "inbox"}
  BY DEF Init, RPositions, Busy, Copied
<1>4. /\ Rebuild_Logger \in Seq(Operation) /\ ops \in 0 .. MaxOps
      /\ todo \in Seq([kind : Kind, at : Target, op : Operation])
  BY ConstAssumption DEF Init
<1>5. rebuild_flag \in BOOLEAN /\ freed \in BOOLEAN
  BY DEF Init
<1>6. /\ Rebuild_Ptr \in Target \cup {None} 
      /\ working \in {None, "rebuild", "mapper"}
      /\ search_flag \in {None, "mapper"} /\ search_mutex_counter \in Int
      /\ target \in Target \cup {None} /\ new \subseteq Point
      /\ box \subseteq Point /\ found \subseteq Point
      /\ path \subseteq Target /\ old \subseteq Target
      /\ raced \subseteq Races
  BY DEF Init
<1>7. QED
  BY <1>1, <1>2, <1>3, <1>4, <1>5, <1>6 DEF TypeOK

\* A crash changes where the threads are and nothing else.
LEMMA CrashType == TypeOK /\ Crash => TypeOK'
BY DEF Crash, TypeOK, shared, tree, walk, RPositions, Busy, Copied

LEMMA RebuildThreadType == TypeOK /\ RNext => TypeOK'
<1> SUFFICES ASSUME TypeOK, RNext PROVE TypeOK'
  OBVIOUS
<1> USE DEF TypeOK, shared, tree, rvars, mvars, walk, svars, RPositions, Busy, Copied
<1>1. CASE RLockPtr
  BY <1>1 DEF RLockPtr
<1>2. CASE RNoRequest
  BY <1>2 DEF RNoRequest
<1>3. CASE RAccept
  BY <1>3 DEF RAccept
<1>4. ASSUME NEW from, NEW to, LockSearch(from, to),
             from \in Busy, to \in {"flatten", "swap", "emptyswap"}
      PROVE  TypeOK'
  BY <1>4 DEF LockSearch
<1>5. CASE RLockSearch
  BY <1>5, <1>4 DEF RLockSearch
<1>6. CASE RFlatten
  <2>1. \A s \in Son : Below(s) \in SUBSET Point
    BY DEF Below
  <2>2. Map \in SUBSET Point
    BY <2>1 DEF Map
  <2>3. CASE target = Root
    BY <1>6, <2>1, <2>2, <2>3 DEF RFlatten
  <2>4. CASE target # Root
    BY <1>6, <2>4 DEF RFlatten, Target, Busy, Copied
  <2>5. QED
    BY <2>3, <2>4
<1>7. CASE RUnlockSearch
  BY <1>7 DEF RUnlockSearch
<1>8. CASE RRelock
  BY <1>8 DEF RRelock
<1>9. CASE RReplay
  <2>1. Head(Rebuild_Logger) \in Operation /\ Tail(Rebuild_Logger) \in Seq(Operation)
    BY <1>9 DEF RReplay
  <2>2. Perform(new, Head(Rebuild_Logger)) \subseteq Point
    BY <2>1 DEF Perform, Operation
  <2>3. QED
    BY <1>9, <2>1, <2>2 DEF RReplay
<1>10. CASE RLockSearch2
  BY <1>10, <1>4 DEF RLockSearch2
<1>11. CASE RLockSearchEmpty
  BY <1>11, <1>4 DEF RLockSearchEmpty
<1>12. ASSUME NEW S \in SUBSET Point, Replace(S), rpc \in Busy,
              raced' \subseteq Races, rooted' \in BOOLEAN
       PROVE  TypeOK'
  <2>1. Split(S) \in [Son -> SUBSET Point]
    BY DEF Split
  <2>2. content' \in [Son -> SUBSET Point] /\ pending' \in [Son -> BOOLEAN]
    BY <1>12, <2>1 DEF Replace
  <2>3. QED
    BY <1>12, <2>2 DEF Replace
<1>13. CASE RSwap
  BY <1>13, <1>12 DEF RSwap
<1>14. CASE REmptyCrash \/ RLostRequest
  BY <1>14, CrashType DEF REmptyCrash, RLostRequest
<1>15. CASE REmptySwap
  BY <1>15, <1>12 DEF REmptySwap, Races
<1>16. CASE RFinish
  BY <1>16 DEF RFinish
<1>17. CASE RClearFlag
  BY <1>17 DEF RClearFlag
<1>18. CASE RDelete
  BY <1>18 DEF RDelete
<1>19. QED
  BY <1>1, <1>2, <1>3, <1>5, <1>6, <1>7, <1>8, <1>9, <1>10, <1>11, <1>13,
     <1>14, <1>15, <1>16, <1>17, <1>18 DEF RNext

\* The steps the mapper takes.
LEMMA HereType == todo \in Seq(STEP) /\ todo # <<>> =>
                       /\ Here \in STEP /\ Tail(todo) \in Seq(STEP)
                       /\ Here.at \in Target /\ Here.kind \in Kind
                       /\ Here.op \in Operation
<1> SUFFICES ASSUME todo \in Seq(STEP), todo # <<>>
             PROVE  Here \in STEP /\ Tail(todo) \in Seq(STEP)
  BY DEF Here, STEP
<1>1. QED
  BY DEF Here

LEMMA ActType ==
  ASSUME TypeOK, NEW at \in Target, NEW op \in Operation, Act(at, op)
  PROVE  content' \in [Son -> SUBSET Point] /\ pending' \in [Son -> BOOLEAN]
<1> USE DEF TypeOK
<1>1. op.del \subseteq Point /\ op.add \subseteq Point
  BY DEF Operation
<1>2. \A s \in Son : /\ (Below(s) \ op.del) \cup Split(op.add)[s] \subseteq Point
                     /\ Perform(content[s], op) \subseteq Point
  BY <1>1 DEF Below, Split, Perform
<1>3. pending' \in [Son -> BOOLEAN]
  BY DEF Act
<1>4. CASE at = Root
  BY <1>2, <1>3, <1>4 DEF Act
<1>5. CASE at # Root
  BY <1>2, <1>3, <1>5 DEF Act, Target
<1>6. QED
  BY <1>4, <1>5

LEMMA RequestType ==
  ASSUME TypeOK, NEW steps \in Seq(STEP), Request(steps),
         content' \in [Son -> SUBSET Point], pending' \in [Son -> BOOLEAN],
         rooted' \in BOOLEAN,
         box' \subseteq Point, path' \subseteq Target, old' \subseteq Target,
         UNCHANGED freed
  PROVE  TypeOK'
<1>1. ops' \in 0 .. MaxOps
  BY ConstAssumption DEF TypeOK, Request
<1>2. QED
  BY <1>1 DEF TypeOK, Request, Ready, shared, rvars, svars, RPositions, Busy, Copied,
    STEP

LEMMA WithdrawnType == Withdrawn \subseteq Races /\ (rpc \notin Busy => Withdrawn = {})
BY DEF Withdrawn, Races

LEMMA MapperType == TypeOK /\ MNext => TypeOK'
<1> SUFFICES ASSUME TypeOK, MNext PROVE TypeOK'
  OBVIOUS
<1> USE DEF shared, tree, rvars, mvars, walk, svars
<1>0. /\ todo \in Seq(STEP)
      /\ \A t \in Target, k \in Kind, op \in Operation :
           Step(k, t, op) \in STEP /\ Both(k, op) \in Seq(STEP)
      /\ Unwind \in STEP /\ Nothing \in Operation /\ Pushes \in Seq(STEP)
  BY StepTypes, UnwindType, PushesType DEF TypeOK, STEP
<1>1. CASE MScan
  BY <1>1 DEF MScan, TypeOK, RPositions, Busy, Copied
<1>2. CASE MJoin
  BY <1>2 DEF MJoin, TypeOK, RPositions, Busy, Copied
<1>3. ASSUME NEW B \in Box, MDeleteBox(B) PROVE TypeOK'
  <2>1. Delete(B) \in Operation
    BY ConstAssumption, OperationTypes
  <2>2. /\ <<Step("op", Root, Delete(B))>> \in Seq(STEP)
        /\ Pushes \o Both("op", Delete(B)) \o <<Unwind>> \in Seq(STEP)
        /\ <<>> \in Seq(STEP)
    BY <1>0, <2>1, StepSequences DEF Target, Kind, Root
  <2>3. [s \in Son |-> rooted] \in [Son -> BOOLEAN]
    BY DEF TypeOK
  <2>4. /\ content' \in [Son -> SUBSET Point] /\ pending' \in [Son -> BOOLEAN]
        /\ rooted' \in BOOLEAN
        /\ box' \subseteq Point /\ path' \subseteq Target /\ old' \subseteq Target
        /\ UNCHANGED freed
    BY <1>3, <2>3 DEF MDeleteBox, TypeOK
  <2>5. \E steps \in Seq(STEP) : Request(steps)
    BY <1>3, <2>2 DEF MDeleteBox
  <2>6. QED
    BY <2>4, <2>5, RequestType
<1>4. ASSUME NEW p \in Point, NEW op \in Operation, MPoint(p, op) PROVE TypeOK'
  <2>1. SonOf[p] \in Target
    BY ConstAssumption DEF Target
  <2>2. /\ <<Step("op", Root, op)>> \in Seq(STEP)
        /\ Pushes \o <<Step("op", SonOf[p], op), Unwind>> \in Seq(STEP)
        /\ <<>> \in Seq(STEP)
    BY <1>0, <2>1, StepSequences DEF Target, Kind, Root
  <2>3. \E steps \in Seq(STEP) : Request(steps)
    BY <1>4, <2>2 DEF MPoint
  <2>4. /\ content' \in [Son -> SUBSET Point] /\ pending' \in [Son -> BOOLEAN]
        /\ rooted' \in BOOLEAN
        /\ box' \subseteq Point /\ path' \subseteq Target /\ old' \subseteq Target
        /\ UNCHANGED freed
    BY <1>4 DEF MPoint, TypeOK
  <2>5. QED
    BY <2>3, <2>4, RequestType
<1>5. ASSUME NEW V \in Voxel, NEW p \in V, MDownsample(p, V) PROVE TypeOK'
  <2>1. V \subseteq Point /\ p \in Point
    BY ConstAssumption
  <2>2. Add(p) \in Operation
    BY <2>1, OperationTypes
  <2>3. Pushes \o Both("search", Nothing) \o <<Step("decide", Root, Add(p))>>
          \in Seq(STEP)
    BY <1>0, <2>2, StepSequences DEF Target, Kind, Root
  <2>4. /\ content' \in [Son -> SUBSET Point] /\ pending' \in [Son -> BOOLEAN]
        /\ rooted' \in BOOLEAN
        /\ box' \subseteq Point /\ path' \subseteq Target /\ old' \subseteq Target
        /\ UNCHANGED freed
    BY <1>5, <2>1 DEF MDownsample, TypeOK, Target
  <2>5. Request(Pushes \o Both("search", Nothing) \o <<Step("decide", Root, Add(p))>>)
    BY <1>5 DEF MDownsample
  <2>6. QED
    BY <2>3, <2>4, <2>5, RequestType
<1>6. CASE MSearchLock
  <2>1. Here.at \in Target /\ Here \in STEP
    BY <1>0, <1>6, HereType DEF MSearchLock, At
  <2>2. QED
    BY <1>6, <2>1 DEF MSearchLock, At, TypeOK, STEP
<1>7. CASE MSearchUnlock
  <2>1. Tail(todo) \in Seq(STEP)
    BY <1>0, <1>7, HereType DEF MSearchUnlock, TypeOK
  <2>2. QED
    BY <1>7, <2>1 DEF MSearchUnlock, TypeOK, STEP
<1>8. CASE MSearch
  <2>1. Tail(todo) \in Seq(STEP)
    BY <1>0, <1>8, HereType DEF MSearch, At
  <2>2. QED
    BY <1>8, <2>1 DEF MSearch, At, TypeOK, STEP
<1>9. ASSUME NEW r \in Point, MDecide(r) PROVE TypeOK'
  <2> DEFINE remove == IF found = {} THEN {} ELSE box
             op     == [del |-> remove, add |-> {r}]
             visit  == IF found = {} THEN <<>>
                       ELSE Both("op", Delete(box)) \o <<Unwind>>
             add    == <<Step("op", SonOf[r], Add(r)), Unwind>>
  <2>1. op \in Operation
    BY DEF TypeOK, Operation
  <2>2. <<Step("op", Root, op)>> \in Seq(STEP)
    BY <1>0, <2>1, StepSequences DEF Target, Kind, Root
  <2>3. visit \in Seq(STEP)
    <3>1. Delete(box) \in Operation
      BY OperationTypes DEF TypeOK
    <3>2. Both("op", Delete(box)) \o <<Unwind>> \in Seq(STEP)
      BY <1>0, <3>1, StepSequences DEF Target, Kind, Root
    <3>3. QED
      BY <3>2, StepSequences
  <2>4. add \in Seq(STEP)
    <3>1. Add(r) \in Operation /\ SonOf[r] \in Target
      BY OperationTypes, ConstAssumption DEF Target
    <3>2. QED
      BY <1>0, <3>1, StepSequences DEF Target, Kind
  <2>5. visit \o add \in Seq(STEP)
    BY <2>3, <2>4, StepSequences
  <2>6. todo' \in {<<>>, <<Step("op", Root, op)>>, visit \o add}
    BY <1>9 DEF MDecide
  <2>7. todo' \in Seq(STEP)
    BY <2>2, <2>5, <2>6, StepSequences
  <2>8. QED
    BY <1>9, <2>7 DEF MDecide, At, TypeOK, STEP
<1>10. CASE MVisit
  <2>1. /\ Here.at \in Target /\ Here.op \in Operation
        /\ Tail(todo) \in Seq(STEP)
    BY <1>0, <1>10, HereType DEF MVisit, At
  <2>2. content' \in [Son -> SUBSET Point] /\ pending' \in [Son -> BOOLEAN]
    BY <1>10, <2>1, ActType DEF MVisit
  <2>3. Rebuild_Ptr' \in Target \cup {None} /\ raced' \subseteq Races
    BY <1>10, <2>1 DEF MVisit, TryRebuild, TypeOK, Races
  <2>4. QED
    BY <1>10, <2>1, <2>2, <2>3 DEF MVisit, Act, At, TypeOK, STEP
<1>11. CASE MVisitTarget
  BY <1>11 DEF MVisitTarget, At, TypeOK
<1>12. CASE MLock
  BY <1>12 DEF MLock, TypeOK
<1>13. CASE MApply
  <2>1. /\ Here.at \in Target /\ Here.op \in Operation
        /\ Tail(todo) \in Seq(STEP)
    BY <1>0, <1>13, HereType DEF MApply, TypeOK
  <2>2. content' \in [Son -> SUBSET Point] /\ pending' \in [Son -> BOOLEAN]
    BY <1>13, <2>1, ActType DEF MApply
  <2>3. Rebuild_Logger' \in Seq(Operation) /\ raced' \subseteq Races
    BY <1>13, <2>1, WithdrawnType DEF MApply, TypeOK, Races
  <2>5. Rebuild_Ptr' \in Target \cup {None}
    BY <1>13 DEF MApply, Withdraw, TypeOK
  <2>4. QED
    BY <1>13, <2>1, <2>2, <2>3, <2>5 DEF MApply, Act, TypeOK, STEP
<1>14. CASE MUnwind
  <2>1. Tail(todo) \in Seq(STEP)
    BY <1>0, <1>14, HereType DEF MUnwind, At
  <2>2. Rebuild_Ptr' \in Target \cup {None} /\ raced' \subseteq Races
    BY <1>14, WithdrawnType DEF MUnwind, TryRebuild, Withdraw, TypeOK, Target
  <2>3. QED
    BY <1>14, <2>1, <2>2 DEF MUnwind, At, TypeOK, STEP
<1>15. CASE MUnwindEmpty
  <2>1. Tail(todo) \in Seq(STEP)
    BY <1>0, <1>15, HereType DEF MUnwindEmpty, At
  <2>2. Rebuild_Ptr' \in Target \cup {None} /\ raced' \subseteq Races
    BY <1>15, WithdrawnType DEF MUnwindEmpty, TypeOK
  <2>3. /\ content' \in [Son -> SUBSET Point] /\ pending' \in [Son -> BOOLEAN]
        /\ rooted' \in BOOLEAN
    BY <1>15 DEF MUnwindEmpty
  <2>4. QED
    BY <1>15, <2>1, <2>2, <2>3 DEF MUnwindEmpty, At, TypeOK, STEP
<1>16. ASSUME NEW S \in SUBSET Point, MBuild(S) PROVE TypeOK'
  <2>1. /\ content' \in [Son -> SUBSET Point] /\ pending' \in [Son -> BOOLEAN]
        /\ rooted' \in BOOLEAN
        /\ box' \subseteq Point /\ path' \subseteq Target /\ old' \subseteq Target
        /\ UNCHANGED freed
    BY <1>16 DEF MBuild, TypeOK, Split
  <2>2. Request(<<>>) /\ <<>> \in Seq(STEP)
    BY <1>16 DEF MBuild
  <2>3. QED
    BY <2>1, <2>2, RequestType
<1>17. CASE MNullRoot
  BY <1>17, CrashType DEF MNullRoot
<1>18. QED
  BY <1>1, <1>2, <1>3, <1>4, <1>5, <1>6, <1>7, <1>8, <1>9, <1>10, <1>11,
     <1>12, <1>13, <1>14, <1>15, <1>16, <1>17, OperationTypes, ConstAssumption DEF MNext

LEMMA SearchType == TypeOK /\ SNext => TypeOK'
<1> SUFFICES ASSUME TypeOK, NEW i \in Searcher,
                    SVisit(i) \/ SEnter(i) \/ SLeave(i) \/ SWalkEnd(i) \/ SDone(i)
             PROVE  TypeOK'
  BY DEF SNext
<1> USE DEF shared, tree, rvars, mvars, walk, MoveSearcher
<1>1. CASE SVisit(i)
  BY <1>1 DEF SVisit, TypeOK
<1>2. CASE SEnter(i)
  <2>1. sat[i] \in Target \cup {None}
    BY DEF TypeOK
  <2>2. search_mutex_counter' \in Int
    BY <1>2 DEF SEnter, TypeOK
  <2>3. QED
    BY <1>2, <2>1, <2>2 DEF SEnter, TypeOK
<1>3. CASE SLeave(i)
  <2>1. search_mutex_counter' \in Int
    BY <1>3 DEF SLeave, TypeOK
  <2>2. QED
    BY <1>3, <2>1 DEF SLeave, TypeOK
<1>4. CASE SWalkEnd(i)
  BY <1>4 DEF SWalkEnd, TypeOK
<1>5. CASE SDone(i)
  BY <1>5 DEF SDone, TypeOK
<1>6. QED
  BY <1>1, <1>2, <1>3, <1>4, <1>5

LEMMA StutterType == TypeOK /\ UNCHANGED vars => TypeOK'
BY DEF TypeOK, vars, shared, tree, rvars, mvars, walk, svars

\* Every variable keeps its type: in particular the log holds operations, the
\* map holds points, and a running rebuild has a target.
THEOREM TypeCorrect == Spec => []TypeOK
<1>1. TypeOK /\ [Next]_vars => TypeOK'
  BY RebuildThreadType, MapperType, SearchType, StutterType DEF Next, Down
<1>2. QED
  BY InitType, <1>1, PTL DEF Spec

-----------------------------------------------------------------------------
(* Searches and the counter.                                                *)

Counted == {i \in Searcher : spc[i] = "in"}

\* The target is the request from its acceptance to the end of the swap, unless
\* the request is withdrawn, and then the history tells.
TargetIsRequest ==
  rpc \in Busy => \/ target = Rebuild_Ptr
                  \/ Rebuild_Ptr = None /\ "withdrawn" \in raced

\* Searches run only while the mapper waits for them.
SearchInScan == mpc # "omp" => \A i \in Searcher : spc[i] \in {"done", "crashed"}

\* A search that took no lock is in a son the rebuild thread is not working
\* on: nobody requests a rebuild during a scan.
WalkAside == \A i \in Searcher :
  spc[i] = "walk" => /\ sat[i] \in Son
                     /\ Rebuild_Ptr # sat[i] /\ Rebuild_Ptr # Root

\* The counter counts the searches in the target, or it is -1 and there are
\* none.
CounterCounts ==
  /\ rpc \in Exclusive => Counted = {} /\ search_mutex_counter = -1
  /\ rpc \notin Exclusive \cup {"crashed"} =>
       search_mutex_counter = Cardinality(Counted)

SearchInv ==
  /\ TypeOK
  /\ TargetIsRequest
  /\ SearchInScan
  /\ WalkAside
  /\ CounterCounts

-----------------------------------------------------------------------------
LEMMA CountedFinite == IsFiniteSet(Counted) /\ Cardinality(Counted) \in Nat
<1>1. Counted \subseteq Searcher
  BY DEF Counted
<1>2. QED
  BY <1>1, ConstAssumption, FS_Subset, FS_CardinalityType

LEMMA NoneCounted == Cardinality(Counted) = 0 => Counted = {}
BY CountedFinite, FS_EmptySet

LEMMA InitSearch == Init => SearchInv
<1> SUFFICES ASSUME Init PROVE SearchInv
  OBVIOUS
<1>1. TypeOK
  BY InitType
<1>2. rpc = "idle" /\ search_mutex_counter = 0
      /\ \A i \in Searcher : spc[i] = "done"
  BY DEF Init
<1>3. Counted = {}
  BY <1>2 DEF Counted
<1>4. TargetIsRequest /\ SearchInScan /\ WalkAside
  BY <1>2 DEF TargetIsRequest, SearchInScan, WalkAside, Busy, Copied
<1>5. CounterCounts
  BY <1>2, <1>3, FS_EmptySet DEF CounterCounts, Exclusive
<1>6. QED
  BY <1>1, <1>4, <1>5 DEF SearchInv

LEMMA CrashSearch == SearchInv /\ Crash => SearchInv'
<1> SUFFICES ASSUME SearchInv, Crash PROVE SearchInv'
  OBVIOUS
<1>1. TypeOK'
  BY CrashType DEF SearchInv
<1>2. rpc' = "crashed" /\ \A i \in Searcher : spc'[i] = "crashed"
  BY DEF Crash
<1>3. TargetIsRequest' /\ SearchInScan' /\ WalkAside' /\ CounterCounts'
  BY <1>2 DEF TargetIsRequest, SearchInScan, WalkAside, CounterCounts, Exclusive,
    Busy, Copied
<1>4. QED
  BY <1>1, <1>3 DEF SearchInv

\* The rebuild thread waits for the counter to be zero before each of the two
\* stretches in which it works on the target.
LEMMA RebuildSearch == SearchInv /\ RNext => SearchInv'
<1> SUFFICES ASSUME SearchInv, RNext PROVE SearchInv'
  OBVIOUS
<1> USE DEF SearchInv, shared, tree, rvars, mvars, walk, svars
<1>1. TypeOK'
  BY RebuildThreadType
<1>2. TargetIsRequest'
  BY DEF TargetIsRequest, Busy, Copied, RNext, RLockPtr, RNoRequest, RAccept,
    LockSearch,
    RLockSearch, RFlatten, RUnlockSearch, RRelock, RReplay, RLockSearch2,
    RLockSearchEmpty, Replace, RSwap, REmptyCrash, REmptySwap, RLostRequest, Crash,
    RFinish,
    RClearFlag, RDelete
<1>3. CASE Crash
  BY <1>3, CrashSearch
<1>4. CASE ~Crash
  <2>1. UNCHANGED <<mpc, spc, sat>> /\ Rebuild_Ptr' \in {Rebuild_Ptr, None}
    BY <1>4 DEF RNext, RLockPtr, RNoRequest, RAccept, LockSearch,
      RLockSearch, RFlatten, RUnlockSearch, RRelock, RReplay, RLockSearch2,
      RLockSearchEmpty, Replace, RSwap, REmptyCrash, REmptySwap, RLostRequest,
      RFinish, RClearFlag, RDelete
  <2>2. SearchInScan' /\ WalkAside' /\ Counted' = Counted
    BY <2>1 DEF SearchInScan, WalkAside, Counted, None, Root, Son
  <2> SUFFICES CounterCounts'
    BY <1>1, <1>2, <2>2
  <2>3. ASSUME NEW from, NEW to, LockSearch(from, to),
               from \notin Exclusive \cup {"crashed"}, to \in Exclusive
        PROVE  CounterCounts'
    <3>1. Cardinality(Counted) = 0
      BY <2>3 DEF LockSearch, CounterCounts
    <3>2. QED
      BY <2>2, <2>3, <3>1, NoneCounted DEF LockSearch, CounterCounts
  <2>4. CASE RLockSearch \/ RLockSearch2 \/ RLockSearchEmpty
    BY <2>3, <2>4 DEF RLockSearch, RLockSearch2, RLockSearchEmpty, Exclusive
  <2>5. CASE RFlatten \/ RSwap \/ REmptySwap
    BY <2>2, <2>5 DEF RFlatten, RSwap, REmptySwap, Replace, CounterCounts, Exclusive
  <2>6. CASE RUnlockSearch \/ RFinish
    <3>1. Counted = {} /\ search_mutex_counter' = 0 /\ rpc' \notin Exclusive
      BY <2>6 DEF RUnlockSearch, RFinish, CounterCounts, Exclusive
    <3>2. QED
      BY <2>2, <3>1, FS_EmptySet DEF CounterCounts
  <2>7. CASE \/ RLockPtr \/ RNoRequest \/ RAccept \/ RRelock \/ RReplay
             \/ RClearFlag \/ RDelete
    BY <2>2, <2>7 DEF RLockPtr, RNoRequest, RAccept, RRelock, RReplay,
      RClearFlag, RDelete, CounterCounts, Exclusive
  <2>8. QED
    BY <1>4, <2>4, <2>5, <2>6, <2>7 DEF RNext, REmptyCrash, RLostRequest
<1>5. QED
  BY <1>3, <1>4

\* The mapper requests rebuilds only between scans and while the rebuild
\* thread is idle, and withdraws them at any time but during a scan.
LEMMA MapperSearch == SearchInv /\ MNext => SearchInv'
<1> SUFFICES ASSUME SearchInv, MNext, ~Crash PROVE SearchInv'
  BY CrashSearch
<1> USE DEF SearchInv, shared, tree, rvars, mvars, walk, svars
<1>1. TypeOK'
  BY MapperType
<1>2. UNCHANGED <<rpc, target, sat, search_mutex_counter>>
  BY DEF MNext, MScan, MJoin, MDeleteBox, MPoint, MDownsample, Request,
    MSearchLock, MSearchUnlock, MSearch, MDecide, MVisit, MVisitTarget, MLock,
    MApply, MUnwind, MUnwindEmpty, MBuild, MNullRoot
<1>3. /\ raced \subseteq raced'
      /\ \/ Rebuild_Ptr' = Rebuild_Ptr
         \/ rpc = "idle"
         \/ Rebuild_Ptr' = None /\ (rpc \in Busy => "withdrawn" \in raced')
  <2>1. CASE MApply \/ MUnwind \/ MUnwindEmpty
    BY <2>1 DEF MApply, MUnwind, MUnwindEmpty, TryRebuild, Withdraw, Withdrawn
  <2>2. CASE MVisit
    BY <2>2 DEF MVisit, TryRebuild
  <2>3. CASE ~(MApply \/ MUnwind \/ MUnwindEmpty \/ MVisit)
    BY <2>3 DEF MNext, MScan, MJoin, MDeleteBox, MPoint, MDownsample, Request,
      MSearchLock, MSearchUnlock, MSearch, MDecide, MVisitTarget, MLock, MBuild,
      MNullRoot
  <2>4. QED
    BY <2>1, <2>2, <2>3
<1>4. TargetIsRequest'
  BY <1>2, <1>3 DEF TargetIsRequest, Busy, Copied
<1>5. CASE MScan
  <2>1. /\ mpc = "run" /\ mpc' = "omp" /\ Rebuild_Ptr' = Rebuild_Ptr
        /\ \A i \in Searcher : spc'[i] = "start"
    BY <1>5 DEF MScan, Ready
  <2>2. Counted = {} /\ Counted' = {}
    BY <2>1 DEF SearchInScan, Counted
  <2>3. SearchInScan' /\ WalkAside' /\ CounterCounts'
    BY <1>2, <2>1, <2>2 DEF SearchInScan, WalkAside, CounterCounts
  <2>4. QED
    BY <1>1, <1>4, <2>3
<1>6. CASE MJoin
  <2>1. /\ \A i \in Searcher : spc[i] = "done"
        /\ UNCHANGED <<spc, Rebuild_Ptr>>
    BY <1>6 DEF MJoin
  <2>2. SearchInScan' /\ WalkAside' /\ CounterCounts'
    BY <1>2, <2>1 DEF SearchInScan, WalkAside, CounterCounts, Counted
  <2>3. QED
    BY <1>1, <1>4, <2>2
<1>7. CASE ~MScan /\ ~MJoin
  <2>1. mpc # "omp" /\ mpc' # "omp" /\ spc' = spc
    BY <1>7 DEF MNext, MDeleteBox, MPoint, MDownsample, Request, Ready, At,
      MSearchLock, MSearchUnlock, MSearch, MDecide, MVisit, MVisitTarget, MLock,
      MApply, MUnwind, MUnwindEmpty, MBuild, MNullRoot, Crash, Withdraw
  <2>2. SearchInScan' /\ WalkAside' /\ CounterCounts'
    BY <1>2, <2>1 DEF SearchInScan, WalkAside, CounterCounts, Counted
  <2>3. QED
    BY <1>1, <1>4, <2>2
<1>8. QED
  BY <1>5, <1>6, <1>7

\* A search that sees the target is counted, and it waits while the counter is
\* -1; a search that does not see it goes elsewhere.
LEMMA SearcherSearch == SearchInv /\ SNext => SearchInv'
<1> SUFFICES ASSUME SearchInv, NEW i \in Searcher,
                    SVisit(i) \/ SEnter(i) \/ SLeave(i) \/ SWalkEnd(i) \/ SDone(i)
             PROVE  SearchInv'
  BY DEF SNext
<1> USE DEF SearchInv, shared, tree, rvars, mvars, walk, MoveSearcher
<1>1. TypeOK'
  BY SearchType DEF SNext
<1>2. UNCHANGED <<rpc, target, mpc, Rebuild_Ptr, raced>>
  BY DEF SVisit, SEnter, SLeave, SWalkEnd, SDone
<1>3. mpc = "omp"
  BY DEF SearchInScan, SVisit, SEnter, SLeave, SWalkEnd, SDone
<1>4. TargetIsRequest' /\ SearchInScan'
  BY <1>2, <1>3 DEF TargetIsRequest, SearchInScan
<1>5. spc \in [Searcher -> {"start", "wait", "in", "walk", "done", "crashed"}]
      /\ sat \in [Searcher -> Target \cup {None}]
  BY DEF TypeOK
<1>6. WalkAside'
  <2>1. CASE SVisit(i)
    <3>1. PICK t \in Target :
            /\ t = Root <=> Rebuild_Ptr = Root
            /\ MoveSearcher(i, IF Rebuild_Ptr = t THEN "wait" ELSE "walk", t)
      BY <2>1 DEF SVisit
    <3>2. spc'[i] = "walk" => t \in Son /\ Rebuild_Ptr # t /\ Rebuild_Ptr # Root
      BY <3>1, <1>5 DEF Target
    <3>3. QED
      BY <1>2, <1>5, <3>1, <3>2 DEF WalkAside
  <2>2. CASE ~SVisit(i)
    BY <1>2, <1>5, <2>2 DEF WalkAside, SEnter, SLeave, SWalkEnd, SDone
  <2>3. QED
    BY <2>1, <2>2
<1>7. CounterCounts'
  <2>1. CASE SEnter(i)
    <3>1. rpc \notin Exclusive /\ i \notin Counted
      BY <2>1 DEF SEnter, CounterCounts, Counted
    <3>2. Counted' = Counted \cup {i}
      BY <2>1, <1>5 DEF SEnter, Counted
    <3>3. Cardinality(Counted') = Cardinality(Counted) + 1
      BY <3>1, <3>2, CountedFinite, FS_AddElement
    <3>4. QED
      BY <1>2, <2>1, <3>1, <3>3 DEF CounterCounts, SEnter
  <2>2. CASE SLeave(i)
    <3>1. rpc \notin Exclusive /\ i \in Counted
      BY <2>2 DEF SLeave, CounterCounts, Counted
    <3>2. Counted' = Counted \ {i}
      BY <2>2, <1>5 DEF SLeave, Counted
    <3>3. Cardinality(Counted') = Cardinality(Counted) - 1
      BY <3>1, <3>2, CountedFinite, FS_RemoveElement
    <3>4. QED
      BY <1>2, <2>2, <3>1, <3>3 DEF CounterCounts, SLeave
  <2>3. CASE SVisit(i) \/ SWalkEnd(i) \/ SDone(i)
    <3>1. Counted' = Counted /\ search_mutex_counter' = search_mutex_counter
      BY <2>3, <1>5 DEF SVisit, SWalkEnd, SDone, Counted
    <3>2. QED
      BY <1>2, <3>1 DEF CounterCounts
  <2>4. QED
    BY <2>1, <2>2, <2>3
<1>8. QED
  BY <1>1, <1>4, <1>6, <1>7

LEMMA StutterSearch == SearchInv /\ UNCHANGED vars => SearchInv'
BY StutterType DEF SearchInv, TargetIsRequest, SearchInScan, WalkAside,
  CounterCounts, Counted, vars, shared, tree, rvars, mvars, walk, svars

LEMMA SearchInvariant == Spec => []SearchInv
<1>1. SearchInv /\ [Next]_vars => SearchInv'
  BY RebuildSearch, MapperSearch, SearcherSearch, StutterSearch DEF Next, Down
<1>2. QED
  BY InitSearch, <1>1, PTL DEF Spec

\* No search is inside the target while it is copied or replaced, neither a
\* counted one nor one that took no lock, unless its request was withdrawn.
THEOREM SearchesExcluded == Spec => []SearchExclusion
<1>1. SearchInv => SearchExclusion
  <2> SUFFICES ASSUME SearchInv, rpc \in Exclusive, Rebuild_Ptr # None,
                      NEW i \in Searcher
               PROVE  /\ spc[i] # "in"
                      /\ spc[i] = "walk" => sat[i] \notin Cover(target) \cup {target}
    BY DEF SearchExclusion, NoSearchInside
  <2>1. spc[i] # "in"
    BY DEF SearchInv, CounterCounts, Counted
  <2>2. target = Rebuild_Ptr
    BY DEF SearchInv, TargetIsRequest, Exclusive, Busy, Copied
  <2>3. QED
    BY <2>1, <2>2 DEF SearchInv, WalkAside, Cover
<1>2. QED
  BY SearchInvariant, <1>1, PTL

-----------------------------------------------------------------------------
(* The log and the copy.                                                    *)

\* The mapper logs from the acceptance of a request to RClearFlag.
FlagWhileBusy ==
  rpc # "crashed" => (rebuild_flag <=> rpc \in Busy \cup {"flag"})

\* The rebuild thread copies, takes from the log and swaps with
\* working_flag_mutex in hand; the swap of an empty copy is not among these.
RebuildHolds ==
  rpc \in {"drain1", "flatten", "open1", "replay", "swap"} => working = "rebuild"

\* The mapper owns the mutex when it operates on the target, unless the swap of
\* an empty copy took it away.
MapperHolds ==
  mpc = "apply" => \/ working = "mapper"
                   \/ Rebuild_Ptr = None /\ rpc \notin Busy

\* Root_Node is null after the request for it was dropped, or while it is being
\* dropped.
NullIdle == ~rooted => Rebuild_Ptr = None \/ rpc \in {"open2", "crashed"}

\* The mapper operates under the mutex on nothing but the request.
AtTarget == mpc \in {"lock", "apply"} => Rebuild_Ptr \in {Here.at, None}

\* An operation on the whole tree is a request's only step, and no request for
\* a son can be made before it is done.
Aside == {x \in STEP : x.kind \in {"op", "push"} => x.at \in Son}
RootAlone ==
  \/ todo \in Seq(Aside)
  \/ Len(todo) = 1 /\ Rebuild_Ptr \in {Root, None}

EmptyCopy == rpc \in {"empty", "emptyswap"} => new = {}

\* The log is empty but between the copy and the end of the replay.
LogEmpty ==
  raced = {} /\ rpc \notin {"relock", "replay", "empty", "emptyswap", "crashed"} =>
    Rebuild_Logger = <<>>

ReplayInv ==
  /\ SearchInv
  /\ FlagWhileBusy
  /\ RebuildHolds
  /\ MapperHolds
  /\ NullIdle
  /\ AtTarget
  /\ RootAlone
  /\ EmptyCopy
  /\ LogEmpty
  /\ ReplayCatchesUp

-----------------------------------------------------------------------------
(* What a log does to a set of points.                                      *)

LEMMA ReplayNothing ==
  ASSUME NEW S \in SUBSET Point
  PROVE  Replayed(S, <<>>) = S
BY DEF Replayed

LEMMA ReplayAppended ==
  ASSUME NEW S \in SUBSET Point, NEW log \in Seq(Operation), NEW op \in Operation
  PROVE  Replayed(S, Append(log, op)) = Perform(Replayed(S, log), op)
<1> DEFINE log2 == Append(log, op)
<1>1. /\ log2 \in Seq(Operation) /\ Len(log) \in Nat /\ Len(log2) = Len(log) + 1
      /\ log2[Len(log) + 1] = op
      /\ \A i \in 1 .. Len(log) : log2[i] = log[i]
      /\ DOMAIN log = 1 .. Len(log) /\ DOMAIN log2 = 1 .. Len(log) + 1
  OBVIOUS
<1>2. op.add \subseteq Point
  BY DEF Operation
<1> HIDE DEF log2
<1>3. ASSUME NEW p \in Replayed(S, log2) PROVE p \in Perform(Replayed(S, log), op)
  BY <1>1, <1>3 DEF Replayed, Perform
<1>4. ASSUME NEW p \in Perform(Replayed(S, log), op) PROVE p \in Replayed(S, log2)
  <2>1. CASE p \in op.add
    BY <1>1, <1>2, <2>1 DEF Replayed
  <2>2. CASE p \notin op.add
    <3>1. p \in Replayed(S, log) /\ p \notin op.del
      BY <1>4, <2>2 DEF Perform
    <3>2. QED
      BY <1>1, <3>1 DEF Replayed
  <2>3. QED
    BY <2>1, <2>2
<1>5. QED
  BY <1>3, <1>4 DEF log2

LEMMA ReplayFirst ==
  ASSUME NEW S \in SUBSET Point, NEW log \in Seq(Operation), log # <<>>
  PROVE  Replayed(Perform(S, Head(log)), Tail(log)) = Replayed(S, log)
<1> DEFINE op == Head(log)
           rest == Tail(log)
<1>1. /\ rest \in Seq(Operation) /\ Len(log) \in Nat \ {0}
      /\ op = log[1] /\ op \in Operation
      /\ \A i \in 1 .. Len(log) - 1 : rest[i] = log[i + 1]
      /\ DOMAIN log = 1 .. Len(log) /\ DOMAIN rest = 1 .. Len(log) - 1
  OBVIOUS
<1>2. op.add \subseteq Point
  BY <1>1 DEF Operation
<1> HIDE DEF op, rest
<1>3. \A j \in 2 .. Len(log) : j - 1 \in 1 .. Len(log) - 1 /\ rest[j - 1] = log[j]
  BY <1>1
<1>4. ASSUME NEW p \in Replayed(Perform(S, op), rest) PROVE p \in Replayed(S, log)
  <2>1. CASE \E i \in DOMAIN rest :
               /\ p \in rest[i].add
               /\ \A j \in DOMAIN rest : j > i => p \notin rest[j].del
    <3>1. PICK i \in DOMAIN rest :
               /\ p \in rest[i].add
               /\ \A j \in DOMAIN rest : j > i => p \notin rest[j].del
      BY <2>1
    <3>2. i + 1 \in DOMAIN log /\ p \in log[i + 1].add
      BY <1>1, <3>1
    <3>3. ASSUME NEW j \in DOMAIN log, j > i + 1 PROVE p \notin log[j].del
      <4>1. j - 1 \in DOMAIN rest /\ j - 1 > i /\ rest[j - 1] = log[j]
        BY <1>1, <1>3, <3>3
      <4>2. QED
        BY <3>1, <4>1
    <3>4. QED
      BY <1>4, <3>2, <3>3 DEF Replayed
  <2>2. CASE p \in Perform(S, op) /\ \A j \in DOMAIN rest : p \notin rest[j].del
    <3>1. \A j \in DOMAIN log : j > 1 => p \notin log[j].del
      BY <1>1, <1>3, <2>2
    <3>2. CASE p \in op.add
      BY <1>1, <1>4, <3>1, <3>2 DEF Replayed
    <3>3. CASE p \in S /\ p \notin op.del
      BY <1>1, <1>4, <3>1, <3>3 DEF Replayed
    <3>4. QED
      BY <2>2, <3>2, <3>3 DEF Perform
  <2>3. QED
    BY <1>4, <2>1, <2>2 DEF Replayed
<1>5. ASSUME NEW p \in Replayed(S, log) PROVE p \in Replayed(Perform(S, op), rest)
  <2>1. CASE \E i \in DOMAIN log :
               /\ p \in log[i].add
               /\ \A j \in DOMAIN log : j > i => p \notin log[j].del
    <3>1. PICK i \in DOMAIN log :
               /\ p \in log[i].add
               /\ \A j \in DOMAIN log : j > i => p \notin log[j].del
      BY <2>1
    <3>2. ASSUME NEW j \in DOMAIN rest, j > i - 1 PROVE p \notin rest[j].del
      <4>1. j + 1 \in DOMAIN log /\ j + 1 > i /\ rest[j] = log[j + 1]
        BY <1>1, <3>2
      <4>2. QED
        BY <3>1, <4>1
    <3>3. CASE i = 1
      BY <1>1, <1>5, <3>1, <3>2, <3>3 DEF Replayed, Perform
    <3>4. CASE i > 1
      <4>1. i - 1 \in DOMAIN rest /\ p \in rest[i - 1].add
        BY <1>1, <3>1, <3>4
      <4>2. QED
        BY <1>5, <3>2, <4>1 DEF Replayed
    <3>5. QED
      BY <1>1, <3>1, <3>3, <3>4
  <2>2. CASE p \in S /\ \A j \in DOMAIN log : p \notin log[j].del
    BY <1>1, <1>5, <2>2 DEF Replayed, Perform
  <2>3. QED
    BY <1>5, <2>1, <2>2 DEF Replayed
<1>6. QED
  BY <1>4, <1>5 DEF op, rest

-----------------------------------------------------------------------------
(* Facts about the map.                                                     *)

LEMMA SameTree == UNCHANGED tree => Map' = Map
BY DEF tree, Map, Below

LEMMA MapInPoint == TypeOK => Map \subseteq Point
BY DEF TypeOK, Map, Below

\* The rebuild thread stays at its target from the acceptance to the swap.
LEMMA TargetRequested ==
  ReplayInv /\ rpc \in Busy => /\ target \in Target
                               /\ raced = {} => target = Rebuild_Ptr
BY DEF ReplayInv, SearchInv, TargetIsRequest, TypeOK

LEMMA NoneNoTarget == None \notin Target
BY DEF None, Target, Son, Root

\* The mapper is not in the middle of an operation while the rebuild thread
\* holds working_flag_mutex.
LEMMA MapperOut ==
  ReplayInv /\ rpc \in {"drain1", "flatten", "open1", "replay", "swap"} => mpc # "apply"
<1> SUFFICES ASSUME ReplayInv, mpc = "apply",
                    rpc \in {"drain1", "flatten", "open1", "replay", "swap"}
             PROVE  FALSE
  OBVIOUS
<1>1. working = "rebuild" /\ rpc \in Busy
  BY DEF ReplayInv, RebuildHolds, Busy, Copied
<1>2. QED
  BY <1>1 DEF ReplayInv, MapperHolds

LEMMA InitReplay == Init => ReplayInv
<1> SUFFICES ASSUME Init PROVE ReplayInv
  OBVIOUS
<1>1. SearchInv
  BY InitSearch
<1>2. /\ rpc = "idle" /\ mpc = "run" /\ todo = <<>> /\ rebuild_flag = FALSE
      /\ Rebuild_Logger = <<>>
  BY DEF Init
<1>3. todo \in Seq(Aside)
  BY <1>2
<1>4. FlagWhileBusy /\ NullIdle
  BY <1>2 DEF FlagWhileBusy, NullIdle, Busy, Copied, Init
<1>5. QED
  BY <1>1, <1>2, <1>3, <1>4 DEF ReplayInv, RebuildHolds, MapperHolds,
    AtTarget, RootAlone, EmptyCopy, LogEmpty, ReplayCatchesUp, Busy, Copied

LEMMA CrashReplay == ReplayInv /\ Crash => ReplayInv'
<1> SUFFICES ASSUME ReplayInv, Crash PROVE ReplayInv'
  OBVIOUS
<1>1. SearchInv'
  BY CrashSearch DEF ReplayInv
<1>2. /\ rpc' = "crashed" /\ mpc' = "crashed"
      /\ UNCHANGED <<todo, Rebuild_Ptr>>
  BY DEF Crash, shared
<1>3. /\ FlagWhileBusy' /\ RebuildHolds' /\ MapperHolds' /\ NullIdle'
      /\ AtTarget' /\ RootAlone' /\ EmptyCopy' /\ LogEmpty' /\ ReplayCatchesUp'
  BY <1>2 DEF ReplayInv, FlagWhileBusy, RebuildHolds, MapperHolds, NullIdle,
    AtTarget, RootAlone, EmptyCopy, LogEmpty, ReplayCatchesUp, Copied
<1>4. QED
  BY <1>1, <1>3 DEF ReplayInv

-----------------------------------------------------------------------------
(* The rebuild thread.                                                      *)

LEMMA RebuildReplay == ReplayInv /\ RNext => ReplayInv'
<1> SUFFICES ASSUME ReplayInv, RNext, ~Crash PROVE ReplayInv'
  BY CrashReplay
<1> USE DEF shared, tree, rvars, mvars, walk, svars
<1>1. SearchInv' /\ TypeOK
  BY RebuildSearch DEF ReplayInv, SearchInv
<1>2. FlagWhileBusy'
  BY DEF ReplayInv, FlagWhileBusy, Busy, Copied, RNext, RLockPtr, RNoRequest, RAccept,
    LockSearch, RLockSearch, RFlatten, RUnlockSearch, RRelock, RReplay,
    RLockSearch2, RLockSearchEmpty, Replace, RSwap, REmptyCrash, REmptySwap,
    RLostRequest, Crash,
    RFinish, RClearFlag, RDelete
<1>3. RebuildHolds'
  BY DEF ReplayInv, RebuildHolds, RNext, RLockPtr, RNoRequest, RAccept,
    LockSearch, RLockSearch, RFlatten, RUnlockSearch, RRelock, RReplay,
    RLockSearch2, RLockSearchEmpty, Replace, RSwap, REmptyCrash, REmptySwap,
    RLostRequest, Crash,
    RFinish, RClearFlag, RDelete
<1>4. MapperHolds'
  <2>1. CASE RAccept \/ RRelock
    <3>1. working = None /\ (Rebuild_Ptr # None \/ rpc \in Busy)
      BY <2>1 DEF RAccept, RRelock, Busy, Copied
    <3>2. mpc' # "apply"
      BY <2>1, <3>1 DEF ReplayInv, MapperHolds, RAccept, RRelock, None
    <3>3. QED
      BY <3>2 DEF MapperHolds
  <2>2. CASE RUnlockSearch \/ RReplay
    BY <2>2, MapperOut DEF RUnlockSearch, RReplay, MapperHolds
  <2>3. CASE RFinish
    BY <2>3 DEF RFinish, MapperHolds, Busy, Copied
  <2>4. CASE /\ UNCHANGED <<mpc, working, Rebuild_Ptr>>
             /\ rpc \notin Busy => rpc' \notin Busy
    BY <2>4 DEF ReplayInv, MapperHolds
  <2>5. QED
    BY <2>1, <2>2, <2>3, <2>4 DEF RNext, RLockPtr, RNoRequest, LockSearch,
      RLockSearch, RFlatten, RLockSearch2, RLockSearchEmpty, Replace, RSwap,
      REmptyCrash, REmptySwap, RLostRequest, RClearFlag, RDelete, Busy, Copied
<1>5. /\ todo' = todo
      /\ Rebuild_Ptr' \in {Rebuild_Ptr, None}
      /\ mpc' \in {mpc, "crashed"}
  BY DEF RNext, RLockPtr, RNoRequest, RAccept, LockSearch, RLockSearch, RFlatten,
    RUnlockSearch, RRelock, RReplay, RLockSearch2, RLockSearchEmpty, Replace,
    RSwap, REmptyCrash, REmptySwap, RLostRequest, Crash, RFinish, RClearFlag, RDelete
<1>6. AtTarget' /\ RootAlone'
  BY <1>5 DEF ReplayInv, AtTarget, RootAlone, Here
<1>7. EmptyCopy'
  BY DEF ReplayInv, EmptyCopy, RNext, RLockPtr, RNoRequest, RAccept, LockSearch,
    RLockSearch, RFlatten, RUnlockSearch, RRelock, RReplay, RLockSearch2,
    RLockSearchEmpty, Replace, RSwap, REmptyCrash, REmptySwap, RLostRequest, Crash,
    RFinish,
    RClearFlag, RDelete
<1>8. LogEmpty'
  <2>1. CASE REmptySwap
    BY <2>1 DEF REmptySwap, Replace, LogEmpty
  <2>2. CASE RLockSearch2
    BY <2>2 DEF RLockSearch2, LockSearch, LogEmpty
  <2>3. CASE ~REmptySwap /\ ~RLockSearch2
    BY <2>3 DEF ReplayInv, LogEmpty, RNext, RLockPtr, RNoRequest, RAccept,
      LockSearch, RLockSearch, RFlatten, RUnlockSearch, RRelock, RReplay,
      RLockSearchEmpty, Replace, RSwap, REmptyCrash, RLostRequest, Crash, RFinish,
      RClearFlag, RDelete
  <2>4. QED
    BY <2>1, <2>2, <2>3
<1>9. ReplayCatchesUp'
  <2>1. CASE RFlatten
    <3>1. raced' = {} => Rebuild_Logger' = <<>>
      BY <2>1 DEF RFlatten, ReplayInv, LogEmpty
    <3>2. new' \in SUBSET Point
      BY <1>1 DEF SearchInv, TypeOK
    <3>3. new' = TargetPoints'
      <4>1. CASE target = Root
        BY <2>1, <4>1 DEF RFlatten, TargetPoints, Map, Below
      <4>2. CASE target # Root
        BY <2>1, <4>2 DEF RFlatten, TargetPoints
      <4>3. QED
        BY <4>1, <4>2
    <3>4. QED
      BY <3>1, <3>2, <3>3, ReplayNothing DEF ReplayCatchesUp
  <2>2. CASE RReplay
    <3>1. /\ rpc \in Copied /\ raced' = raced
          /\ Replayed(new', Rebuild_Logger') = Replayed(new, Rebuild_Logger)
      BY <2>2, <1>1, ReplayFirst DEF RReplay, Copied, TypeOK
    <3>2. TargetPoints' = TargetPoints
      BY <2>2, SameTree DEF RReplay, TargetPoints
    <3>3. QED
      BY <3>1, <3>2 DEF ReplayInv, ReplayCatchesUp
  <2>3. CASE rpc' \in Copied /\ ~RFlatten /\ ~RReplay
    <3>1. /\ UNCHANGED <<content, pending, target, new, Rebuild_Logger, raced>>
          /\ rpc \in Copied
      BY <2>3 DEF Copied, RNext, RLockPtr, RNoRequest, RAccept, LockSearch,
        RLockSearch, RUnlockSearch, RRelock, RLockSearch2, RLockSearchEmpty,
        Replace, RSwap, REmptyCrash, REmptySwap, RLostRequest, Crash, RFinish,
        RClearFlag, RDelete
    <3>2. TargetPoints' = TargetPoints
      BY <3>1 DEF TargetPoints, Map, Below
    <3>3. QED
      BY <3>1, <3>2 DEF ReplayInv, ReplayCatchesUp
  <2>4. CASE rpc' \notin Copied
    BY <2>4 DEF ReplayCatchesUp
  <2>5. QED
    BY <2>1, <2>2, <2>3, <2>4
<1>10. NullIdle'
  <2>1. CASE REmptySwap
    BY <2>1 DEF REmptySwap, Replace, NullIdle
  <2>2. CASE RFinish
    BY <2>2 DEF RFinish, NullIdle
  <2>3. CASE UNCHANGED <<rooted, Rebuild_Ptr>> /\ rpc # "open2" /\ rpc # "crashed"
    BY <2>3 DEF ReplayInv, NullIdle
  <2>4. QED
    BY <2>1, <2>2, <2>3 DEF RNext, RLockPtr, RNoRequest, RAccept, LockSearch,
      RLockSearch, RFlatten, RUnlockSearch, RRelock, RReplay, RLockSearch2,
      RLockSearchEmpty, Replace, RSwap, REmptyCrash, RLostRequest, RClearFlag,
      RDelete
<1>11. QED
  BY <1>1, <1>2, <1>3, <1>4, <1>6, <1>7, <1>8, <1>9, <1>10 DEF ReplayInv

-----------------------------------------------------------------------------
(* The mapper.                                                              *)

LEMMA AsideSequences ==
  /\ Seq(Aside) \subseteq Seq(STEP)
  /\ <<>> \in Seq(Aside)
  /\ \A x \in Aside : <<x>> \in Seq(Aside)
  /\ \A x, y \in Aside : <<x, y>> \in Seq(Aside)
  /\ \A s, t \in Seq(Aside) : s \o t \in Seq(Aside)
  /\ \A s \in Seq(Aside) : s # <<>> => Tail(s) \in Seq(Aside)
<1>1. Aside \subseteq STEP
  BY DEF Aside
<1>2. QED
  BY <1>1

\* What the mapper lays out for a request acts on the sons, apart from the
\* operations on a whole tree under rebuild.
LEMMA AsideSteps ==
  /\ Unwind \in Aside
  /\ Pushes \in Seq(Aside)
  /\ \A s \in Son, op \in Operation : Step("op", s, op) \in Aside
  /\ \A op \in Operation : Both("op", op) \in Seq(Aside)
  /\ Both("search", Nothing) \in Seq(Aside)
  /\ \A op \in Operation : Step("decide", Root, op) \in Aside
<1>1. Unwind \in Aside
  BY UnwindType DEF Unwind, Step, Aside
<1>2. \A op \in Operation : Step("decide", Root, op) \in Aside
  BY StepTypes DEF Step, Aside, Kind, Target, Root
<1>3. \A k \in Kind, s \in Son, op \in Operation : Step(k, s, op) \in Aside
  <2> SUFFICES ASSUME NEW k \in Kind, NEW s \in Son, NEW op \in Operation
               PROVE  Step(k, s, op) \in Aside
    OBVIOUS
  <2>1. Step(k, s, op) \in STEP
    BY StepTypes DEF Target
  <2>2. QED
    BY <2>1 DEF Step, Aside
<1>4. \A k \in Kind, op \in Operation : Both(k, op) \in Seq(Aside)
  BY <1>3, AsideSequences DEF Both, Son
<1>5. Pushes \in Seq(Aside)
  <2>1. \A s \in Son : PushTo(s) \in Seq(Aside)
    <3>1. Delete(Point) \in Operation
      BY OperationTypes
    <3>2. \A s \in Son : <<Step("push", s, Delete(Point))>> \in Seq(Aside)
      BY <1>3, <3>1, AsideSequences DEF Kind
    <3>3. QED
      BY <3>2, AsideSequences DEF PushTo
  <2>2. QED
    BY <2>1, AsideSequences DEF Pushes, Son
<1>6. QED
  BY <1>1, <1>2, <1>3, <1>4, <1>5, UnwindType DEF Kind

\* What is left of a request after its first step acts on the sons.
LEMMA RestAside ==
  ReplayInv /\ todo # <<>> => Tail(todo) \in Seq(Aside)
<1> SUFFICES ASSUME ReplayInv, todo # <<>> PROVE Tail(todo) \in Seq(Aside)
  OBVIOUS
<1>1. todo \in Seq(STEP)
  BY DEF ReplayInv, SearchInv, TypeOK, STEP
<1>2. CASE todo \in Seq(Aside)
  BY <1>2, AsideSequences
<1>3. CASE Len(todo) = 1
  <2>1. Tail(todo) = <<>>
    <3>1. Tail(todo) \in Seq(STEP) /\ Len(Tail(todo)) = 0
      BY <1>1, <1>3, HeadTailProperties
    <3>2. QED
      BY <3>1, EmptySeq
  <2>2. QED
    BY <2>1, AsideSequences
<1>4. QED
  BY <1>2, <1>3 DEF ReplayInv, RootAlone

\* An operation on the whole tree is only ever met while the whole tree is the
\* request, or after that rebuild ended.
LEMMA RootStep ==
  ReplayInv /\ (At("op") \/ At("push")) /\ Here.at = Root =>
    Rebuild_Ptr \in {Root, None}
<1> SUFFICES ASSUME ReplayInv, At("op") \/ At("push"), Here.at = Root,
                    todo \in Seq(Aside)
             PROVE  FALSE
  BY DEF ReplayInv, RootAlone
<1>1. Head(todo) \in Aside
  BY DEF At
<1>2. QED
  BY <1>1 DEF Aside, At, Here, Root, Son

LEMMA MapperRootAlone == ReplayInv /\ MNext => RootAlone'
<1> SUFFICES ASSUME ReplayInv, MNext PROVE RootAlone'
  OBVIOUS
<1> USE DEF shared, tree, rvars, mvars, walk, svars
<1>0. TypeOK
  BY DEF ReplayInv, SearchInv
<1>1. ASSUME NEW B \in Box, MDeleteBox(B) PROVE RootAlone'
  <2>1. Delete(B) \in Operation
    BY OperationTypes, ConstAssumption
  <2>2. Pushes \o Both("op", Delete(B)) \o <<Unwind>> \in Seq(Aside)
    BY <2>1, AsideSteps, AsideSequences
  <2>3. CASE Rebuild_Ptr = Root
    BY <1>1, <2>3 DEF MDeleteBox, Request, RootAlone
  <2>4. CASE Rebuild_Ptr # Root
    BY <1>1, <2>2, <2>4, AsideSequences DEF MDeleteBox, Request, RootAlone
  <2>5. QED
    BY <2>3, <2>4
<1>2. ASSUME NEW p \in Point, NEW op \in Operation, MPoint(p, op) PROVE RootAlone'
  <2>1. Pushes \o <<Step("op", SonOf[p], op), Unwind>> \in Seq(Aside)
    BY AsideSteps, AsideSequences, ConstAssumption
  <2>2. CASE Rebuild_Ptr = Root
    BY <1>2, <2>2 DEF MPoint, Request, RootAlone
  <2>3. CASE Rebuild_Ptr # Root
    BY <1>2, <2>1, <2>3, AsideSequences DEF MPoint, Request, RootAlone
  <2>4. QED
    BY <2>2, <2>3
<1>3. ASSUME NEW V \in Voxel, NEW p \in V, MDownsample(p, V) PROVE RootAlone'
  <2>1. Add(p) \in Operation
    BY OperationTypes, ConstAssumption
  <2>2. Pushes \o Both("search", Nothing) \o <<Step("decide", Root, Add(p))>>
          \in Seq(Aside)
    BY <2>1, AsideSteps, AsideSequences
  <2>3. QED
    BY <1>3, <2>2 DEF MDownsample, Request, RootAlone
<1>4. ASSUME NEW r \in Point, MDecide(r) PROVE RootAlone'
  <2> DEFINE op    == [del |-> IF found = {} THEN {} ELSE box, add |-> {r}]
             visit == IF found = {} THEN <<>> ELSE Both("op", Delete(box)) \o <<Unwind>>
             add   == <<Step("op", SonOf[r], Add(r)), Unwind>>
  <2>1. Delete(box) \in Operation /\ Add(r) \in Operation /\ SonOf[r] \in Son
    BY <1>0, OperationTypes, ConstAssumption DEF TypeOK
  <2>2. Both("op", Delete(box)) \o <<Unwind>> \in Seq(Aside)
    BY <2>1, AsideSteps, AsideSequences
  <2>3. visit \in Seq(Aside)
    BY <2>2, AsideSequences
  <2>4. add \in Seq(Aside)
    BY <2>1, AsideSteps, AsideSequences
  <2>5. visit \o add \in Seq(Aside)
    BY <2>3, <2>4, AsideSequences
  <2>6. CASE todo' \in {<<>>, visit \o add}
    BY <2>5, <2>6, AsideSequences DEF RootAlone
  <2>7. CASE todo' = <<Step("op", Root, op)>> /\ Rebuild_Ptr = Root
    BY <1>4, <2>7 DEF MDecide, RootAlone
  <2>8. QED
    BY <1>4, <2>6, <2>7 DEF MDecide
<1>5. CASE \/ MVisit \/ MUnwind \/ MUnwindEmpty \/ MSearch \/ MSearchUnlock
           \/ MApply
  <2>1. todo # <<>> /\ todo' = Tail(todo)
    BY <1>0, <1>5 DEF MVisit, MUnwind, MUnwindEmpty, MSearch, MSearchUnlock, MApply,
      At, TypeOK
  <2>2. QED
    BY <2>1, RestAside DEF RootAlone
<1>6. CASE MScan \/ MJoin \/ MSearchLock \/ MVisitTarget \/ MLock
  BY <1>6 DEF ReplayInv, RootAlone, MScan, MJoin, MSearchLock, MVisitTarget, MLock
<1>7. CASE MNullRoot
  BY <1>7, CrashReplay DEF MNullRoot, ReplayInv
<1>8. ASSUME NEW S \in SUBSET Point, MBuild(S) PROVE RootAlone'
  BY <1>8, AsideSequences DEF MBuild, Request, RootAlone
<1>9. QED
  BY <1>1, <1>2, <1>3, <1>4, <1>5, <1>6, <1>7, <1>8, OperationTypes,
    ConstAssumption DEF MNext

\* An operation on the target that is done under the mutex does to the target's
\* points what the logged operation will do to the copy.
LEMMA ActOnTarget ==
  ASSUME TypeOK, NEW op \in Operation, Act(target, op), target' = target,
         target \in Target
  PROVE  TargetPoints' = Perform(TargetPoints, op)
<1>1. op.add \subseteq Point
  BY DEF Operation
<1>2. CASE target = Root
  <2>1. /\ content' = [s \in Son |-> (Below(s) \ op.del) \cup Split(op.add)[s]]
        /\ pending' = [s \in Son |-> FALSE]
    BY <1>2 DEF Act, Cover
  <2>2. \A s \in Son : Below(s)' = (Below(s) \ op.del) \cup Split(op.add)[s]
    BY <2>1 DEF Below
  <2>3. \A s \in Son : Split(op.add)[s] = {p \in op.add : SonOf[p] = s}
    BY DEF Split
  <2>4. UNION {Split(op.add)[s] : s \in Son} = op.add
    BY <1>1, <2>3, ConstAssumption
  <2>5. Map' = (Map \ op.del) \cup op.add
    BY <2>2, <2>4 DEF Map
  <2>6. QED
    BY <1>2, <2>5 DEF TargetPoints, Perform
<1>3. CASE target # Root
  BY <1>3 DEF TypeOK, Act, TargetPoints, Target
<1>4. QED
  BY <1>2, <1>3

LEMMA MapperReplay == ReplayInv /\ MNext => ReplayInv'
<1> SUFFICES ASSUME ReplayInv, MNext, ~Crash PROVE ReplayInv'
  BY CrashReplay
<1> USE DEF shared, tree, rvars, mvars, walk, svars
<1>1. SearchInv' /\ TypeOK
  BY MapperSearch DEF ReplayInv, SearchInv
<1>2. UNCHANGED <<rpc, target, new, rebuild_flag>>
  BY DEF MNext, MScan, MJoin, MDeleteBox, MPoint, MDownsample, Request,
    MSearchLock, MSearchUnlock, MSearch, MDecide, MVisit, MVisitTarget, MLock,
    MApply, MUnwind, MUnwindEmpty, MBuild, MNullRoot, Crash, Withdraw
<1>3. FlagWhileBusy' /\ EmptyCopy'
  BY <1>2 DEF ReplayInv, FlagWhileBusy, EmptyCopy
<1>4. RootAlone'
  BY MapperRootAlone
<1>5. RebuildHolds'
  <2>1. CASE MApply
    BY <1>2, <2>1, MapperOut DEF MApply, RebuildHolds
  <2>2. CASE MLock
    BY <1>2, <2>2 DEF ReplayInv, MLock, RebuildHolds, None
  <2>3. CASE working' = working
    BY <1>2, <2>3 DEF ReplayInv, RebuildHolds
  <2>4. QED
    BY <2>1, <2>2, <2>3 DEF MNext, MScan, MJoin, MDeleteBox, MPoint,
      MDownsample, Request, MSearchLock, MSearchUnlock, MSearch, MDecide, MVisit,
      MVisitTarget, MUnwind, MUnwindEmpty, MBuild, MNullRoot, Crash, Withdraw
<1>6. MapperHolds' /\ AtTarget'
  <2>1. CASE MLock
    BY <2>1 DEF ReplayInv, MLock, MapperHolds, AtTarget, Here
  <2>2. CASE MVisitTarget
    BY <2>2, RootStep DEF MVisitTarget, MapperHolds, AtTarget, Here
  <2>3. CASE mpc' \notin {"lock", "apply"}
    BY <2>3 DEF MapperHolds, AtTarget
  <2>4. QED
    BY <2>1, <2>2, <2>3 DEF MNext, MScan, MJoin, MDeleteBox, MPoint,
      MDownsample, Request, Ready, At, MSearchLock, MSearchUnlock, MSearch,
      MDecide, MVisit, MApply, MUnwind, MUnwindEmpty, MBuild, MNullRoot, Crash, Withdraw
<1>7. NullIdle'
  <2>1. CASE MUnwindEmpty
    <3>1. Rebuild_Ptr \in Target \cup {None}
      BY <1>1 DEF TypeOK
    <3>2. QED
      BY <1>2, <2>1, <3>1 DEF MUnwindEmpty, NullIdle, Target
  <2>2. CASE \E S \in SUBSET Point : MBuild(S)
    BY <2>2 DEF MBuild, NullIdle
  <2>3. CASE MVisit \/ MUnwind
    BY <1>2, <2>3 DEF ReplayInv, NullIdle, MVisit, Act, MUnwind, TryRebuild,
      Withdraw, At
  <2>4. CASE MApply
    BY <1>2, <2>4 DEF ReplayInv, NullIdle, MApply, Act, Withdraw
  <2>5. CASE UNCHANGED <<rooted, Rebuild_Ptr>>
    BY <1>2, <2>5 DEF ReplayInv, NullIdle
  <2>6. QED
    BY <2>1, <2>2, <2>3, <2>4, <2>5, ConstAssumption DEF MNext, MScan, MJoin,
      MDeleteBox, MPoint, MDownsample, Request, MSearchLock, MSearchUnlock, MSearch,
      MDecide, MVisitTarget, MLock, MNullRoot
<1>8. CASE MApply
  <2>1. Here.op \in Operation /\ Here.at \in Target
    BY <1>1, <1>8, HereType DEF MApply, TypeOK, STEP
  <2>2. ASSUME rpc \in Copied, raced = {}
        PROVE  /\ Rebuild_Logger' = Append(Rebuild_Logger, Here.op)
               /\ target = Here.at
    <3>1. rebuild_flag
      BY <2>2 DEF ReplayInv, FlagWhileBusy, Copied, Busy
    <3>2. target = Here.at
      BY <1>8, <2>2, TargetRequested, NoneNoTarget
      DEF ReplayInv, AtTarget, MApply, Copied, Busy
    <3>3. QED
      BY <1>8, <3>1, <3>2 DEF MApply
  <2>3. ReplayCatchesUp'
    <3> SUFFICES ASSUME raced = {}, rpc \in Copied
                 PROVE  Replayed(new', Rebuild_Logger') = TargetPoints'
      BY <1>2, <1>8 DEF ReplayCatchesUp, MApply
    <3>1. TargetPoints' = Perform(TargetPoints, Here.op)
      BY <1>1, <1>2, <1>8, <2>1, <2>2, ActOnTarget DEF MApply
    <3>2. Replayed(new, Rebuild_Logger')
            = Perform(Replayed(new, Rebuild_Logger), Here.op)
      BY <1>1, <2>1, <2>2, ReplayAppended DEF TypeOK
    <3>3. QED
      BY <1>2, <3>1, <3>2 DEF ReplayInv, ReplayCatchesUp
  <2>4. LogEmpty'
    <3>1. CASE rebuild_flag /\ raced' = {}
      <4>1. \A s \in Cover(Here.at) : InFlight(s)
        BY <1>8, <3>1 DEF MApply
      <4>2. rpc \in Copied
        BY <4>1, <2>1 DEF InFlight, Cover, Son
      <4>3. rpc \in {"relock", "replay", "empty", "emptyswap"}
        BY <1>8, <4>2, MapperOut DEF Copied, MApply
      <4>4. QED
        BY <1>2, <4>3 DEF LogEmpty
    <3>2. CASE ~rebuild_flag
      BY <1>2, <1>8, <3>2 DEF MApply, ReplayInv, LogEmpty
    <3>3. QED
      BY <3>1, <3>2 DEF LogEmpty
  <2>5. QED
    BY <1>1, <1>3, <1>4, <1>5, <1>6, <1>7, <2>3, <2>4 DEF ReplayInv
<1>9. CASE ~MApply
  <2>1. Rebuild_Logger' = Rebuild_Logger /\ (raced' = {} => raced = {})
    BY <1>9 DEF MNext, MScan, MJoin, MDeleteBox, MPoint, MDownsample, Request,
      MSearchLock, MSearchUnlock, MSearch, MDecide, MVisit, MVisitTarget, MLock,
      MUnwind, MUnwindEmpty, MBuild, MNullRoot, Crash, Withdraw
  <2>2. LogEmpty'
    BY <1>2, <2>1 DEF ReplayInv, LogEmpty
  <2>3. ASSUME raced' = {}, rpc \in Copied PROVE TargetPoints' = TargetPoints
    <3>1. CASE MVisit
      <4>1. Here.at \notin Cover(target)
        BY <2>3, <3>1 DEF MVisit, InFlight
      <4>2. Here.at \in Son
        BY <1>1, <3>1, HereType DEF MVisit, At, Target, TypeOK, STEP
      <4>3. target # Root /\ target # Here.at
        BY <4>1, <4>2 DEF Cover
      <4>4. content'[target] = content[target]
        BY <1>1, <2>3, <3>1, <4>2, <4>3, TargetRequested
        DEF MVisit, Act, TypeOK, Copied, Busy, Target, Son, Root
      <4>5. QED
        BY <1>2, <4>3, <4>4 DEF TargetPoints
    <3>2. CASE \E B \in Box : MDeleteBox(B)
      <4>1. content' = content
        BY <3>2 DEF MDeleteBox
      <4>2. CASE target = Root
        <5>1. Rebuild_Ptr = Root
          BY <2>1, <2>3, <4>2, TargetRequested DEF Copied, Busy
        <5>2. pending' = pending
          BY <3>2, <5>1 DEF MDeleteBox
        <5>3. QED
          BY <1>2, <4>1, <5>2 DEF TargetPoints, Map, Below
      <4>3. CASE target # Root
        BY <1>2, <4>1, <4>3 DEF TargetPoints
      <4>4. QED
        BY <4>2, <4>3
    <3>3. CASE UNCHANGED tree
      BY <1>2, <3>3, SameTree DEF TargetPoints
    <3>4. raced = {} /\ Rebuild_Ptr = target /\ Rebuild_Ptr # None
      BY <2>1, <2>3, TargetRequested, NoneNoTarget DEF Copied, Busy
    <3>5. CASE MUnwindEmpty
      <4>1. Rebuild_Ptr = Root
        BY <2>3, <3>4, <3>5, TargetRequested DEF MUnwindEmpty, Copied, Busy, Target
      <4>2. Rebuild_Ptr' = None
        BY <3>5, <4>1 DEF MUnwindEmpty
      <4>3. QED
        BY <2>3, <3>4, <3>5, <4>2 DEF MUnwindEmpty, Withdrawn, Busy
    <3>6. CASE \E S \in SUBSET Point : MBuild(S)
      BY <2>3, <3>4, <3>6 DEF MBuild, ReplayInv, NullIdle, Copied
    <3>7. QED
      BY <1>9, <3>1, <3>2, <3>3, <3>5, <3>6, ConstAssumption DEF MNext, MScan, MJoin,
        MPoint, MDownsample,
        Request, MSearchLock, MSearchUnlock, MSearch, MDecide, MVisitTarget,
        MLock, MUnwind, MUnwindEmpty, MBuild, MNullRoot, Crash, Withdraw
  <2>4. ReplayCatchesUp'
    BY <1>2, <2>1, <2>3 DEF ReplayInv, ReplayCatchesUp
  <2>5. QED
    BY <1>1, <1>3, <1>4, <1>5, <1>6, <1>7, <2>2, <2>4 DEF ReplayInv
<1>10. QED
  BY <1>8, <1>9

-----------------------------------------------------------------------------
(* The searchers see none of it.                                            *)

LEMMA UntouchedReplay ==
  /\ ReplayInv /\ SearchInv'
  /\ UNCHANGED <<Rebuild_Ptr, rebuild_flag, Rebuild_Logger, working, tree, rvars,
                 mvars, raced>>
  => ReplayInv'
<1> SUFFICES ASSUME ReplayInv, SearchInv',
                    UNCHANGED <<Rebuild_Ptr, rebuild_flag, Rebuild_Logger,
                                working, tree, rvars, mvars, raced>>
             PROVE  ReplayInv'
  OBVIOUS
<1> USE DEF tree, rvars, mvars
<1>1. TargetPoints' = TargetPoints
  BY SameTree DEF TargetPoints
<1>2. ReplayCatchesUp' /\ LogEmpty' /\ EmptyCopy'
  BY <1>1 DEF ReplayInv, ReplayCatchesUp, LogEmpty, EmptyCopy
<1>3. /\ FlagWhileBusy' /\ RebuildHolds' /\ MapperHolds' /\ NullIdle'
      /\ AtTarget' /\ RootAlone'
  BY DEF ReplayInv, FlagWhileBusy, RebuildHolds, MapperHolds, NullIdle, AtTarget,
    RootAlone, Here
<1>4. QED
  BY <1>2, <1>3 DEF ReplayInv

LEMMA ReplayStep == ReplayInv /\ [Next]_vars => ReplayInv'
<1> SUFFICES ASSUME ReplayInv, [Next]_vars PROVE ReplayInv'
  OBVIOUS
<1>1. CASE SNext
  BY <1>1, UntouchedReplay, SearcherSearch DEF ReplayInv, SNext, SVisit, SEnter,
    SLeave, SWalkEnd, SDone, shared
<1>2. CASE UNCHANGED vars
  BY <1>2, UntouchedReplay, StutterSearch DEF ReplayInv, vars, shared
<1>3. QED
  BY <1>1, <1>2, RebuildReplay, MapperReplay DEF Next, Down

LEMMA ReplayInvariant == Spec => []ReplayInv
BY InitReplay, ReplayStep, PTL DEF Spec

\* At every moment of a rebuild through which every operation went by the log,
\* the copy with the log applied is the live subtree.
THEOREM NothingMissed == Spec => []ReplayCatchesUp
<1>1. ReplayInv => ReplayCatchesUp
  BY DEF ReplayInv
<1>2. QED
  BY ReplayInvariant, <1>1, PTL

\* In such a run no step of the rebuild thread changes the points of the map.
THEOREM RebuildsInvisible == Spec => RebuildInvisible
<1>1. ReplayInv /\ [Next]_vars => [raced' = {} /\ rpc' # rpc => Map' = Map]_vars
  <2> SUFFICES ASSUME ReplayInv, Next, raced' = {}, rpc' # rpc PROVE Map' = Map
    OBVIOUS
  <2> USE DEF shared, tree, rvars, mvars, walk, svars
  <2>1. RNext \/ Crash
    BY DEF Next, Down, vars, SNext, SVisit, SEnter, SLeave, SWalkEnd, SDone,
      MNext, MScan, MJoin, MDeleteBox, MPoint, MDownsample, Request,
      MSearchLock, MSearchUnlock, MSearch, MDecide, MVisit, MVisitTarget, MLock,
      MApply, MUnwind, MUnwindEmpty, MBuild, MNullRoot, Crash, Withdraw
  <2>2. TypeOK
    BY DEF ReplayInv, SearchInv
  <2>3. CASE RFlatten
    BY <2>3 DEF RFlatten, Map, Below
  <2>4. ASSUME NEW S \in SUBSET Point, Replace(S), S = TargetPoints, rpc \in Busy
        PROVE  Map' = Map
    <3>1. CASE target = Root
      <4>1. \A s \in Son : Below(s)' = {p \in Map : SonOf[p] = s}
        BY <2>4, <3>1 DEF Replace, Split, Below, TargetPoints
      <4>2. QED
        BY <2>2, <4>1, MapInPoint, ConstAssumption DEF Map
    <3>2. CASE target # Root
      <4>1. content' = content
        BY <2>2, <2>4, <3>2 DEF Replace, TargetPoints, TypeOK, Target
      <4>2. QED
        BY <2>4, <3>2, <4>1 DEF Replace, Map, Below
    <3>3. QED
      BY <3>1, <3>2
  <2>5. CASE RSwap
    <3>1. Rebuild_Logger = <<>> /\ raced = {}
      BY <2>5 DEF RSwap, ReplayInv, LogEmpty
    <3>2. new = TargetPoints
      BY <2>2, <2>5, <3>1, ReplayNothing
      DEF RSwap, ReplayInv, ReplayCatchesUp, Copied, TypeOK
    <3>3. QED
      BY <2>2, <2>4, <2>5, <3>2 DEF RSwap, TypeOK, Busy, Copied
  <2>6. CASE REmptySwap
    <3>1. Rebuild_Logger = <<>> /\ raced = {}
      BY <2>6 DEF REmptySwap
    <3>2. {} = TargetPoints
      BY <2>6, <3>1, ReplayNothing
      DEF REmptySwap, ReplayInv, ReplayCatchesUp, EmptyCopy, Copied
    <3>3. QED
      BY <2>4, <2>6, <3>2 DEF REmptySwap, Busy, Copied
  <2>7. CASE UNCHANGED tree
    BY <2>7, SameTree
  <2>8. QED
    BY <2>1, <2>3, <2>5, <2>6, <2>7 DEF RNext, RLockPtr, RNoRequest, RAccept,
      LockSearch, RLockSearch, RUnlockSearch, RRelock, RReplay, RLockSearch2,
      RLockSearchEmpty, REmptyCrash, RLostRequest, Crash, RFinish, RClearFlag,
      RDelete
<1>2. QED
  BY ReplayInvariant, <1>1, PTL DEF Spec, RebuildInvisible
-----------------------------------------------------------------------------
(* The map and the requests: what is left of a request, in which order, and *)
(* what it will still find.                                                 *)

Steps(t) == {t[i] : i \in DOMAIN t}
Ops(t) == {x \in Steps(t) : x.kind = "op"}

\* A step is fit for the tree: a son is given its own points, and nothing is
\* both deleted and added below a son.
Fit(x) ==
  /\ x.kind = "push" => x.at \in Son /\ x.op = Delete(Point)
  /\ x.kind = "search" => x.at \in Son
  /\ x.kind = "op" /\ x.at \in Son =>
       /\ x.op.add = {} \/ x.op.del = {}
       /\ \A p \in x.op.add : SonOf[p] = x.at

\* x may come before y: pushes come first, a decision last and before all it
\* decides on; a request deletes one set of points, and adds after that.
Before(x, y) ==
  /\ x.kind # "decide"
  /\ y.kind = "push" => x.kind = "push"
  /\ y.kind \in {"search", "decide"} => x.kind \in {"push", "search"}
  /\ x.kind = "op" /\ y.kind = "op" =>
       /\ x.op.add = {}
       /\ y.op.add = {} => y.op.del = x.op.del

Plan(t) ==
  /\ \A x \in Steps(t) : Fit(x)
  /\ \A i, j \in DOMAIN t : i < j => Before(t[i], t[j])

\* Each son holds the points that are routed to it.
Routed == \A s \in Son : \A p \in content[s] : SonOf[p] = s

\* There is nothing below a root that is null.
NullEmpty == ~rooted => \A s \in Son : content[s] = {} /\ ~pending[s]

\* A son that is still to be pushed to holds nothing, and no operation gets to a
\* son, nor a decision to be taken, before what was deleted there is pushed to it.
PushesFirst ==
  /\ \A x \in Steps(todo) : x.kind = "push" => Below(x.at) = {}
  /\ \A x \in Steps(todo), s \in Son :
       /\ pending[s]
       /\ (x.kind = "op" /\ x.at = s) \/ x.kind = "decide"
       => \E y \in Steps(todo) : y.kind = "push" /\ y.at = s

\* A point that is to go and still there will be met where it is.
DeletionsLeft ==
  \A x \in Ops(todo) : \A p \in x.op.del \cap Map :
    \E y \in Ops(todo) : p \in y.op.del /\ y.at \in {SonOf[p], Root}

\* What has been found of the downsampling box, until it is decided upon.
FoundSoFar ==
  /\ box # {} \/ found # {} => \E x \in Steps(todo) : x.kind = "decide"
  /\ \A x \in Steps(todo) : x.kind = "decide" =>
       /\ x.op.add \subseteq box
       /\ found \subseteq Map \cap box
       /\ \A p \in (Map \cap box) \ found :
            \E y \in Steps(todo) : y.kind = "search" /\ y.at = SonOf[p]
  /\ mpc = "inbox" => Here.kind = "search" /\ Below(Here.at) \cap box \subseteq found
  /\ mpc \in {"lock", "apply"} => Here.kind \in {"op", "push"}

RequestInv ==
  raced = {} => /\ Plan(todo)
                /\ Routed
                /\ NullEmpty
                /\ PushesFirst
                /\ DeletionsLeft
                /\ FoundSoFar
-----------------------------------------------------------------------------
(* Plans, step by step.                                                     *)

LEMMA StepsOfPair ==
  /\ Steps(<<>>) = {}
  /\ \A x : Steps(<<x>>) = {x}
  /\ \A x, y : Steps(<<x, y>>) = {x, y}
BY DEF Steps

LEMMA StepsOfBoth ==
  ASSUME NEW s \in Seq(STEP), NEW t \in Seq(STEP)
  PROVE  Steps(s \o t) = Steps(s) \cup Steps(t)
<1>1. /\ DOMAIN s = 1 .. Len(s) /\ DOMAIN t = 1 .. Len(t)
      /\ DOMAIN (s \o t) = 1 .. Len(s) + Len(t)
      /\ Len(s) \in Nat /\ Len(t) \in Nat
      /\ \A i \in 1 .. Len(s) + Len(t) :
           (s \o t)[i] = IF i <= Len(s) THEN s[i] ELSE t[i - Len(s)]
  BY ConcatProperties
<1>2. ASSUME NEW x \in Steps(s \o t) PROVE x \in Steps(s) \cup Steps(t)
  <2>1. PICK i \in 1 .. Len(s) + Len(t) : x = (s \o t)[i]
    BY <1>1, <1>2 DEF Steps
  <2>2. CASE i <= Len(s)
    BY <1>1, <2>1, <2>2 DEF Steps
  <2>3. CASE ~ i <= Len(s)
    <3>1. i - Len(s) \in DOMAIN t /\ x = t[i - Len(s)]
      BY <1>1, <2>1, <2>3
    <3>2. QED
      BY <3>1 DEF Steps
  <2>4. QED
    BY <2>2, <2>3
<1>3. ASSUME NEW x \in Steps(s) PROVE x \in Steps(s \o t)
  <2>1. PICK i \in DOMAIN s : x = s[i]
    BY <1>3 DEF Steps
  <2>2. i \in DOMAIN (s \o t) /\ x = (s \o t)[i]
    BY <1>1, <2>1
  <2>3. QED
    BY <2>2 DEF Steps
<1>4. ASSUME NEW x \in Steps(t) PROVE x \in Steps(s \o t)
  <2>1. PICK i \in DOMAIN t : x = t[i]
    BY <1>4 DEF Steps
  <2>2. PICK j : j = i + Len(s)
    OBVIOUS
  <2>3. j \in DOMAIN (s \o t) /\ x = (s \o t)[j]
    BY <1>1, <2>1, <2>2
  <2>4. QED
    BY <2>3 DEF Steps
<1>5. QED
  BY <1>2, <1>3, <1>4

LEMMA StepsOfRest ==
  ASSUME NEW t \in Seq(STEP), t # <<>>
  PROVE  /\ Steps(t) = {Head(t)} \cup Steps(Tail(t))
         /\ Tail(t) \in Seq(STEP)
<1>1. /\ DOMAIN t = 1 .. Len(t) /\ Len(t) \in Nat \ {0} /\ Head(t) = t[1]
      /\ Tail(t) \in Seq(STEP) /\ DOMAIN Tail(t) = 1 .. Len(t) - 1
      /\ \A i \in 1 .. Len(t) - 1 : Tail(t)[i] = t[i + 1]
  OBVIOUS
<1>2. ASSUME NEW x \in Steps(t) PROVE x = Head(t) \/ x \in Steps(Tail(t))
  <2>1. PICK i \in DOMAIN t : x = t[i]
    BY <1>2 DEF Steps
  <2>2. CASE i # 1
    <3>1. PICK j : j = i - 1
      OBVIOUS
    <3>2. j \in DOMAIN Tail(t) /\ Tail(t)[j] = x
      BY <1>1, <2>1, <2>2, <3>1
    <3>3. QED
      BY <3>2 DEF Steps
  <2>3. QED
    BY <1>1, <2>1, <2>2
<1>3. ASSUME NEW x \in Steps(Tail(t)) PROVE x \in Steps(t)
  <2>1. PICK i \in DOMAIN Tail(t) : x = Tail(t)[i]
    BY <1>3 DEF Steps
  <2>2. i + 1 \in DOMAIN t /\ x = t[i + 1]
    BY <1>1, <2>1
  <2>3. QED
    BY <2>2 DEF Steps
<1>4. Head(t) \in Steps(t)
  BY <1>1 DEF Steps
<1>5. QED
  BY <1>1, <1>2, <1>3, <1>4

LEMMA PlanOfOne ==
  /\ Plan(<<>>)
  /\ \A x : Fit(x) => Plan(<<x>>)
BY StepsOfPair DEF Plan

\* One plan after another is a plan if every step of the second may follow.
LEMMA PlanOfBoth ==
  ASSUME NEW s \in Seq(STEP), NEW t \in Seq(STEP), Plan(s), Plan(t),
         \A x \in Steps(s), y \in Steps(t) : Before(x, y)
  PROVE  Plan(s \o t)
<1>1. /\ DOMAIN s = 1 .. Len(s) /\ DOMAIN t = 1 .. Len(t)
      /\ DOMAIN (s \o t) = 1 .. Len(s) + Len(t)
      /\ Len(s) \in Nat /\ Len(t) \in Nat
      /\ \A i \in 1 .. Len(s) + Len(t) :
           (s \o t)[i] = IF i <= Len(s) THEN s[i] ELSE t[i - Len(s)]
  BY ConcatProperties
<1>2. ASSUME NEW i \in DOMAIN (s \o t), NEW j \in DOMAIN (s \o t), i < j
      PROVE  Before((s \o t)[i], (s \o t)[j])
  <2>1. CASE j <= Len(s)
    <3>1. i \in DOMAIN s /\ j \in DOMAIN s /\ (s \o t)[i] = s[i] /\ (s \o t)[j] = s[j]
      BY <1>1, <1>2, <2>1
    <3>2. QED
      BY <1>2, <3>1 DEF Plan
  <2>2. CASE i <= Len(s) /\ ~ j <= Len(s)
    <3>1. /\ i \in DOMAIN s /\ j - Len(s) \in DOMAIN t
          /\ (s \o t)[i] = s[i] /\ (s \o t)[j] = t[j - Len(s)]
      BY <1>1, <1>2, <2>2
    <3>2. QED
      BY <3>1 DEF Steps
  <2>3. CASE ~ i <= Len(s)
    <3>1. PICK k, l : k = i - Len(s) /\ l = j - Len(s)
      OBVIOUS
    <3>2. /\ k \in DOMAIN t /\ l \in DOMAIN t /\ k < l
          /\ (s \o t)[i] = t[k] /\ (s \o t)[j] = t[l]
      BY <1>1, <1>2, <2>3, <3>1
    <3>3. QED
      BY <3>2 DEF Plan
  <2>4. QED
    BY <1>1, <2>1, <2>2, <2>3
<1>3. \A x \in Steps(s \o t) : Fit(x)
  BY StepsOfBoth DEF Plan
<1>4. QED
  BY <1>2, <1>3 DEF Plan

LEMMA PlanOfRest ==
  ASSUME NEW t \in Seq(STEP), t # <<>>, Plan(t)
  PROVE  /\ Plan(Tail(t)) /\ Fit(Head(t))
         /\ \A y \in Steps(Tail(t)) : Before(Head(t), y)
<1>1. /\ DOMAIN t = 1 .. Len(t) /\ Len(t) \in Nat \ {0} /\ Head(t) = t[1]
      /\ Tail(t) \in Seq(STEP) /\ DOMAIN Tail(t) = 1 .. Len(t) - 1
      /\ \A i \in 1 .. Len(t) - 1 : Tail(t)[i] = t[i + 1]
  OBVIOUS
<1>2. ASSUME NEW i \in DOMAIN Tail(t), NEW j \in DOMAIN Tail(t), i < j
      PROVE  Before(Tail(t)[i], Tail(t)[j])
  <2>1. PICK k, l : k = i + 1 /\ l = j + 1
    OBVIOUS
  <2>2. /\ k \in DOMAIN t /\ l \in DOMAIN t /\ k < l
        /\ Tail(t)[i] = t[k] /\ Tail(t)[j] = t[l]
    BY <1>1, <1>2, <2>1
  <2>3. QED
    BY <2>2 DEF Plan
<1>3. ASSUME NEW y \in Steps(Tail(t)) PROVE Before(Head(t), y)
  <2>1. PICK i \in DOMAIN Tail(t) : y = Tail(t)[i]
    BY <1>3 DEF Steps
  <2>2. PICK k : k = i + 1
    OBVIOUS
  <2>3. 1 \in DOMAIN t /\ k \in DOMAIN t /\ 1 < k /\ y = t[k]
    BY <1>1, <2>1, <2>2
  <2>4. QED
    BY <1>1, <2>3 DEF Plan
<1>4. (\A x \in Steps(Tail(t)) : Fit(x)) /\ Fit(Head(t))
  BY StepsOfRest DEF Plan
<1>5. QED
  BY <1>2, <1>3, <1>4 DEF Plan
-----------------------------------------------------------------------------
(* What the mapper lays out is a plan.                                      *)

PushSteps == {Step("push", s, Delete(Point)) : s \in {x \in Son : pending[x]}}

LEMMA StepFields ==
  ASSUME NEW k, NEW t, NEW op
  PROVE  Step(k, t, op).kind = k /\ Step(k, t, op).at = t /\ Step(k, t, op).op = op
BY DEF Step

LEMMA PushesPlan == Plan(Pushes) /\ Steps(Pushes) = PushSteps /\ Pushes \in Seq(STEP)
<1>1. ASSUME NEW s \in Son
      PROVE  /\ PushTo(s) \in Seq(STEP) /\ Plan(PushTo(s))
             /\ Steps(PushTo(s)) =
                  IF pending[s] THEN {Step("push", s, Delete(Point))} ELSE {}
  <2>1. PICK x : x = Step("push", s, Delete(Point))
    OBVIOUS
  <2>2. x \in STEP
    <3>1. Delete(Point) \in Operation /\ s \in Target /\ "push" \in Kind
      BY OperationTypes DEF Kind, Target
    <3>2. QED
      BY <2>1, <3>1, StepTypes
  <2>3. Fit(x)
    BY <2>1, StepFields DEF Fit
  <2>4. PushTo(s) = IF pending[s] THEN <<x>> ELSE <<>>
    BY <2>1 DEF PushTo
  <2>5. <<x>> \in Seq(STEP) /\ <<>> \in Seq(STEP)
    BY <2>2
  <2>6. QED
    BY <2>1, <2>3, <2>4, <2>5, PlanOfOne, StepsOfPair
<1>2. "left" \in Son /\ "right" \in Son /\ Son = {"left", "right"}
  BY DEF Son
<1>3. \A s \in Son : \A x \in Steps(PushTo(s)) : x.kind = "push"
  BY <1>1, StepFields
<1>4. \A x \in Steps(PushTo("left")), y \in Steps(PushTo("right")) : Before(x, y)
  BY <1>2, <1>3 DEF Before
<1>5. Plan(PushTo("left") \o PushTo("right"))
  BY <1>1, <1>2, <1>4, PlanOfBoth
<1>6. Steps(Pushes) = Steps(PushTo("left")) \cup Steps(PushTo("right"))
  BY <1>1, <1>2, StepsOfBoth DEF Pushes
<1>7. Steps(Pushes) = PushSteps
  BY <1>1, <1>2, <1>6 DEF PushSteps
<1>8. QED
  BY <1>5, <1>7, PushesType DEF Pushes

\* Whatever comes after the pushes.
LEMMA PushedPlan ==
  ASSUME NEW t \in Seq(STEP), Plan(t)
  PROVE  /\ Pushes \o t \in Seq(STEP) /\ Plan(Pushes \o t)
         /\ Steps(Pushes \o t) = PushSteps \cup Steps(t)
<1>1. \A x \in PushSteps : x.kind = "push"
  BY StepFields DEF PushSteps
<1>2. \A x \in Steps(Pushes), y \in Steps(t) : Before(x, y)
  BY <1>1, PushesPlan DEF Before
<1>3. Pushes \o t \in Seq(STEP)
  BY PushesPlan
<1>4. QED
  BY <1>2, <1>3, PushesPlan, PlanOfBoth, StepsOfBoth

\* Coming back to the root may follow anything but a decision.
LEMMA UnwoundPlan ==
  ASSUME NEW t \in Seq(STEP), Plan(t), \A x \in Steps(t) : x.kind # "decide"
  PROVE  /\ t \o <<Unwind>> \in Seq(STEP) /\ Plan(t \o <<Unwind>>)
         /\ Steps(t \o <<Unwind>>) = Steps(t) \cup {Unwind}
<1>1. PICK u : u = Unwind
  OBVIOUS
<1>2. u \in STEP /\ u.kind = "unwind"
  BY <1>1, UnwindType, StepFields DEF Unwind
<1>3. <<u>> \in Seq(STEP) /\ Plan(<<u>>) /\ Steps(<<u>>) = {u}
  BY <1>2, PlanOfOne, StepsOfPair DEF Fit
<1>4. PICK v : v = <<u>>
  OBVIOUS
<1>5. v \in Seq(STEP) /\ Plan(v) /\ Steps(v) = {u}
  BY <1>3, <1>4
<1>6. \A x \in Steps(t), y \in Steps(v) : Before(x, y)
  BY <1>2, <1>5 DEF Before
<1>7. t \o v \in Seq(STEP)
  BY <1>5
<1>8. Plan(t \o v) /\ Steps(t \o v) = Steps(t) \cup Steps(v)
  BY <1>5, <1>6, PlanOfBoth, StepsOfBoth
<1>9. QED
  BY <1>1, <1>4, <1>5, <1>7, <1>8

\* The same at both sons.
LEMMA BothPlan ==
  ASSUME NEW k \in {"op", "search"}, NEW op \in Operation, op.add = {}
  PROVE  /\ Both(k, op) \in Seq(STEP) /\ Plan(Both(k, op))
         /\ Steps(Both(k, op)) = {Step(k, s, op) : s \in Son}
<1>1. PICK x, y : x = Step(k, "left", op) /\ y = Step(k, "right", op)
  OBVIOUS
<1>2. k \in Kind /\ "left" \in Target /\ "right" \in Target
  BY DEF Kind, Target, Son
<1>3. x \in STEP /\ y \in STEP /\ Both(k, op) \in Seq(STEP)
  BY <1>1, <1>2, StepTypes
<1>4. /\ x.kind = k /\ x.at = "left" /\ x.op = op
      /\ y.kind = k /\ y.at = "right" /\ y.op = op
  BY <1>1, StepFields
<1>5. Fit(x) /\ Fit(y)
  BY <1>4 DEF Fit, Son
<1>6. Before(x, y)
  BY <1>4 DEF Before
<1>7. Both(k, op) = <<x, y>>
  BY <1>1 DEF Both
<1>8. Steps(<<x, y>>) = {x, y}
  BY StepsOfPair
<1>9. Plan(<<x, y>>)
  BY <1>5, <1>6, <1>8 DEF Plan
<1>10. {Step(k, s, op) : s \in Son} = {x, y}
  BY <1>1 DEF Son
<1>11. QED
  BY <1>3, <1>7, <1>8, <1>9, <1>10
\* A box.
LEMMA BoxPlan ==
  ASSUME NEW B \in SUBSET Point
  PROVE  LET t == Pushes \o Both("op", Delete(B)) \o <<Unwind>>
         IN  /\ t \in Seq(STEP) /\ Plan(t)
             /\ Steps(t) = PushSteps \cup {Step("op", s, Delete(B)) : s \in Son}
                           \cup {Unwind}
<1>1. PICK b : b = Both("op", Delete(B))
  OBVIOUS
<1>2. Delete(B) \in Operation /\ Delete(B).add = {}
  BY OperationTypes DEF Delete
<1>3. /\ b \in Seq(STEP) /\ Plan(b)
      /\ Steps(b) = {Step("op", s, Delete(B)) : s \in Son}
  BY <1>1, <1>2, BothPlan
<1>4. PICK t : t = Pushes \o b
  OBVIOUS
<1>5. /\ t \in Seq(STEP) /\ Plan(t)
      /\ Steps(t) = PushSteps \cup {Step("op", s, Delete(B)) : s \in Son}
  BY <1>3, <1>4, PushedPlan
<1>6. \A x \in Steps(t) : x.kind # "decide"
  BY <1>5, StepFields DEF PushSteps
<1>7. QED
  BY <1>1, <1>4, <1>5, <1>6, UnwoundPlan

\* One operation below a son.
LEMMA OnePlan ==
  ASSUME NEW s \in Son, NEW op \in Operation, Fit(Step("op", s, op))
  PROVE  LET t == <<Step("op", s, op), Unwind>>
         IN  /\ t \in Seq(STEP) /\ Plan(t)
             /\ Steps(t) = {Step("op", s, op), Unwind}
<1>1. PICK x : x = Step("op", s, op)
  OBVIOUS
<1>2. x \in STEP /\ x.kind = "op" /\ Fit(x)
  BY <1>1, StepTypes, StepFields DEF Kind, Target
<1>3. <<x>> \in Seq(STEP) /\ Plan(<<x>>) /\ Steps(<<x>>) = {x}
  BY <1>2, PlanOfOne, StepsOfPair
<1>4. \A y \in Steps(<<x>>) : y.kind # "decide"
  BY <1>2, <1>3
<1>5. PICK t : t = <<x>>
  OBVIOUS
<1>6. /\ t \o <<Unwind>> \in Seq(STEP) /\ Plan(t \o <<Unwind>>)
      /\ Steps(t \o <<Unwind>>) = Steps(t) \cup {Unwind}
  BY <1>3, <1>4, <1>5, UnwoundPlan
<1>7. t \o <<Unwind>> = <<x, Unwind>>
  <2>1. PICK u : u = Unwind
    OBVIOUS
  <2>2. u \in STEP
    BY <2>1, UnwindType
  <2>3. PICK v, w : v = t \o <<u>> /\ w = <<x, u>>
    OBVIOUS
  <2>4. v \in Seq(STEP) /\ Len(v) = 2 /\ v[1] = x /\ v[2] = u
    BY <1>2, <1>5, <2>2, <2>3
  <2>5. w \in Seq(STEP) /\ Len(w) = 2 /\ w[1] = x /\ w[2] = u
    BY <1>2, <2>2, <2>3
  <2>6. \A i \in 1 .. 2 : v[i] = w[i]
    BY <2>4, <2>5
  <2>7. v = w
    BY <2>4, <2>5, <2>6, SeqEqual
  <2>8. QED
    BY <2>1, <2>3, <2>7
<1>8. QED
  BY <1>1, <1>3, <1>5, <1>6, <1>7

\* A downsampling search.
LEMMA SearchPlan ==
  ASSUME NEW op \in Operation
  PROVE  LET t == Pushes \o Both("search", Nothing) \o <<Step("decide", Root, op)>>
         IN  /\ t \in Seq(STEP) /\ Plan(t)
             /\ Steps(t) = PushSteps \cup {Step("search", s, Nothing) : s \in Son}
                             \cup {Step("decide", Root, op)}
<1>1. PICK b : b = Both("search", Nothing)
  OBVIOUS
<1>2. Nothing \in Operation /\ Nothing.add = {}
  BY UnwindType DEF Nothing, Delete
<1>3. /\ b \in Seq(STEP) /\ Plan(b)
      /\ Steps(b) = {Step("search", s, Nothing) : s \in Son}
  BY <1>1, <1>2, BothPlan
<1>4. PICK t : t = Pushes \o b
  OBVIOUS
<1>5. /\ t \in Seq(STEP) /\ Plan(t)
      /\ Steps(t) = PushSteps \cup {Step("search", s, Nothing) : s \in Son}
  BY <1>3, <1>4, PushedPlan
<1>6. \A x \in Steps(t) : x.kind \in {"push", "search"}
  BY <1>5, StepFields DEF PushSteps
<1>7. PICK d : d = Step("decide", Root, op)
  OBVIOUS
<1>8. d \in STEP /\ d.kind = "decide"
  BY <1>7, StepTypes, StepFields DEF Kind, Target
<1>9. <<d>> \in Seq(STEP) /\ Plan(<<d>>) /\ Steps(<<d>>) = {d}
  BY <1>8, PlanOfOne, StepsOfPair DEF Fit
<1>10. \A x \in Steps(t), y \in Steps(<<d>>) : Before(x, y)
  BY <1>6, <1>8, <1>9 DEF Before
<1>11. t \o <<d>> \in Seq(STEP)
  BY <1>5, <1>9
<1>12. /\ Plan(t \o <<d>>)
       /\ Steps(t \o <<d>>) = Steps(t) \cup {d}
  BY <1>5, <1>9, <1>10, PlanOfBoth, StepsOfBoth
<1>13. QED
  BY <1>1, <1>4, <1>5, <1>7, <1>11, <1>12

\* What follows a decision: the box goes, unless it was empty, the point comes.
LEMMA DecidedPlan ==
  ASSUME NEW B \in SUBSET Point, NEW r \in Point, NEW none \in BOOLEAN
  PROVE  LET t == (IF none THEN <<>> ELSE Both("op", Delete(B)) \o <<Unwind>>)
                    \o <<Step("op", SonOf[r], Add(r)), Unwind>>
             gone == IF none THEN {} ELSE {Step("op", s, Delete(B)) : s \in Son}
         IN  /\ t \in Seq(STEP) /\ Plan(t)
             /\ Ops(t) = gone \cup {Step("op", SonOf[r], Add(r))}
             /\ \A x \in Steps(t) : x.kind \in {"op", "unwind"}
<1>1. PICK a : a = Step("op", SonOf[r], Add(r))
  OBVIOUS
<1>2. /\ Add(r) \in Operation /\ SonOf[r] \in Son
      /\ Add(r).del = {} /\ Add(r).add = {r}
  BY OperationTypes, ConstAssumption DEF Add
<1>3. a.kind = "op" /\ a.at = SonOf[r] /\ a.op = Add(r)
  BY <1>1, StepFields
<1>4. Fit(a)
  BY <1>2, <1>3 DEF Fit
<1>5. PICK t2 : t2 = <<a, Unwind>>
  OBVIOUS
<1>6. t2 \in Seq(STEP) /\ Plan(t2) /\ Steps(t2) = {a, Unwind}
  BY <1>1, <1>2, <1>4, <1>5, OnePlan
<1>7. Unwind.kind = "unwind"
  BY StepFields DEF Unwind
<1>8. CASE none
  <2>1. <<>> \o t2 = t2
    BY <1>6
  <2>2. Ops(t2) = {a} /\ \A x \in Steps(t2) : x.kind \in {"op", "unwind"}
    BY <1>3, <1>6, <1>7 DEF Ops
  <2>3. QED
    BY <1>1, <1>5, <1>6, <1>8, <2>1, <2>2
<1>9. CASE ~none
  <2>1. PICK b : b = Both("op", Delete(B))
    OBVIOUS
  <2>2. Delete(B) \in Operation /\ Delete(B).add = {} /\ Delete(B).del = B
    BY OperationTypes DEF Delete
  <2>3. PICK G : G = {Step("op", s, Delete(B)) : s \in Son}
    OBVIOUS
  <2>4. \A x \in G : x.kind = "op" /\ x.op = Delete(B)
    BY <2>3, StepFields
  <2>5. b \in Seq(STEP) /\ Plan(b) /\ Steps(b) = G
    BY <2>1, <2>2, <2>3, BothPlan
  <2>6. PICK t1 : t1 = b \o <<Unwind>>
    OBVIOUS
  <2>7. t1 \in Seq(STEP) /\ Plan(t1) /\ Steps(t1) = G \cup {Unwind}
    BY <2>4, <2>5, <2>6, UnwoundPlan
  <2>8. \A x \in Steps(t1), y \in Steps(t2) : Before(x, y)
    BY <1>2, <1>3, <1>6, <1>7, <2>2, <2>4, <2>7 DEF Before
  <2>9. PICK t : t = t1 \o t2
    OBVIOUS
  <2>10. t \in Seq(STEP)
    BY <1>6, <2>7, <2>9
  <2>11. Plan(t) /\ Steps(t) = Steps(t1) \cup Steps(t2)
    BY <1>6, <2>7, <2>8, <2>9, PlanOfBoth, StepsOfBoth
  <2>12. Ops(t) = G \cup {a} /\ \A x \in Steps(t) : x.kind \in {"op", "unwind"}
    BY <1>3, <1>6, <1>7, <2>4, <2>7, <2>11 DEF Ops
  <2>13. QED
    BY <1>1, <1>5, <1>9, <2>1, <2>3, <2>6, <2>9, <2>10, <2>11, <2>12
<1>10. QED
  BY <1>8, <1>9
-----------------------------------------------------------------------------
(* The plan of a request is kept.                                           *)

LEMMA InitRequest == Init => RequestInv
<1> SUFFICES ASSUME Init PROVE RequestInv
  OBVIOUS
<1>1. todo = <<>> /\ box = {} /\ found = {} /\ mpc = "run"
  BY DEF Init
<1>2. Plan(todo) /\ Steps(todo) = {}
  BY <1>1, PlanOfOne, StepsOfPair
<1>3. Routed /\ NullEmpty
  BY DEF Init, Split, Routed, NullEmpty
<1>4. PushesFirst /\ DeletionsLeft
  BY <1>2 DEF PushesFirst, DeletionsLeft, Ops
<1>5. FoundSoFar
  BY <1>1, <1>2 DEF FoundSoFar
<1>6. QED
  BY <1>2, <1>3, <1>4, <1>5 DEF RequestInv

\* The step at hand.
LEMMA HereFits ==
  ASSUME TypeOK, todo # <<>>, Plan(todo)
  PROVE  /\ Here \in Steps(todo) /\ Fit(Here)
         /\ Plan(Tail(todo)) /\ Steps(todo) = {Here} \cup Steps(Tail(todo))
         /\ \A y \in Steps(Tail(todo)) : Before(Here, y)
<1>1. PICK t : t = todo
  OBVIOUS
<1>2. t \in Seq(STEP) /\ t # <<>> /\ Plan(t) /\ Here = Head(t)
  BY <1>1 DEF TypeOK, STEP, Here
<1>3. QED
  BY <1>1, <1>2, PlanOfRest, StepsOfRest

\* The plan is kept as long as each son holds the same points.
LEMMA RequestKept ==
  ASSUME TypeOK, RequestInv, raced = {}, UNCHANGED <<todo, box, found>>, Routed',
         NullEmpty',
         \A s \in Son : Below(s)' = Below(s) /\ (pending'[s] => pending[s]),
         mpc' = "inbox" => mpc = "inbox",
         mpc' \in {"lock", "apply"} => mpc \in {"lock",
         "apply"} \/ At("op") \/ At("push")
  PROVE  RequestInv'
<1>1. Map' = Map
  BY DEF Map
<1>2. Plan(todo) /\ FoundSoFar /\ PushesFirst /\ DeletionsLeft
  BY DEF RequestInv
<1>3. Plan(todo)' /\ DeletionsLeft'
  BY <1>1, <1>2 DEF DeletionsLeft, Ops
<1>4. PushesFirst'
  BY <1>2 DEF PushesFirst, Plan, Fit
<1>5. mpc = "inbox" => Here.at \in Son
  <2>1. mpc = "inbox" => todo # <<>> /\ Here.kind = "search"
    BY <1>2 DEF TypeOK, FoundSoFar
  <2>2. QED
    BY <1>2, <2>1, HereFits DEF Fit
<1>6. Here' = Here
  BY DEF Here
<1>7. FoundSoFar'
  <2>1. \A x \in Steps(todo)' : x.kind = "decide" =>
          /\ x.op.add \subseteq box'
          /\ found' \subseteq Map' \cap box'
          /\ \A p \in (Map' \cap box') \ found' :
               \E y \in Steps(todo') : y.kind = "search" /\ y.at = SonOf[p]
    BY <1>1, <1>2 DEF FoundSoFar
  <2>2. mpc' = "inbox" => Here'.kind = "search" /\ Below(Here.at)' \cap box' \subseteq found'
    <3>1. PICK s : s = Here.at
      OBVIOUS
    <3>2. mpc' = "inbox" => Below(s)' = Below(s)
      BY <1>5, <3>1
    <3>3. Here'.at = s
      BY <1>6, <3>1
    <3>4. mpc' = "inbox" => Here.kind = "search" /\ Below(s) \cap box \subseteq found
      BY <1>2, <3>1 DEF FoundSoFar
    <3>5. mpc' = "inbox" => Here'.kind = "search" /\ Below(s)' \cap box' \subseteq found'
      BY <1>6, <3>2, <3>4
    <3>6. QED
      BY <3>3, <3>5 DEF Below
  <2>3. mpc' \in {"lock", "apply"} => Here'.kind \in {"op", "push"}
    BY <1>2, <1>6 DEF FoundSoFar, At, Here
  <2>4. QED
    BY <1>2, <1>6, <2>1, <2>2, <2>3 DEF FoundSoFar
<1>8. QED
  BY <1>3, <1>4, <1>7 DEF RequestInv
-----------------------------------------------------------------------------
(* The rebuild thread moves points from node to node, never from son to son.*)

LEMMA RebuildKeepsSons ==
  ASSUME ReplayInv, Routed, NullEmpty, RNext, raced' = {}
  PROVE  /\ raced = {} /\ Routed' /\ NullEmpty' /\ UNCHANGED <<todo, box, found>>
         /\ \A s \in Son : Below(s)' = Below(s) /\ (pending'[s] => pending[s])
         /\ mpc' \in {mpc, "crashed"}
<1> USE DEF shared, tree, rvars, mvars, walk, svars
<1>1. /\ raced = {} /\ UNCHANGED <<todo, box, found>>
      /\ mpc' \in {mpc, "crashed"}
  BY DEF RNext, RLockPtr, RNoRequest, RAccept, LockSearch, RLockSearch, RFlatten,
    RUnlockSearch, RRelock, RReplay, RLockSearch2, RLockSearchEmpty, Replace,
    RSwap, REmptyCrash, REmptySwap, RLostRequest, Crash, RFinish, RClearFlag, RDelete
<1>2. TypeOK
  BY DEF ReplayInv, SearchInv
<1>3. CASE RFlatten
  <2>0. rooted /\ NullEmpty'
    BY <1>3 DEF RFlatten, ReplayInv, NullIdle, NullEmpty
  <2>1. CASE target = Root
    <3>1. /\ content' = [s \in Son |-> Below(s)]
          /\ pending' = [s \in Son |-> FALSE]
      BY <1>3, <2>1 DEF RFlatten
    <3>2. \A s \in Son : Below(s)' = Below(s) /\ ~pending'[s]
      BY <3>1 DEF Below
    <3>3. Routed'
      BY <3>1 DEF Routed, Below
    <3>4. QED
      BY <1>1, <2>0, <3>2, <3>3
  <2>2. CASE target # Root
    BY <1>1, <1>3, <2>0, <2>2 DEF RFlatten, Below, Routed
  <2>3. QED
    BY <2>1, <2>2
<1>4. ASSUME NEW S \in SUBSET Point, Replace(S), S = TargetPoints, rpc \in Busy
      PROVE  /\ Routed'
             /\ \A s \in Son : Below(s)' = Below(s) /\ (pending'[s] => pending[s])
  <2>1. CASE target = Root
    <3>1. /\ content' = Split(Map)
          /\ pending' = [s \in Son |-> FALSE]
      BY <1>4, <2>1 DEF Replace, TargetPoints
    <3>2. \A s \in Son : content'[s] = {p \in Map : SonOf[p] = s}
      BY <3>1 DEF Split
    <3>3. \A s \in Son : {p \in Map : SonOf[p] = s} = Below(s)
      BY DEF Map, Below, Routed
    <3>4. \A s \in Son : Below(s)' = content'[s] /\ ~pending'[s]
      BY <3>1 DEF Below
    <3>5. Routed'
      BY <3>2 DEF Routed
    <3>6. QED
      BY <3>2, <3>3, <3>4, <3>5
  <2>2. CASE target # Root
    <3>1. UNCHANGED <<content, pending>>
      BY <1>2, <1>4, <2>2 DEF Replace, TargetPoints, TypeOK, Target
    <3>2. QED
      BY <3>1 DEF Below, Routed
  <2>3. QED
    BY <2>1, <2>2
<1>5. CASE RSwap
  <2>0. NullEmpty'
    BY <1>5 DEF RSwap, Replace, ReplayInv, NullIdle, NullEmpty
  <2>1. Rebuild_Logger = <<>>
    BY <1>1, <1>5 DEF RSwap, ReplayInv, LogEmpty
  <2>2. new = TargetPoints
    BY <1>1, <1>2, <1>5, <2>1, ReplayNothing
    DEF RSwap, ReplayInv, ReplayCatchesUp, Copied, TypeOK
  <2>3. QED
    BY <1>1, <1>2, <1>4, <1>5, <2>0, <2>2 DEF RSwap, TypeOK, Busy, Copied
<1>6. CASE REmptySwap
  <2>0. NullEmpty'
    BY <1>6 DEF REmptySwap, Replace, ReplayInv, NullIdle, NullEmpty, Split
  <2>1. Rebuild_Logger = <<>>
    BY <1>6 DEF REmptySwap
  <2>2. {} = TargetPoints
    BY <1>1, <1>6, <2>1, ReplayNothing
    DEF REmptySwap, ReplayInv, ReplayCatchesUp, EmptyCopy, Copied
  <2>3. QED
    BY <1>1, <1>4, <1>6, <2>0, <2>2 DEF REmptySwap, Busy, Copied
<1>7. CASE UNCHANGED tree
  BY <1>1, <1>7 DEF Below, Routed, NullEmpty
<1>8. QED
  BY <1>1, <1>3, <1>5, <1>6, <1>7 DEF RNext, RLockPtr, RNoRequest, RAccept,
    LockSearch, RLockSearch, RUnlockSearch, RRelock, RReplay, RLockSearch2,
    RLockSearchEmpty, REmptyCrash, RLostRequest, Crash, RFinish, RClearFlag, RDelete

LEMMA RebuildRequest == ReplayInv /\ RequestInv /\ RNext => RequestInv'
<1> SUFFICES ASSUME ReplayInv, RequestInv, RNext, raced' = {} PROVE RequestInv'
  BY DEF RequestInv
<1>1. TypeOK
  BY DEF ReplayInv, SearchInv
<1>2. raced = {}
  BY DEF RNext, RLockPtr, RNoRequest, RAccept, LockSearch, RLockSearch, RFlatten,
    RUnlockSearch, RRelock, RReplay, RLockSearch2, RLockSearchEmpty, Replace,
    RSwap, REmptyCrash, REmptySwap, RLostRequest, Crash, RFinish, RClearFlag, RDelete
<1>3. Routed /\ NullEmpty
  BY <1>2 DEF RequestInv
<1>4. QED
  BY <1>1, <1>2, <1>3, RebuildKeepsSons, RequestKept
-----------------------------------------------------------------------------
(* The mapper lays out a request.                                           *)

LEMMA IdleRequest ==
  RequestInv /\ raced = {} /\ todo = <<>> => box = {} /\ found = {}
BY StepsOfPair DEF RequestInv, FoundSoFar

LEMMA LaidOut ==
  ASSUME TypeOK, RequestInv, raced = {}, todo = <<>>, mpc = "run",
         UNCHANGED <<content, pending, rooted, mpc, found>>,
         NEW t \in Seq(STEP), todo' = t, Plan(t),
         \A x \in Steps(t) : x.kind = "push" => x \in PushSteps,
         \/ PushSteps \subseteq Steps(t)
         \/ \A x \in Steps(t) : x.kind # "decide" /\ (x.kind = "op" => x.at = Root),
         \A x \in Ops(t) : \A p \in x.op.del \cap Map :
           \E y \in Ops(t) : p \in y.op.del /\ y.at \in {SonOf[p], Root},
         box' # {} => \E x \in Steps(t) : x.kind = "decide",
         \A x \in Steps(t) : x.kind = "decide" =>
           /\ x.op.add \subseteq box'
           /\ \A p \in Map \cap box' :
                \E y \in Steps(t) : y.kind = "search" /\ y.at = SonOf[p]
  PROVE  RequestInv'
<1>1. Map' = Map /\ \A s \in Son : Below(s)' = Below(s)
  BY DEF Map, Below
<1>2. found' = {}
  BY IdleRequest
<1>3. Plan(todo)' /\ Routed' /\ NullEmpty'
  BY DEF RequestInv, Routed, NullEmpty
<1>4. DeletionsLeft'
  BY <1>1 DEF DeletionsLeft
<1>5. FoundSoFar'
  BY <1>1, <1>2 DEF FoundSoFar
<1>6. \A x \in PushSteps : x.kind = "push" /\ x.at \in Son /\ Below(x.at) = {}
  <2>1. ASSUME NEW s \in Son, pending[s]
        PROVE  LET x == Step("push", s, Delete(Point))
               IN  x.kind = "push" /\ x.at \in Son /\ Below(x.at) = {}
    BY <2>1, StepFields DEF Below
  <2>2. QED
    BY <2>1 DEF PushSteps
<1>7. PushesFirst'
  <2>1. ASSUME NEW x \in Steps(t), x.kind = "push" PROVE Below(x.at)' = {}
    BY <1>6, <2>1 DEF Below
  <2>2. ASSUME NEW x \in Steps(t), NEW s \in Son, pending[s],
               (x.kind = "op" /\ x.at = s) \/ x.kind = "decide"
        PROVE  \E y \in Steps(t) : y.kind = "push" /\ y.at = s
    <3>1. PushSteps \subseteq Steps(t)
      BY <2>2 DEF Root, Son
    <3>2. PICK y : y = Step("push", s, Delete(Point))
      OBVIOUS
    <3>3. y \in PushSteps /\ y.kind = "push" /\ y.at = s
      BY <2>2, <3>2, StepFields DEF PushSteps
    <3>4. QED
      BY <3>1, <3>3
  <2>3. QED
    BY <2>1, <2>2 DEF PushesFirst
<1>8. QED
  BY <1>3, <1>4, <1>5, <1>7 DEF RequestInv

\* One operation on the whole tree.
LEMMA RootPlan ==
  ASSUME NEW op \in Operation
  PROVE  LET x == Step("op", Root, op)
         IN  /\ <<x>> \in Seq(STEP) /\ Plan(<<x>>)
             /\ Steps(<<x>>) = {x} /\ Ops(<<x>>) = {x}
             /\ x.kind = "op" /\ x.at = Root /\ x.op = op
<1>1. PICK x : x = Step("op", Root, op)
  OBVIOUS
<1>2. x \in STEP /\ x.kind = "op" /\ x.at = Root /\ x.op = op
  BY <1>1, StepTypes, StepFields DEF Kind, Target
<1>3. Fit(x)
  BY <1>2 DEF Fit, Root, Son
<1>4. Steps(<<x>>) = {x}
  BY StepsOfPair
<1>5. Plan(<<x>>) /\ Ops(<<x>>) = {x}
  BY <1>2, <1>3, <1>4, PlanOfOne DEF Ops
<1>6. QED
  BY <1>1, <1>2, <1>4, <1>5

LEMMA PushKinds == \A x \in PushSteps : x.kind = "push"
BY StepFields DEF PushSteps

LEMMA DeleteBoxRequest ==
  ASSUME ReplayInv, RequestInv, NEW B \in Box, MDeleteBox(B), raced = {}
  PROVE  RequestInv'
<1> USE DEF tree, mvars, walk, svars, shared, rvars
<1>1. /\ TypeOK /\ B \in SUBSET Point
      /\ Delete(B) \in Operation /\ Delete(B).del = B
  BY ConstAssumption, OperationTypes DEF ReplayInv, SearchInv, Delete
<1>2. /\ todo = <<>> /\ mpc = "run" /\ box = {} /\ found = {}
      /\ UNCHANGED <<content, rooted, mpc, found, box, raced>>
  BY IdleRequest DEF MDeleteBox, Request, Ready
<1>3. CASE todo' = <<>> /\ pending' \in {pending, [s \in Son |-> rooted]}
  <2>1. Plan(todo)' /\ Steps(todo)' = {} /\ Ops(todo)' = {}
    BY <1>3, PlanOfOne, StepsOfPair DEF Ops
  <2>2. Routed' /\ NullEmpty' /\ PushesFirst' /\ DeletionsLeft'
    BY <1>2, <1>3, <2>1 DEF RequestInv, Routed, NullEmpty, PushesFirst, DeletionsLeft
  <2>3. FoundSoFar'
    BY <1>2, <2>1 DEF FoundSoFar
  <2>4. QED
    BY <2>1, <2>2, <2>3 DEF RequestInv
<1>4. CASE /\ todo' = <<Step("op", Root, Delete(B))>>
           /\ UNCHANGED pending
  <2>1. PICK x : x = Step("op", Root, Delete(B))
    OBVIOUS
  <2>2. PICK t : t = <<x>>
    OBVIOUS
  <2>3. /\ t \in Seq(STEP) /\ Plan(t) /\ Steps(t) = {x} /\ Ops(t) = {x}
        /\ x.kind = "op" /\ x.at = Root /\ x.op = Delete(B)
    BY <1>1, <2>1, <2>2, RootPlan
  <2>4. todo' = t
    BY <1>4, <2>1, <2>2
  <2>5. QED
    BY <1>1, <1>2, <1>4, <2>3, <2>4, LaidOut
<1>5. CASE /\ todo' = Pushes \o Both("op", Delete(B)) \o <<Unwind>>
           /\ UNCHANGED pending
  <2>1. PICK t : t = Pushes \o Both("op", Delete(B)) \o <<Unwind>>
    OBVIOUS
  <2>2. /\ t \in Seq(STEP) /\ Plan(t)
        /\ Steps(t) = PushSteps \cup {Step("op", s, Delete(B)) : s \in Son}
                      \cup {Unwind}
    BY <1>1, <2>1, BoxPlan
  <2>3. todo' = t
    BY <1>5, <2>1
  <2>4. PICK G : G = {Step("op", s, Delete(B)) : s \in Son}
    OBVIOUS
  <2>5. /\ \A x \in G : x.kind = "op" /\ x.op.del = B
        /\ \A s \in Son : \E x \in G : x.at = s
    BY <1>1, <2>4, StepFields
  <2>6. Unwind.kind = "unwind"
    BY StepFields DEF Unwind
  <2>7. Ops(t) = G
    BY <2>2, <2>4, <2>5, <2>6, PushKinds DEF Ops
  <2>8. \A p \in Map : SonOf[p] \in Son
    BY <1>1, MapInPoint, ConstAssumption
  <2>9. \A x \in Ops(t) : \A p \in x.op.del \cap Map :
          \E y \in Ops(t) : p \in y.op.del /\ y.at \in {SonOf[p], Root}
    BY <2>5, <2>7, <2>8
  <2>10. /\ PushSteps \subseteq Steps(t)
         /\ \A x \in Steps(t) : /\ x.kind = "push" => x \in PushSteps
                                /\ x.kind # "decide"
    BY <2>2, <2>4, <2>5, <2>6, PushKinds
  <2>11. QED
    BY <1>1, <1>2, <1>5, <2>2, <2>3, <2>9, <2>10, LaidOut
<1>6. QED
  BY <1>3, <1>4, <1>5 DEF MDeleteBox, Request
\* What Add_Points and Delete_Points ask for.
PointOps(p) == {Add(p), Delete({p})}

LEMMA PointRequest ==
  ASSUME ReplayInv, RequestInv, NEW p \in Point, NEW op \in PointOps(p),
         MPoint(p, op), raced = {}
  PROVE  RequestInv'
<1> USE DEF tree, mvars, walk, svars, shared, rvars
<1>1. /\ TypeOK /\ op \in Operation /\ SonOf[p] \in Son
      /\ op.add = {} \/ op.del = {}
      /\ op.add \subseteq {p} /\ op.del \subseteq {p}
  BY ConstAssumption, OperationTypes DEF ReplayInv, SearchInv, PointOps, Add, Delete
<1>2. /\ todo = <<>> /\ mpc = "run" /\ box = {} /\ found = {}
      /\ UNCHANGED <<content, pending, rooted, mpc, found, box, raced>>
  BY IdleRequest DEF MPoint, Request, Ready
<1>3. CASE todo' = <<>>
  <2>1. Plan(<<>>) /\ Steps(<<>>) = {} /\ Ops(<<>>) = {} /\ <<>> \in Seq(STEP)
    BY PlanOfOne, StepsOfPair DEF Ops
  <2>2. PICK t : t = <<>>
    OBVIOUS
  <2>3. QED
    BY <1>1, <1>2, <1>3, <2>1, <2>2, LaidOut
<1>4. CASE todo' = <<Step("op", Root, op)>>
  <2>1. PICK x : x = Step("op", Root, op)
    OBVIOUS
  <2>2. PICK t : t = <<x>>
    OBVIOUS
  <2>3. /\ t \in Seq(STEP) /\ Plan(t) /\ Steps(t) = {x} /\ Ops(t) = {x}
        /\ x.kind = "op" /\ x.at = Root /\ x.op = op
    BY <1>1, <2>1, <2>2, RootPlan
  <2>4. todo' = t
    BY <1>4, <2>1, <2>2
  <2>5. QED
    BY <1>1, <1>2, <2>3, <2>4, LaidOut
<1>5. CASE todo' = Pushes \o <<Step("op", SonOf[p], op), Unwind>>
  <2>1. PICK x : x = Step("op", SonOf[p], op)
    OBVIOUS
  <2>2. x.kind = "op" /\ x.at = SonOf[p] /\ x.op = op
    BY <2>1, StepFields
  <2>3. Fit(x)
    BY <1>1, <2>2 DEF Fit
  <2>4. PICK u : u = <<x, Unwind>>
    OBVIOUS
  <2>5. u \in Seq(STEP) /\ Plan(u) /\ Steps(u) = {x, Unwind}
    BY <1>1, <2>1, <2>3, <2>4, OnePlan
  <2>6. PICK t : t = Pushes \o u
    OBVIOUS
  <2>7. t \in Seq(STEP) /\ Plan(t) /\ Steps(t) = PushSteps \cup {x, Unwind}
    BY <2>5, <2>6, PushedPlan
  <2>8. todo' = t
    BY <1>5, <2>1, <2>4, <2>6
  <2>9. Unwind.kind = "unwind"
    BY StepFields DEF Unwind
  <2>10. Ops(t) = {x}
    BY <2>2, <2>7, <2>9, PushKinds DEF Ops
  <2>11. \A y \in Ops(t) : \A q \in y.op.del \cap Map :
          \E z \in Ops(t) : q \in z.op.del /\ z.at \in {SonOf[q], Root}
    BY <1>1, <2>2, <2>10
  <2>12. /\ PushSteps \subseteq Steps(t)
         /\ \A y \in Steps(t) : /\ y.kind = "push" => y \in PushSteps
                                /\ y.kind # "decide"
    BY <2>2, <2>7, <2>9, PushKinds
  <2>13. QED
    BY <1>1, <1>2, <2>7, <2>8, <2>11, <2>12, LaidOut
<1>6. QED
  BY <1>3, <1>4, <1>5 DEF MPoint, Request

LEMMA DownsampleRequest ==
  ASSUME ReplayInv, RequestInv, NEW V \in Voxel, NEW p \in V, MDownsample(p, V),
         raced = {}
  PROVE  RequestInv'
<1> USE DEF tree, mvars, walk, svars, shared, rvars
<1>1. /\ TypeOK /\ V \in SUBSET Point
      /\ Add(p) \in Operation /\ Add(p).add = {p}
  BY ConstAssumption, OperationTypes DEF ReplayInv, SearchInv, Add
<1>2. /\ todo = <<>> /\ mpc = "run" /\ box' = V
      /\ UNCHANGED <<content, pending, rooted, mpc, found, raced>>
      /\ todo' = Pushes \o Both("search", Nothing) \o <<Step("decide", Root, Add(p))>>
  BY DEF MDownsample, Request, Ready
<1>3. PICK d : d = Step("decide", Root, Add(p))
  OBVIOUS
<1>4. d.kind = "decide" /\ d.op.add = {p}
  BY <1>1, <1>3, StepFields
<1>5. PICK t : t = Pushes \o Both("search", Nothing) \o <<d>>
  OBVIOUS
<1>6. PICK G : G = {Step("search", s, Nothing) : s \in Son}
  OBVIOUS
<1>7. /\ t \in Seq(STEP) /\ Plan(t)
      /\ Steps(t) = PushSteps \cup G \cup {d}
  BY <1>1, <1>3, <1>5, <1>6, SearchPlan
<1>8. /\ \A x \in G : x.kind = "search"
      /\ \A s \in Son : \E x \in G : x.at = s
  BY <1>6, StepFields
<1>9. Ops(t) = {}
  BY <1>4, <1>7, <1>8, PushKinds DEF Ops
<1>10. \A q \in Map : SonOf[q] \in Son
  BY <1>1, MapInPoint, ConstAssumption
<1>11. \A x \in Steps(t) : x.kind = "push" => x \in PushSteps
  BY <1>4, <1>7, <1>8
<1>12. \A x \in Steps(t) : x.kind = "decide" =>
         /\ x.op.add \subseteq box'
         /\ \A q \in Map \cap box' :
              \E y \in Steps(t) : y.kind = "search" /\ y.at = SonOf[q]
  <2>1. \A x \in Steps(t) : x.kind = "decide" => x = d
    BY <1>4, <1>7, <1>8, PushKinds
  <2>2. d.op.add \subseteq box'
    BY <1>2, <1>4
  <2>3. ASSUME NEW q \in Map \cap box'
        PROVE  \E y \in Steps(t) : y.kind = "search" /\ y.at = SonOf[q]
    <3>1. PICK y \in G : y.at = SonOf[q]
      BY <1>8, <1>10
    <3>2. QED
      BY <1>7, <1>8, <3>1
  <2>4. QED
    BY <2>1, <2>2, <2>3
<1>13. todo' = t /\ d \in Steps(t) /\ PushSteps \subseteq Steps(t)
  BY <1>2, <1>3, <1>5, <1>7
<1>14. QED
  BY <1>1, <1>2, <1>4, <1>7, <1>9, <1>11, <1>12, <1>13, LaidOut
-----------------------------------------------------------------------------
(* The mapper looks for points and comes back to the root.                  *)

LEMMA WhereItIs ==
  ASSUME Routed, NEW p \in Map
  PROVE  SonOf[p] \in Son /\ p \in Below(SonOf[p])
BY DEF Routed, Map, Below

LEMMA LookedAt ==
  ASSUME TypeOK, RequestInv, raced = {}, todo # <<>>, todo' = Tail(todo),
         Here.kind \in {"search", "unwind"}, box' = box, Routed', NullEmpty',
         \A s \in Son : Below(s)' = Below(s) /\ (pending'[s] => pending[s]),
         mpc' = "run", found \subseteq found',
         found' \subseteq found \cup (Map \cap box),
         Here.kind = "search" => Below(Here.at) \cap box \subseteq found'
  PROVE  RequestInv'
<1>1. Map' = Map
  BY DEF Map
<1>2. PICK h, rest : h = Here /\ rest = Tail(todo)
  OBVIOUS
<1>3. /\ Plan(todo) /\ Routed /\ PushesFirst /\ DeletionsLeft /\ FoundSoFar
      /\ Fit(h) /\ Plan(rest) /\ Steps(todo) = {h} \cup Steps(rest)
      /\ todo' = rest /\ h.kind \in {"search", "unwind"}
  BY <1>2, HereFits DEF RequestInv
<1>4. Plan(todo)'
  BY <1>3
<1>5. PushesFirst'
  <2>1. ASSUME NEW x \in Steps(rest), x.kind = "push" PROVE Below(x.at)' = {}
    <3>1. PICK s : s = x.at
      OBVIOUS
    <3>2. s \in Son /\ Below(s) = {}
      BY <1>3, <2>1, <3>1 DEF PushesFirst, Plan, Fit
    <3>3. QED
      BY <3>1, <3>2
  <2>2. QED
    BY <1>3, <2>1 DEF PushesFirst
<1>6. Ops(todo) = Ops(rest)
  BY <1>3 DEF Ops
<1>7. DeletionsLeft'
  BY <1>1, <1>3, <1>6 DEF DeletionsLeft
<1>8. FoundSoFar'
  <2>1. ASSUME NEW x \in Steps(rest), x.kind = "decide",
               NEW p \in (Map \cap box) \ found'
        PROVE  \E y \in Steps(rest) : y.kind = "search" /\ y.at = SonOf[p]
    <3>1. PICK y \in Steps(todo) : y.kind = "search" /\ y.at = SonOf[p]
      BY <1>3, <2>1 DEF FoundSoFar
    <3>2. p \in Below(SonOf[p])
      BY <1>3, WhereItIs
    <3>3. y # h
      BY <1>2, <3>1, <3>2
    <3>4. QED
      BY <1>3, <3>1, <3>3
  <2>2. ASSUME NEW x \in Steps(rest), x.kind = "decide"
        PROVE  x.op.add \subseteq box /\ found' \subseteq Map \cap box
    BY <1>3, <2>2 DEF FoundSoFar
  <2>3. box # {} \/ found' # {} => \E x \in Steps(rest) : x.kind = "decide"
    <3>1. box # {} \/ found' # {} => box # {} \/ found # {}
      OBVIOUS
    <3>2. QED
      BY <1>3, <3>1 DEF FoundSoFar
  <2>4. QED
    BY <1>1, <1>3, <2>1, <2>2, <2>3 DEF FoundSoFar
<1>9. QED
  BY <1>4, <1>5, <1>7, <1>8 DEF RequestInv

LEMMA SearchRequest ==
  /\ ReplayInv /\ RequestInv
  /\ MSearchLock \/ MSearchUnlock \/ MSearch \/ MUnwind \/ MUnwindEmpty
  => RequestInv'
<1> SUFFICES ASSUME ReplayInv, RequestInv, raced = {},
                    \/ MSearchLock \/ MSearchUnlock \/ MSearch
                    \/ MUnwind \/ MUnwindEmpty
             PROVE  RequestInv'
  BY DEF RequestInv, MSearchLock, MSearchUnlock, MSearch, MUnwind, MUnwindEmpty
<1> USE DEF tree, mvars, walk, svars, shared, rvars
<1>1. TypeOK /\ Plan(todo) /\ Routed /\ NullEmpty /\ FoundSoFar
  BY DEF ReplayInv, SearchInv, RequestInv
<1>2. ASSUME todo # <<>>, Here.kind = "search"
      PROVE  Here.at \in Son /\ Below(Here.at) \subseteq Map
  <2>1. Here.at \in Son
    BY <1>1, <1>2, HereFits DEF Fit
  <2>2. QED
    BY <2>1 DEF Map
<1>0. ASSUME UNCHANGED <<content, pending, rooted>>
      PROVE  /\ Routed' /\ NullEmpty'
             /\ \A s \in Son : Below(s)' = Below(s) /\ (pending'[s] => pending[s])
  BY <1>0, <1>1 DEF Routed, NullEmpty, Below
<1>3. CASE MSearchLock
  <2>1. /\ todo # <<>> /\ Here.kind = "search" /\ mpc = "run"
        /\ UNCHANGED <<content, pending, rooted, todo, box>>
        /\ found' = found \cup (Below(Here.at) \cap box)
        /\ mpc' = "inbox"
    BY <1>3 DEF MSearchLock, At, Here
  <2>2. Map' = Map /\ \A s \in Son : Below(s)' = Below(s)
    BY <2>1 DEF Map, Below
  <2>3. Plan(todo)' /\ Routed' /\ NullEmpty' /\ PushesFirst' /\ DeletionsLeft'
    <3>1. Routed' /\ NullEmpty'
      BY <1>0, <2>1
    <3>2. PushesFirst'
      BY <1>1, <2>1, <2>2 DEF RequestInv, PushesFirst, Plan, Fit
    <3>3. DeletionsLeft'
      BY <2>1, <2>2 DEF RequestInv, DeletionsLeft, Ops
    <3>4. QED
      BY <1>1, <2>1, <3>1, <3>2, <3>3
  <2>4. PICK F : F = Below(Here.at) \cap box
    OBVIOUS
  <2>5. F \subseteq Map \cap box /\ found' = found \cup F
    BY <1>2, <2>1, <2>4
  <2>6. Here' = Here /\ Below(Here.at)' \cap box' \subseteq found'
    BY <2>1, <2>2 DEF Here, Below
  <2>7. box' # {} \/ found' # {} => box # {} \/ found # {}
    BY <2>1, <2>5
  <2>8. \A x \in Steps(todo) : x.kind = "decide" =>
          /\ x.op.add \subseteq box'
          /\ found' \subseteq Map' \cap box'
          /\ \A p \in (Map' \cap box') \ found' :
               \E y \in Steps(todo) : y.kind = "search" /\ y.at = SonOf[p]
    BY <1>1, <2>1, <2>2, <2>5 DEF FoundSoFar
  <2>9. FoundSoFar'
    BY <1>1, <2>1, <2>6, <2>7, <2>8 DEF FoundSoFar
  <2>10. QED
    BY <2>3, <2>9 DEF RequestInv
<1>4. CASE MSearchUnlock
  <2>1. /\ todo # <<>> /\ Here.kind = "search"
        /\ Below(Here.at) \cap box \subseteq found
    BY <1>1, <1>4 DEF MSearchUnlock, TypeOK, FoundSoFar
  <2>2. /\ todo' = Tail(todo) /\ UNCHANGED <<content, pending, rooted, box, found>>
        /\ mpc' = "run"
    BY <1>4 DEF MSearchUnlock
  <2>3. QED
    BY <1>0, <1>1, <2>1, <2>2, LookedAt
<1>5. CASE MSearch
  <2>1. /\ todo # <<>> /\ Here.kind = "search"
        /\ todo' = Tail(todo) /\ UNCHANGED <<content, pending, rooted, box>>
        /\ mpc' = "run" /\ found' = found \cup (Below(Here.at) \cap box)
    BY <1>5 DEF MSearch, At, Here
  <2>2. QED
    BY <1>0, <1>1, <1>2, <2>1, LookedAt
<1>6. CASE MUnwind
  <2>1. /\ todo # <<>> /\ Here.kind = "unwind"
        /\ todo' = Tail(todo) /\ UNCHANGED <<content, pending, rooted, box, found>>
        /\ mpc' = "run"
    BY <1>6 DEF MUnwind, At, Here
  <2>2. QED
    BY <1>0, <1>1, <2>1, LookedAt
<1>7. CASE MUnwindEmpty
  <2>1. /\ todo # <<>> /\ Here.kind = "unwind"
        /\ todo' = Tail(todo) /\ UNCHANGED <<box, found>>
        /\ mpc' = "run"
    BY <1>7 DEF MUnwindEmpty, At, Here
  <2>2. /\ Map = {} /\ content' = [s \in Son |-> {}]
        /\ pending' = [s \in Son |-> FALSE]
    BY <1>7 DEF MUnwindEmpty
  <2>3. \A s \in Son : Below(s) = {} /\ Below(s)' = {} /\ ~pending'[s]
    BY <2>2 DEF Map, Below
  <2>4. Routed' /\ NullEmpty'
    BY <2>2 DEF Routed, NullEmpty
  <2>5. QED
    BY <1>1, <2>1, <2>3, <2>4, LookedAt
<1>8. QED
  BY <1>3, <1>4, <1>5, <1>6, <1>7
-----------------------------------------------------------------------------
(* The mapper decides which point of the downsampling box stays.            *)

\* When it does it has seen the box as it is, and the sons are up to date.
LEMMA DecideKnows ==
  ASSUME TypeOK, RequestInv, raced = {}, At("decide")
  PROVE  /\ Steps(todo) = {Here} /\ \A s \in Son : ~pending[s]
         /\ found = Map \cap box /\ Here.op.add \subseteq box
<1>1. PICK h, rest : h = Here /\ rest = Tail(todo)
  OBVIOUS
<1>2. /\ todo # <<>> /\ h.kind = "decide" /\ Steps(todo) = {h} \cup Steps(rest)
      /\ \A y \in Steps(rest) : Before(h, y)
      /\ PushesFirst /\ FoundSoFar
  BY <1>1, HereFits DEF RequestInv, At, Here
<1>3. Steps(todo) = {h}
  BY <1>2 DEF Before
<1>4. \A s \in Son : ~pending[s]
  BY <1>2, <1>3 DEF PushesFirst
<1>5. found = Map \cap box /\ h.op.add \subseteq box
  BY <1>2, <1>3 DEF FoundSoFar
<1>6. QED
  BY <1>1, <1>3, <1>4, <1>5

LEMMA DecideRequest ==
  ASSUME ReplayInv, RequestInv, NEW r \in Point, MDecide(r), raced = {}
  PROVE  RequestInv'
<1> USE DEF tree, mvars, walk, svars, shared, rvars
<1>1. /\ TypeOK /\ Plan(todo) /\ Routed /\ At("decide")
      /\ box' = {} /\ found' = {} /\ mpc' = "run"
      /\ UNCHANGED <<content, pending, rooted>>
  BY DEF ReplayInv, SearchInv, RequestInv, MDecide, At
<1>2. \A s \in Son : ~pending[s]
  BY <1>1, DecideKnows
<1>3. Map' = Map /\ \A p \in Map : SonOf[p] \in Son
  BY <1>1, WhereItIs DEF Map, Below
<1>4. ASSUME NEW t, todo' = t, Plan(t), \A x \in Steps(t) : x.kind \in {"op", "unwind"},
             \A x \in Ops(t) : \A p \in x.op.del \cap Map :
               \E y \in Ops(t) : p \in y.op.del /\ y.at \in {SonOf[p], Root}
      PROVE  RequestInv'
  <2>1. Routed' /\ NullEmpty' /\ Plan(todo)'
    BY <1>1, <1>4 DEF RequestInv, Routed, NullEmpty
  <2>2. PushesFirst'
    BY <1>1, <1>2, <1>4 DEF PushesFirst
  <2>3. DeletionsLeft'
    BY <1>3, <1>4 DEF DeletionsLeft
  <2>4. FoundSoFar'
    BY <1>1, <1>4 DEF FoundSoFar
  <2>5. QED
    BY <2>1, <2>2, <2>3, <2>4 DEF RequestInv
<1>5. CASE todo' = <<>>
  <2>1. Plan(<<>>) /\ Steps(<<>>) = {} /\ Ops(<<>>) = {}
    BY PlanOfOne, StepsOfPair DEF Ops
  <2>2. QED
    BY <1>4, <1>5, <2>1
<1>6. ASSUME NEW op \in Operation, todo' = <<Step("op", Root, op)>>
      PROVE  RequestInv'
  <2>1. PICK x, t : x = Step("op", Root, op) /\ t = <<x>>
    OBVIOUS
  <2>2. /\ Plan(t) /\ Steps(t) = {x} /\ Ops(t) = {x}
        /\ x.kind = "op" /\ x.at = Root /\ x.op = op
    BY <2>1, RootPlan
  <2>3. todo' = t
    BY <1>6, <2>1
  <2>4. QED
    BY <1>4, <2>2, <2>3
<1>7. CASE todo' = (IF found = {} THEN <<>> ELSE Both("op", Delete(box)) \o <<Unwind>>)
                     \o <<Step("op", SonOf[r], Add(r)), Unwind>>
  <2>1. PICK B, none, a : /\ B = box /\ none = (found = {}) /\ none \in BOOLEAN
                          /\ a = Step("op", SonOf[r], Add(r))
    OBVIOUS
  <2>2. PICK t : t = (IF none THEN <<>> ELSE Both("op", Delete(B)) \o <<Unwind>>)
                       \o <<Step("op", SonOf[r], Add(r)), Unwind>>
    OBVIOUS
  <2>3. PICK G : G = {Step("op", s, Delete(B)) : s \in Son}
    OBVIOUS
  <2>4. B \in SUBSET Point
    BY <1>1, <2>1 DEF TypeOK
  <2>5. /\ Plan(t) /\ \A x \in Steps(t) : x.kind \in {"op", "unwind"}
        /\ Ops(t) = (IF none THEN {} ELSE G) \cup {a}
    BY <2>1, <2>2, <2>3, <2>4, DecidedPlan
  <2>6. /\ a.op.del = {}
        /\ \A x \in G : x.op.del = B
        /\ \A s \in Son : \E x \in G : x.at = s
    BY <2>1, <2>3, StepFields DEF Add, Delete
  <2>7. todo' = t
    BY <1>7, <2>1, <2>2
  <2>8. \A x \in Ops(t) : \A p \in x.op.del \cap Map :
          \E y \in Ops(t) : p \in y.op.del /\ y.at \in {SonOf[p], Root}
    BY <1>3, <2>5, <2>6
  <2>9. QED
    BY <1>4, <2>5, <2>7, <2>8
<1>8. [del |-> IF found = {} THEN {} ELSE box, add |-> {r}] \in Operation
  BY <1>1 DEF TypeOK, Operation
<1>9. QED
  BY <1>5, <1>6, <1>7, <1>8 DEF MDecide
-----------------------------------------------------------------------------
(* The mapper operates on the tree.                                         *)

\* A deletion that is pushed down is already seen.
LEMMA ActedPush ==
  ASSUME TypeOK, RequestInv, raced = {}, todo # <<>>, Here.kind = "push",
         Act(Here.at, Here.op)
  PROVE  /\ Here.at \in Son /\ Routed'
         /\ \A s \in Son : /\ Below(s)' = Below(s)
                           /\ pending'[s] => pending[s] /\ s # Here.at
<1>1. PICK h, a : h = Here /\ a = h.at
  OBVIOUS
<1>2. /\ h \in Steps(todo) /\ h.kind = "push" /\ a \in Son /\ h.op = Delete(Point)
      /\ Routed /\ Below(a) = {}
  BY <1>1, HereFits DEF RequestInv, Fit, PushesFirst
<1>3. a # Root /\ Cover(a) = {a}
  BY <1>2 DEF Son, Root, Cover
<1>4. /\ content' = [content EXCEPT ![a] = Perform(@, Delete(Point))]
      /\ pending' = [s \in Son |-> IF s = a THEN FALSE ELSE pending[s]]
  BY <1>1, <1>2, <1>3 DEF Act
<1>5. /\ content'[a] = {} /\ \A s \in Son : s # a => content'[s] = content[s]
      /\ ~pending'[a] /\ \A s \in Son : s # a => pending'[s] = pending[s]
  BY <1>2, <1>4 DEF TypeOK, Perform, Delete
<1>6. \A s \in Son : Below(s)' = Below(s)
  BY <1>2, <1>5 DEF Below
<1>7. Routed'
  BY <1>2, <1>5 DEF Routed
<1>8. QED
  BY <1>1, <1>2, <1>5, <1>6, <1>7

\* An operation that comes to a son finds what the map has there, and changes that.
LEMMA ActedSon ==
  ASSUME TypeOK, RequestInv, raced = {}, todo # <<>>, Here.kind = "op",
         Here.at \in Son, Act(Here.at, Here.op)
  PROVE  /\ Routed'
         /\ \A s \in Son :
              /\ Below(s)' =
                   IF s = Here.at THEN Perform(Below(s), Here.op) ELSE Below(s)
              /\ pending'[s] => pending[s]
<1>1. PICK h, a, op : h = Here /\ a = h.at /\ op = h.op
  OBVIOUS
<1>2. PICK rest : rest = Tail(todo)
  OBVIOUS
<1>3. /\ h.kind = "op" /\ a \in Son /\ Fit(h)
      /\ Steps(todo) = {h} \cup Steps(rest)
      /\ \A y \in Steps(rest) : Before(h, y)
      /\ Routed /\ PushesFirst
  BY <1>1, <1>2, HereFits DEF RequestInv
<1>4. a # Root /\ Cover(a) = {a}
  BY <1>3 DEF Son, Root, Cover
<1>5. /\ content' = [content EXCEPT ![a] = Perform(@, op)]
      /\ pending' = [s \in Son |-> IF s = a THEN FALSE ELSE pending[s]]
  BY <1>1, <1>4 DEF Act
<1>6. /\ content'[a] = Perform(content[a], op)
      /\ \A s \in Son : s # a => content'[s] = content[s]
      /\ ~pending'[a] /\ \A s \in Son : s # a => pending'[s] = pending[s]
  BY <1>3, <1>5 DEF TypeOK
<1>7. ~pending[a]
  <2>1. ASSUME pending[a] PROVE FALSE
    <3>1. PICK y \in Steps(todo) : y.kind = "push" /\ y.at = a
      BY <1>1, <1>3, <2>1 DEF PushesFirst
    <3>2. QED
      BY <1>3, <3>1 DEF Before
  <2>2. QED
    BY <2>1
<1>8. Below(a)' = Perform(Below(a), op)
  BY <1>3, <1>6, <1>7 DEF Below
<1>9. \A s \in Son : s # a => Below(s)' = Below(s)
  BY <1>6 DEF Below
<1>10. Routed'
  <2>1. \A p \in Perform(content[a], op) : SonOf[p] = a
    BY <1>1, <1>3 DEF Routed, Perform, Fit
  <2>2. QED
    BY <1>3, <1>6, <2>1 DEF Routed
<1>11. QED
  BY <1>1, <1>6, <1>8, <1>9, <1>10

\* An operation on the whole tree is the last step, and brings it up to date.
LEMMA ActedRoot ==
  ASSUME ReplayInv, RequestInv, raced = {}, todo # <<>>, Here.kind \in {"op", "push"},
         Here.at = Root, Act(Here.at, Here.op)
  PROVE  /\ Tail(todo) = <<>> /\ Here.kind = "op"
         /\ Routed' /\ Map' = Perform(Map, Here.op)
         /\ \A s \in Son : ~pending'[s]
<1>1. PICK h, op : h = Here /\ op = h.op
  OBVIOUS
<1>2. /\ TypeOK /\ todo \in Seq(STEP) /\ Plan(todo) /\ Routed
  BY DEF ReplayInv, SearchInv, RequestInv, TypeOK, STEP
<1>3. h \in STEP /\ Fit(h) /\ op \in Operation /\ h.kind \in {"op",
"push"} /\ h.at = Root
  BY <1>1, <1>2, HereFits, HereType
<1>4. h.kind = "op"
  BY <1>3 DEF Fit, Son, Root
<1>5. h \notin Aside
  BY <1>3 DEF Aside, Son, Root
<1>6. todo \notin Seq(Aside)
  <2>1. todo \in Seq(Aside) => h \in Aside
    BY <1>1 DEF Here
  <2>2. QED
    BY <1>5, <2>1
<1>7. Tail(todo) = <<>>
  <2>1. Len(todo) = 1
    BY <1>6 DEF ReplayInv, RootAlone
  <2>2. Tail(todo) \in Seq(STEP) /\ Len(Tail(todo)) = 0
    BY <1>2, <2>1, HeadTailProperties
  <2>3. QED
    BY <2>2, EmptySeq
<1>8. op.add \subseteq Point
  BY <1>3 DEF Operation
<1>9. /\ content' = [s \in Son |-> (Below(s) \ op.del) \cup Split(op.add)[s]]
      /\ pending' = [s \in Son |-> FALSE]
  BY <1>1, <1>3 DEF Act, Cover
<1>10. \A s \in Son : /\ Below(s)' = (Below(s) \ op.del) \cup Split(op.add)[s]
                      /\ content'[s] = (Below(s) \ op.del) \cup Split(op.add)[s]
                      /\ ~pending'[s]
  BY <1>9 DEF Below
<1>11. \A s \in Son : Split(op.add)[s] = {p \in op.add : SonOf[p] = s}
  BY DEF Split
<1>12. UNION {Split(op.add)[s] : s \in Son} = op.add
  BY <1>8, <1>11, ConstAssumption
<1>13. Map' = Perform(Map, op)
  BY <1>10, <1>12 DEF Map, Perform
<1>14. Routed'
  BY <1>2, <1>10, <1>11 DEF Routed, Below
<1>15. QED
  BY <1>1, <1>4, <1>7, <1>10, <1>13, <1>14
\* Under a null root nothing is added, so nothing comes to be there.
LEMMA NullActed ==
  ASSUME TypeOK, NullEmpty, NEW h \in STEP, Act(h.at, h.op), Fit(h),
         rooted \/ h.kind = "push" \/ h.op.add = {}
  PROVE  NullEmpty'
<1> SUFFICES ASSUME ~rooted, NEW s \in Son PROVE content'[s] = {} /\ ~pending'[s]
  BY DEF NullEmpty, Act
<1>1. h.op.add = {}
  BY DEF Fit, Delete
<1>2. content[s] = {} /\ ~pending[s] /\ Below(s) = {}
  BY DEF NullEmpty, Below
<1>3. ~pending'[s]
  BY <1>2 DEF Act
<1>4. CASE h.at = Root
  BY <1>1, <1>2, <1>4 DEF Act, Split
<1>5. CASE h.at # Root
  <2>1. Perform({}, h.op) = {}
    BY <1>1 DEF Perform
  <2>2. content' = [content EXCEPT ![h.at] = Perform(@, h.op)]
    BY <1>5 DEF Act
  <2>3. QED
    BY <1>2, <1>3, <2>1, <2>2 DEF TypeOK
<1>6. QED
  BY <1>3, <1>4, <1>5

LEMMA ActRequest ==
  ASSUME ReplayInv, RequestInv, raced = {}, todo # <<>>, Here.kind \in {"op", "push"},
         Act(Here.at, Here.op), todo' = Tail(todo), UNCHANGED <<box, found>>,
         mpc' = "run", rooted \/ Here.kind = "push" \/ Here.op.add = {}
  PROVE  RequestInv'
<1>1. PICK h, a, op, rest : h = Here /\ a = h.at /\ op = h.op /\ rest = Tail(todo)
  OBVIOUS
<1>2. /\ TypeOK /\ Plan(todo) /\ Routed /\ PushesFirst /\ DeletionsLeft /\ FoundSoFar
      /\ h.kind \in {"op", "push"} /\ todo' = rest
  BY <1>1 DEF ReplayInv, SearchInv, RequestInv
<1>3. /\ Fit(h) /\ Plan(rest) /\ Steps(todo) = {h} \cup Steps(rest)
      /\ \A y \in Steps(rest) : Before(h, y)
      /\ a \in Target
  BY <1>1, <1>2, HereFits, HereType DEF TypeOK, STEP
<1>4. Plan(todo)' /\ NullEmpty'
  <2>1. h \in STEP /\ NullEmpty /\ Act(h.at, h.op)
    BY <1>1, <1>2, HereType DEF RequestInv, TypeOK, STEP
  <2>2. NullEmpty'
    BY <1>1, <1>2, <1>3, <2>1, NullActed
  <2>3. QED
    BY <1>2, <1>3, <2>2
<1>5. CASE h.kind = "push"
  <2>1. /\ a \in Son /\ Routed'
        /\ \A s \in Son : /\ Below(s)' = Below(s)
                          /\ pending'[s] => pending[s] /\ s # a
    BY <1>1, <1>2, <1>5, ActedPush
  <2>2. Map' = Map
    BY <2>1 DEF Map
  <2>3. Ops(todo) = Ops(rest)
    BY <1>3, <1>5 DEF Ops
  <2>4. DeletionsLeft'
    BY <1>2, <2>2, <2>3 DEF DeletionsLeft
  <2>5. PushesFirst'
    <3>1. ASSUME NEW x \in Steps(rest), x.kind = "push" PROVE Below(x.at)' = {}
      <4>1. PICK s : s = x.at
        OBVIOUS
      <4>2. s \in Son /\ Below(s) = {}
        BY <1>2, <1>3, <3>1, <4>1 DEF PushesFirst, Plan, Fit
      <4>3. QED
        BY <2>1, <4>1, <4>2
    <3>2. ASSUME NEW x \in Steps(rest), NEW s \in Son, pending'[s],
                 (x.kind = "op" /\ x.at = s) \/ x.kind = "decide"
          PROVE  \E y \in Steps(rest) : y.kind = "push" /\ y.at = s
      <4>1. pending[s] /\ s # a
        BY <2>1, <3>2
      <4>2. PICK y \in Steps(todo) : y.kind = "push" /\ y.at = s
        BY <1>2, <1>3, <3>2, <4>1 DEF PushesFirst
      <4>3. y # h
        BY <1>1, <4>1, <4>2
      <4>4. QED
        BY <1>3, <4>2, <4>3
    <3>3. QED
      BY <1>2, <3>1, <3>2 DEF PushesFirst
  <2>6. FoundSoFar'
    <3>1. box # {} \/ found # {} => \E x \in Steps(rest) : x.kind = "decide"
      BY <1>2, <1>3, <1>5 DEF FoundSoFar
    <3>2. ASSUME NEW x \in Steps(rest), x.kind = "decide"
          PROVE  /\ x.op.add \subseteq box /\ found \subseteq Map \cap box
                 /\ \A p \in (Map \cap box) \ found :
                      \E y \in Steps(rest) : y.kind = "search" /\ y.at = SonOf[p]
      <4>1. /\ x.op.add \subseteq box /\ found \subseteq Map \cap box
            /\ \A p \in (Map \cap box) \ found :
                 \E y \in Steps(todo) : y.kind = "search" /\ y.at = SonOf[p]
        BY <1>2, <1>3, <3>2 DEF FoundSoFar
      <4>2. \A y \in Steps(todo) : y.kind = "search" => y \in Steps(rest)
        BY <1>3, <1>5
      <4>3. QED
        BY <4>1, <4>2
    <3>3. QED
      BY <1>2, <2>2, <3>1, <3>2 DEF FoundSoFar
  <2>7. QED
    BY <1>4, <2>1, <2>4, <2>5, <2>6 DEF RequestInv
<1>6. CASE h.kind = "op"
  <2>1. \A y \in Steps(rest) : y.kind \notin {"push", "search", "decide"}
    BY <1>3, <1>6 DEF Before
  <2>2. box = {} /\ found = {}
    <3>1. \A x \in Steps(todo) : x.kind # "decide"
      BY <1>3, <1>6, <2>1
    <3>2. QED
      BY <1>2, <3>1 DEF FoundSoFar
  <2>3. FoundSoFar'
    BY <1>2, <2>1, <2>2 DEF FoundSoFar
  <2>4. CASE a = Root
    <3>1. rest = <<>> /\ Routed'
      BY <1>1, <1>6, <2>4, ActedRoot
    <3>2. Steps(rest) = {} /\ Ops(rest) = {}
      BY <3>1, StepsOfPair DEF Ops
    <3>3. PushesFirst' /\ DeletionsLeft'
      BY <1>2, <3>2 DEF PushesFirst, DeletionsLeft
    <3>4. QED
      BY <1>4, <2>3, <3>1, <3>3 DEF RequestInv
  <2>5. CASE a \in Son
    <3>1. /\ Routed'
          /\ \A s \in Son : /\ Below(s)' =
                                 IF s = a THEN Perform(Below(s), op) ELSE Below(s)
                            /\ pending'[s] => pending[s]
      BY <1>1, <1>2, <1>6, <2>5, ActedSon
    <3>2. PushesFirst'
      <4>1. ASSUME NEW x \in Steps(rest), NEW s \in Son, pending'[s],
                   (x.kind = "op" /\ x.at = s) \/ x.kind = "decide"
            PROVE  \E y \in Steps(rest) : y.kind = "push" /\ y.at = s
        <5>1. PICK y \in Steps(todo) : y.kind = "push" /\ y.at = s
          BY <1>2, <1>3, <3>1, <4>1 DEF PushesFirst
        <5>2. QED
          BY <1>3, <1>6, <2>1, <5>1
      <4>2. QED
        BY <1>2, <2>1, <4>1 DEF PushesFirst
    <3>3. DeletionsLeft'
      <4>1. SUFFICES ASSUME NEW x \in Ops(rest), NEW p \in x.op.del \cap Map'
                     PROVE  \E y \in Ops(rest) : p \in y.op.del /\ y.at \in {SonOf[p], Root}
        BY <1>2 DEF DeletionsLeft
      <4>2. op.add = {}
        BY <1>1, <1>3, <1>6 DEF Ops, Before
      <4>3. \A s \in Son : Below(s)' \subseteq Below(s)
        BY <3>1, <4>2 DEF Perform
      <4>4. Map' \subseteq Map
        BY <4>3 DEF Map
      <4>5. x \in Ops(todo) /\ p \in Map
        BY <1>3, <4>4 DEF Ops
      <4>6. PICK y \in Ops(todo) : p \in y.op.del /\ y.at \in {SonOf[p], Root}
        BY <1>2, <4>5 DEF DeletionsLeft
      <4>7. PICK s \in Son : p \in Below(s)'
        BY DEF Map
      <4>8. s = SonOf[p]
        BY <1>2, <4>3, <4>7 DEF Below, Routed
      <4>9. y # h
        <5>1. ASSUME y = h PROVE FALSE
          <6>1. a = s /\ p \in op.del
            BY <1>1, <2>5, <4>6, <4>8, <5>1 DEF Son, Root
          <6>2. p \notin Perform(Below(s), op)
            BY <4>2, <6>1 DEF Perform
          <6>3. QED
            BY <3>1, <4>7, <6>1, <6>2
        <5>2. QED
          BY <5>1
      <4>10. QED
        BY <1>3, <4>6, <4>9 DEF Ops
    <3>4. QED
      BY <1>4, <2>3, <3>1, <3>2, <3>3 DEF RequestInv
  <2>6. QED
    BY <1>3, <2>4, <2>5 DEF Target
<1>7. QED
  BY <1>2, <1>5, <1>6

\* Build.
LEMMA BuildRequest ==
  ASSUME ReplayInv, RequestInv, NEW S \in SUBSET Point, MBuild(S), raced = {}
  PROVE  RequestInv'
<1> USE DEF mvars, walk, svars, shared, rvars
<1>1. /\ todo = <<>> /\ todo' = <<>> /\ mpc' = "run" /\ box' = {} /\ found' = {}
      /\ content' = Split(S) /\ rooted'
  BY IdleRequest DEF MBuild, Request, Ready
<1>2. Plan(todo)' /\ Steps(todo)' = {} /\ Ops(todo)' = {}
  BY <1>1, PlanOfOne, StepsOfPair DEF Ops
<1>3. Routed' /\ NullEmpty'
  BY <1>1 DEF Routed, NullEmpty, Split
<1>4. PushesFirst' /\ DeletionsLeft'
  BY <1>2 DEF PushesFirst, DeletionsLeft
<1>5. FoundSoFar'
  BY <1>1, <1>2 DEF FoundSoFar
<1>6. QED
  BY <1>2, <1>3, <1>4, <1>5 DEF RequestInv

LEMMA MapperRequest == ReplayInv /\ RequestInv /\ MNext => RequestInv'
<1> SUFFICES ASSUME ReplayInv, RequestInv, MNext, raced = {}, raced' = {}
             PROVE  RequestInv'
  BY DEF RequestInv, MNext, MScan, MJoin, MDeleteBox, MPoint, MDownsample, Request,
    MSearchLock, MSearchUnlock, MSearch, MDecide, MVisit, MVisitTarget, MLock,
    MApply, MUnwind, MUnwindEmpty, MBuild, MNullRoot, Crash, Withdraw
<1> USE DEF shared, tree, rvars, mvars, walk, svars
<1>1. TypeOK /\ Plan(todo) /\ Routed /\ NullEmpty /\ FoundSoFar
  BY DEF ReplayInv, SearchInv, RequestInv
<1>2. CASE MScan \/ MJoin \/ MVisitTarget \/ MLock \/ MNullRoot
  <2>1. /\ UNCHANGED <<todo, box, found, content, pending, rooted>>
        /\ mpc' # "inbox"
        /\ mpc' \in {"lock", "apply"} =>
             mpc \in {"lock", "apply"} \/ At("op") \/ At("push")
    BY <1>2 DEF MScan, MJoin, MVisitTarget, MLock, MNullRoot, Crash
  <2>2. /\ Routed' /\ NullEmpty'
        /\ \A s \in Son : Below(s)' = Below(s) /\ (pending'[s] => pending[s])
    BY <1>1, <2>1 DEF Routed, NullEmpty, Below
  <2>3. QED
    BY <1>1, <2>1, <2>2, RequestKept
<1>3. CASE MVisit
  <2>1. /\ todo # <<>> /\ Here.kind \in {"op", "push"}
        /\ Act(Here.at, Here.op) /\ todo' = Tail(todo) /\ UNCHANGED <<box, found>>
        /\ mpc' = "run" /\ (rooted \/ Here.kind = "push")
    BY <1>3 DEF MVisit, At, Here
  <2>2. QED
    BY <2>1, ActRequest
<1>4. CASE MApply
  <2>1. /\ todo # <<>> /\ Here.kind \in {"op", "push"}
        /\ Act(Here.at, Here.op) /\ todo' = Tail(todo) /\ UNCHANGED <<box, found>>
        /\ mpc' = "run" /\ (rooted \/ Here.op.add = {})
    BY <1>1, <1>4 DEF MApply, TypeOK, FoundSoFar
  <2>2. QED
    BY <2>1, ActRequest
<1>5. \A p \in Point : Add(p) \in PointOps(p) /\ Delete({p}) \in PointOps(p)
  BY DEF PointOps
<1>6. QED
  BY <1>2, <1>3, <1>4, <1>5, DeleteBoxRequest, PointRequest, DownsampleRequest,
    SearchRequest, DecideRequest, BuildRequest, ConstAssumption DEF MNext
LEMMA RequestStep == ReplayInv /\ RequestInv /\ [Next]_vars => RequestInv'
<1> SUFFICES ASSUME ReplayInv, RequestInv, [Next]_vars PROVE RequestInv'
  OBVIOUS
<1>1. CASE UNCHANGED <<content, pending, rooted, todo, box, found, mpc, raced>>
  <2>1. Map' = Map /\ Here' = Here /\ \A s \in Son : Below(s)' = Below(s)
    BY <1>1 DEF Map, Below, Here
  <2>2. TypeOK
    BY DEF ReplayInv, SearchInv
  <2>3. raced = {} => Routed' /\ NullEmpty'
    BY <1>1 DEF RequestInv, Routed, NullEmpty
  <2>4. raced = {} => RequestInv'
    BY <1>1, <2>1, <2>2, <2>3, RequestKept
  <2>5. QED
    BY <1>1, <2>4 DEF RequestInv
<1>2. CASE SNext
  BY <1>1, <1>2 DEF SNext, SVisit, SEnter, SLeave, SWalkEnd, SDone, shared, tree,
    mvars
<1>3. CASE UNCHANGED vars
  BY <1>1, <1>3 DEF vars, tree, mvars
<1>4. QED
  BY <1>2, <1>3, RebuildRequest, MapperRequest DEF Next, Down

LEMMA RequestInvariant == Spec => [](ReplayInv /\ RequestInv)
<1>1. Init => ReplayInv /\ RequestInv
  BY InitReplay, InitRequest
<1>2. ReplayInv /\ RequestInv /\ [Next]_vars => ReplayInv' /\ RequestInv'
  BY ReplayStep, RequestStep
<1>3. QED
  BY <1>1, <1>2, PTL DEF Spec

-----------------------------------------------------------------------------
(* The tree implements a set of points.  Every step of the three threads is *)
(* a step of PointMap, or leaves all it shows unchanged.                    *)

Taken(t) == UNION {x.op.del : x \in Ops(t)}
Put(t)   == UNION {x.op.add : x \in Ops(t)}

\* What the map shows of itself.
LEMMA Shown ==
  /\ UNION {op.del : op \in OpsLeft} = Taken(todo)
  /\ UNION {op.add : op \in OpsLeft} = Put(todo)
<1>1. OpsLeft = {x.op : x \in Ops(todo)}
  BY DEF OpsLeft, Ops, Steps
<1>2. QED
  BY <1>1 DEF Taken, Put

LEMMA ShownNext ==
  /\ UNION {op.del : op \in OpsLeft'} = Taken(todo')
  /\ UNION {op.add : op \in OpsLeft'} = Put(todo')
<1>1. OpsLeft' = {x.op : x \in Ops(todo')}
  BY DEF OpsLeft, Ops, Steps
<1>2. QED
  BY <1>1 DEF Taken, Put

LEMMA NothingLeft == Taken(<<>>) = {} /\ Put(<<>>) = {}
BY StepsOfPair DEF Taken, Put, Ops

LEMMA OneLeft ==
  ASSUME NEW t, NEW x, Ops(t) = {x}
  PROVE  Taken(t) = x.op.del /\ Put(t) = x.op.add
BY DEF Taken, Put

LEMMA SameShown ==
  ASSUME raced = {}, raced' = {}, Map' = Map, box' = box, Ops(todo') = Ops(todo)
  PROVE  UNCHANGED PM!vars
<1>1. Taken(todo') = Taken(todo) /\ Put(todo') = Put(todo)
  BY DEF Taken, Put
<1>2. QED
  BY <1>1, Shown, ShownNext DEF PM!vars, OrNone

LEMMA Escaped ==
  ASSUME raced' # {}
  PROVE  [PM!Next]_(PM!vars)
<1>1. CASE raced = {}
  BY <1>1 DEF PM!Next, PM!Escape, OrNone
<1>2. CASE raced # {}
  BY <1>2 DEF PM!vars, OrNone
<1>3. QED
  BY <1>1, <1>2

LEMMA InitShown == Init => PM!Init
<1> SUFFICES ASSUME Init PROVE PM!Init
  OBVIOUS
<1>1. Map \in SUBSET Point
  BY InitType, MapInPoint
<1>2. raced = {} /\ box = {} /\ todo = <<>>
  BY DEF Init
<1>3. QED
  BY <1>1, <1>2, Shown, NothingLeft DEF PM!Init, OrNone
LEMMA IdleShown ==
  ASSUME RequestInv, raced = {}, todo = <<>>
  PROVE  PM!Idle /\ Taken(todo) = {} /\ Put(todo) = {} /\ box = {}
BY IdleRequest, Shown, NothingLeft DEF PM!Idle, OrNone

LEMMA DeleteBoxShown ==
  ASSUME ReplayInv, RequestInv, NEW B \in Box, MDeleteBox(B), raced = {}
  PROVE  [PM!Next]_(PM!vars)
<1> USE DEF tree, mvars, walk, svars, shared, rvars
<1>1. /\ TypeOK /\ B \in SUBSET Point
      /\ Delete(B) \in Operation /\ Delete(B).del = B /\ Delete(B).add = {}
  BY ConstAssumption, OperationTypes DEF ReplayInv, SearchInv, Delete
<1>2. /\ todo = <<>> /\ raced' = {} /\ box' = box /\ UNCHANGED <<content, rooted>>
  BY DEF MDeleteBox, Request, Ready
<1>3. ASSUME UNCHANGED pending, Taken(todo') = B, Put(todo') = {}
      PROVE  [PM!Next]_(PM!vars)
  <2>1. Map' = Map
    BY <1>2, <1>3 DEF Map, Below
  <2>2. PM!DeleteBox(B)
    BY <1>2, <1>3, <2>1, IdleShown, Shown, ShownNext DEF PM!DeleteBox, OrNone
  <2>3. QED
    BY <2>2 DEF PM!Next
<1>4. CASE todo' = <<>> /\ UNCHANGED pending
  <2>1. Map' = Map
    BY <1>2, <1>4 DEF Map, Below
  <2>2. QED
    BY <1>2, <1>4, <2>1, SameShown
<1>5. CASE todo' = <<>> /\ B = Point /\ pending' = [s \in Son |-> rooted]
  <2>1. Map' = {}
    BY <1>2, <1>5 DEF RequestInv, NullEmpty, Map, Below
  <2>2. Taken(todo') = {} /\ Put(todo') = {}
    BY <1>5, NothingLeft
  <2>3. PM!DeleteAll
    BY <1>2, <1>5, <2>1, <2>2, IdleShown, Shown, ShownNext DEF PM!DeleteAll, OrNone
  <2>4. QED
    BY <2>3 DEF PM!Next
<1>6. CASE todo' = <<Step("op", Root, Delete(B))>> /\ UNCHANGED pending
  <2>1. PICK x, t : x = Step("op", Root, Delete(B)) /\ t = <<x>>
    OBVIOUS
  <2>2. Ops(t) = {x} /\ x.op = Delete(B) /\ todo' = t
    BY <1>1, <1>6, <2>1, RootPlan
  <2>3. Taken(todo') = B /\ Put(todo') = {}
    BY <1>1, <2>2, OneLeft
  <2>4. QED
    BY <1>3, <1>6, <2>3
<1>7. CASE /\ todo' = Pushes \o Both("op", Delete(B)) \o <<Unwind>>
           /\ UNCHANGED pending
  <2>1. PICK t, G : /\ t = Pushes \o Both("op", Delete(B)) \o <<Unwind>>
                    /\ G = {Step("op", s, Delete(B)) : s \in Son}
    OBVIOUS
  <2>2. Steps(t) = PushSteps \cup G \cup {Unwind} /\ todo' = t
    BY <1>1, <1>7, <2>1, BoxPlan
  <2>3. /\ \A x \in G : x.kind = "op" /\ x.op = Delete(B)
        /\ \E x \in G : TRUE
    BY <2>1, StepFields DEF Son
  <2>4. Unwind.kind = "unwind"
    BY StepFields DEF Unwind
  <2>5. Ops(t) = G
    BY <2>2, <2>3, <2>4, PushKinds DEF Ops
  <2>6. Taken(t) = B /\ Put(t) = {}
    BY <1>1, <2>3, <2>5 DEF Taken, Put
  <2>7. QED
    BY <1>3, <1>7, <2>2, <2>6
<1>8. QED
  BY <1>4, <1>5, <1>6, <1>7 DEF MDeleteBox, Request

LEMMA BuildShown ==
  ASSUME ReplayInv, RequestInv, NEW S \in SUBSET Added, MBuild(S), raced = {}
  PROVE  [PM!Next]_(PM!vars)
<1> USE DEF mvars, walk, svars, shared, rvars
<1>1. /\ todo = <<>> /\ todo' = <<>> /\ raced' = {} /\ box' = box /\ ~rooted
      /\ content' = Split(S) /\ pending' = [s \in Son |-> FALSE]
  BY DEF MBuild, Request, Ready
<1>2. Map = {}
  BY <1>1 DEF RequestInv, NullEmpty, Map, Below
<1>3. Map' = S
  <2>1. \A s \in Son : Below(s)' = {p \in S : SonOf[p] = s}
    BY <1>1 DEF Below, Split
  <2>2. QED
    BY <2>1, ConstAssumption DEF Map
<1>4. PM!Refill(S)
  BY <1>1, <1>2, <1>3, IdleShown, Shown, ShownNext, NothingLeft
  DEF PM!Refill, PM!Idle, OrNone
<1>5. QED
  BY <1>4 DEF PM!Next

LEMMA PointShown ==
  ASSUME ReplayInv, RequestInv, NEW p \in Point, NEW op \in PointOps(p),
         MPoint(p, op), raced = {},
         op = Add(p) => p \in Added, op = Delete({p}) => p \in Deleted
  PROVE  [PM!Next]_(PM!vars)
<1> USE DEF tree, mvars, walk, svars, shared, rvars
<1>1. /\ TypeOK /\ op \in Operation /\ SonOf[p] \in Son
      /\ op.add = {} \/ op.del = {}
      /\ op = Add(p) => op.add = {p} /\ op.del = {}
      /\ op = Delete({p}) => op.del = {p} /\ op.add = {}
  BY ConstAssumption, OperationTypes DEF ReplayInv, SearchInv, PointOps, Add, Delete
<1>2. /\ todo = <<>> /\ UNCHANGED <<content, pending, box>> /\ raced' = {}
  BY DEF MPoint, Request, Ready
<1>3. Map' = Map
  BY <1>2 DEF Map, Below
<1>4. ASSUME Taken(todo') = op.del, Put(todo') = op.add
      PROVE  [PM!Next]_(PM!vars)
  <2>1. CASE op = Add(p)
    <3>1. PM!Insert(p) /\ p \in Added
      BY <1>1, <1>2, <1>3, <1>4, <2>1, IdleShown, Shown, ShownNext
      DEF PM!Insert, OrNone
    <3>2. QED
      BY <3>1 DEF PM!Next
  <2>2. CASE op = Delete({p})
    <3>1. PM!DeleteBox({p}) /\ {p} \in Box \cup {{q} : q \in Deleted}
      BY <1>1, <1>2, <1>3, <1>4, <2>2, IdleShown, Shown, ShownNext
      DEF PM!DeleteBox, OrNone
    <3>2. QED
      BY <3>1 DEF PM!Next
  <2>3. QED
    BY <2>1, <2>2 DEF PointOps
<1>5. CASE todo' = <<>>
  BY <1>2, <1>3, <1>5, SameShown
<1>6. CASE todo' = <<Step("op", Root, op)>>
  <2>1. PICK x, t : x = Step("op", Root, op) /\ t = <<x>>
    OBVIOUS
  <2>2. Ops(t) = {x} /\ x.op = op /\ todo' = t
    BY <1>1, <1>6, <2>1, RootPlan
  <2>3. QED
    BY <1>4, <2>2, OneLeft
<1>7. CASE todo' = Pushes \o <<Step("op", SonOf[p], op), Unwind>>
  <2>1. PICK x : x = Step("op", SonOf[p], op)
    OBVIOUS
  <2>2. PICK u : u = <<x, Unwind>>
    OBVIOUS
  <2>3. PICK t : t = Pushes \o u
    OBVIOUS
  <2>4. x.kind = "op" /\ x.at = SonOf[p] /\ x.op = op
    BY <2>1, StepFields
  <2>5. Fit(x)
    <3>1. \A q \in op.add : q = p
      BY <1>1 DEF PointOps
    <3>2. QED
      BY <1>1, <2>4, <3>1 DEF Fit
  <2>6. u \in Seq(STEP) /\ Plan(u) /\ Steps(u) = {x, Unwind}
    BY <1>1, <2>1, <2>2, <2>5, OnePlan
  <2>7. Steps(t) = PushSteps \cup {x, Unwind} /\ todo' = t
    BY <1>7, <2>1, <2>2, <2>3, <2>6, PushedPlan
  <2>8. Unwind.kind = "unwind"
    BY StepFields DEF Unwind
  <2>9. Ops(t) = {x}
    BY <2>4, <2>7, <2>8, PushKinds DEF Ops
  <2>10. QED
    BY <1>4, <2>4, <2>7, <2>9, OneLeft
<1>8. QED
  BY <1>5, <1>6, <1>7 DEF MPoint, Request

LEMMA DownsampleShown ==
  ASSUME ReplayInv, RequestInv, NEW V \in Voxel, NEW p \in V, MDownsample(p, V),
         raced = {}
  PROVE  [PM!Next]_(PM!vars)
<1> USE DEF tree, mvars, walk, svars, shared, rvars
<1>1. Add(p) \in Operation
  BY ConstAssumption, OperationTypes
<1>2. /\ todo = <<>> /\ box' = V /\ UNCHANGED <<content, pending>> /\ raced' = {}
      /\ todo' = Pushes \o Both("search", Nothing) \o <<Step("decide", Root, Add(p))>>
  BY DEF MDownsample, Request, Ready
<1>3. Map' = Map
  BY <1>2 DEF Map, Below
<1>4. PICK d : d = Step("decide", Root, Add(p))
  OBVIOUS
<1>5. PICK t, G : /\ t = Pushes \o Both("search", Nothing) \o <<d>>
                  /\ G = {Step("search", s, Nothing) : s \in Son}
  OBVIOUS
<1>6. Steps(t) = PushSteps \cup G \cup {d} /\ todo' = t
  BY <1>1, <1>2, <1>4, <1>5, SearchPlan
<1>7. d.kind = "decide" /\ \A x \in G : x.kind = "search"
  BY <1>4, <1>5, StepFields
<1>8. Ops(t) = {}
  BY <1>6, <1>7, PushKinds DEF Ops
<1>9. Taken(todo') = {} /\ Put(todo') = {}
  BY <1>6, <1>8 DEF Taken, Put
<1>10. PM!Downsample(V)
  BY <1>2, <1>3, <1>9, IdleShown, Shown, ShownNext DEF PM!Downsample, OrNone
<1>11. QED
  BY <1>10 DEF PM!Next
LEMMA DecideShown ==
  ASSUME ReplayInv, RequestInv, NEW r \in Point, MDecide(r), raced = {}
  PROVE  [PM!Next]_(PM!vars)
<1> USE DEF tree, mvars, walk, svars, shared, rvars
<1>1. TypeOK /\ At("decide") /\ box \in SUBSET Point /\ IsFiniteSet(box)
  BY ConstAssumption, FS_Subset DEF ReplayInv, SearchInv, MDecide, TypeOK
<1>2. /\ box' = {} /\ UNCHANGED <<content, pending>> /\ raced' = {}
      /\ r \in found \cup Here.op.add
  BY DEF MDecide
<1>3. Map' = Map
  BY <1>2 DEF Map, Below
<1>4. /\ Steps(todo) = {Here} /\ found = Map \cap box /\ Here.op.add \subseteq box
  BY <1>1, DecideKnows
<1>5. r \in box
  BY <1>2, <1>4
<1>6. Taken(todo) = {} /\ Put(todo) = {}
  BY <1>1, <1>4 DEF At, Here, Ops, Taken, Put
<1>7. ASSUME \/ Cardinality(found) = 1 /\ Taken(todo') = {} /\ Put(todo') = {}
             \/ found = {} /\ Taken(todo') = {} /\ Put(todo') = {r}
             \/ Taken(todo') = box /\ Put(todo') = {r}
      PROVE  [PM!Next]_(PM!vars)
  <2>1. PM!Keep(r)
    <3>1. PM!Cardinality(Map \cap box) = Cardinality(found)
      BY <1>4 DEF PM!Cardinality, Cardinality
    <3>2. /\ UNION {op.del : op \in OpsLeft} = {} /\ UNION {op.add : op \in OpsLeft} = {}
      BY <1>6, Shown
    <3>3. \/ PM!Cardinality(Map \cap box) = 1 /\ Taken(todo') = {} /\ Put(todo') = {}
          \/ Map \cap box = {} /\ Taken(todo') = {} /\ Put(todo') = {r}
          \/ Taken(todo') = box /\ Put(todo') = {r}
      BY <1>4, <1>7, <3>1
    <3>4. QED
      BY <1>2, <1>3, <1>5, <3>2, <3>3, ShownNext DEF PM!Keep, OrNone
  <2>2. QED
    BY <2>1 DEF PM!Next
<1>8. CASE todo' = <<>> /\ ~(Cardinality(found) > 1 \/ r \in Here.op.add)
  <2>1. IsFiniteSet(found) /\ r \in found
    BY <1>1, <1>2, <1>4, <1>8, FS_Subset
  <2>2. Cardinality(found) \in Nat /\ Cardinality(found) # 0
    BY <2>1, FS_CardinalityType, FS_EmptySet
  <2>3. Cardinality(found) = 1
    BY <1>8, <2>2
  <2>4. QED
    BY <1>7, <1>8, <2>3, NothingLeft
<1>9. CASE todo' = <<Step("op", Root, [del |-> IF found = {} THEN {} ELSE box,
                                       add |-> {r}])>>
  <2>1. PICK op : op = [del |-> IF found = {} THEN {} ELSE box, add |-> {r}]
    OBVIOUS
  <2>2. op \in Operation
    BY <1>1, <2>1 DEF Operation
  <2>3. PICK x, t : x = Step("op", Root, op) /\ t = <<x>>
    OBVIOUS
  <2>4. Ops(t) = {x} /\ x.op = op /\ todo' = t
    BY <1>9, <2>1, <2>2, <2>3, RootPlan
  <2>5. Taken(todo') = (IF found = {} THEN {} ELSE box) /\ Put(todo') = {r}
    BY <2>1, <2>4, OneLeft
  <2>6. QED
    BY <1>7, <2>5
<1>10. CASE todo' = (IF found = {} THEN <<>> ELSE Both("op", Delete(box)) \o <<Unwind>>)
                      \o <<Step("op", SonOf[r], Add(r)), Unwind>>
  <2>1. PICK B, none, a : /\ B = box /\ none = (found = {}) /\ none \in BOOLEAN
                          /\ a = Step("op", SonOf[r], Add(r))
    OBVIOUS
  <2>2. PICK t : t = (IF none THEN <<>> ELSE Both("op", Delete(B)) \o <<Unwind>>)
                       \o <<Step("op", SonOf[r], Add(r)), Unwind>>
    OBVIOUS
  <2>3. PICK G : G = {Step("op", s, Delete(B)) : s \in Son}
    OBVIOUS
  <2>4. Ops(t) = (IF none THEN {} ELSE G) \cup {a} /\ todo' = t
    <3>1. B \in SUBSET Point
      BY <1>1, <2>1
    <3>2. Ops(t) = (IF none THEN {} ELSE G) \cup {a}
      BY <2>1, <2>2, <2>3, <3>1, DecidedPlan
    <3>3. todo' = t
      BY <1>10, <2>1, <2>2
    <3>4. QED
      BY <3>2, <3>3
  <2>5. /\ a.op.del = {} /\ a.op.add = {r}
        /\ \A x \in G : x.op.del = B /\ x.op.add = {}
        /\ \E x \in G : TRUE
    BY <2>1, <2>3, StepFields DEF Add, Delete, Son
  <2>6. CASE found = {}
    <3>1. Ops(t) = {a}
      BY <2>1, <2>4, <2>6
    <3>2. Taken(t) = {} /\ Put(t) = {r}
      BY <2>5, <3>1, OneLeft
    <3>3. QED
      BY <1>7, <2>4, <2>6, <3>2
  <2>7. CASE found # {}
    <3>1. Ops(t) = G \cup {a}
      BY <2>1, <2>4, <2>7
    <3>2. Taken(t) = B /\ Put(t) = {r}
      BY <2>5, <3>1 DEF Taken, Put
    <3>3. QED
      BY <1>7, <2>1, <2>4, <3>2
  <2>8. QED
    BY <2>6, <2>7
<1>11. QED
  BY <1>8, <1>9, <1>10 DEF MDecide
LEMMA ActShown ==
  ASSUME ReplayInv, RequestInv, raced = {}, raced' = {}, todo # <<>>,
         Here.kind \in {"op", "push"}, Act(Here.at, Here.op), todo' = Tail(todo),
         UNCHANGED box
  PROVE  [PM!Next]_(PM!vars)
<1>1. PICK h, a, op, rest : h = Here /\ a = h.at /\ op = h.op /\ rest = Tail(todo)
  OBVIOUS
<1>2. /\ TypeOK /\ Plan(todo) /\ Routed /\ DeletionsLeft
      /\ h.kind \in {"op", "push"} /\ todo' = rest
  BY <1>1 DEF ReplayInv, SearchInv, RequestInv
<1>3. /\ Fit(h) /\ Plan(rest) /\ Steps(todo) = {h} \cup Steps(rest)
      /\ \A y \in Steps(rest) : Before(h, y)
      /\ a \in Target
  BY <1>1, <1>2, HereFits, HereType DEF TypeOK, STEP
<1>4. CASE h.kind = "push"
  <2>1. \A s \in Son : Below(s)' = Below(s)
    BY <1>1, <1>2, <1>4, ActedPush
  <2>2. Map' = Map
    BY <2>1 DEF Map
  <2>3. Ops(todo) = Ops(rest)
    BY <1>3, <1>4 DEF Ops
  <2>4. QED
    BY <1>2, <2>2, <2>3, SameShown
<1>5. CASE h.kind = "op"
  <2>1. Ops(todo) = {h} \cup Ops(rest)
    BY <1>3, <1>5 DEF Ops
  <2>2. /\ Taken(todo) = op.del \cup Taken(rest)
        /\ Put(todo) = op.add \cup Put(rest)
    BY <1>1, <2>1 DEF Taken, Put
  <2>3. /\ \A y \in Ops(rest) : y.kind = "op" /\ Before(h, y)
        /\ Ops(rest) # {} => op.add = {}
    BY <1>1, <1>3, <1>5 DEF Ops, Before
  <2>4. ASSUME Map' = (Map \ op.del) \cup op.add, Ops(rest) = {}
        PROVE  [PM!Next]_(PM!vars)
    <3>1. Taken(rest) = {} /\ Put(rest) = {}
      BY <2>4 DEF Taken, Put
    <3>2. PM!Finish
      BY <1>2, <2>2, <2>4, <3>1, Shown, ShownNext DEF PM!Finish, OrNone
    <3>3. QED
      BY <3>2 DEF PM!Next
  <2>5. CASE a = Root
    <3>1. rest = <<>> /\ Map' = (Map \ op.del) \cup op.add
      BY <1>1, <1>5, <2>5, ActedRoot DEF Perform
    <3>2. QED
      BY <2>4, <3>1, StepsOfPair DEF Ops
  <2>6. CASE a \in Son
    <3>1. \A s \in Son : Below(s)' = IF s = a THEN (Below(s) \ op.del) \cup op.add
                                              ELSE Below(s)
      BY <1>1, <1>2, <1>5, <2>6, ActedSon DEF Perform
    <3>2. CASE op.add # {}
      <4>1. Ops(rest) = {} /\ op.del = {}
        BY <1>1, <1>3, <1>5, <2>3, <2>6, <3>2 DEF Fit
      <4>2. Map' = Map \cup op.add
        BY <2>6, <3>1, <4>1 DEF Map
      <4>3. QED
        BY <2>4, <4>1, <4>2
    <3>3. CASE op.add = {}
      <4>1. Map' = Map \ (op.del \cap Below(a))
        <5>1. \A p \in Map : \A s \in Son : p \in Below(s) => s = SonOf[p]
          BY <1>2 DEF Routed, Below
        <5>2. \A s \in Son : Below(s)' = IF s = a THEN Below(s) \ op.del ELSE Below(s)
          BY <3>1, <3>3
        <5>3. ASSUME NEW p \in Map' PROVE p \in Map \ (op.del \cap Below(a))
          <6>1. PICK s \in Son : p \in Below(s)'
            BY <5>3 DEF Map
          <6>2. p \in Below(s) /\ p \in Map
            BY <5>2, <6>1 DEF Map
          <6>3. QED
            BY <2>6, <5>1, <5>2, <6>1, <6>2
        <5>4. ASSUME NEW p \in Map \ (op.del \cap Below(a)) PROVE p \in Map'
          <6>1. PICK s \in Son : p \in Below(s)
            BY <5>4 DEF Map
          <6>2. p \in Below(s)'
            BY <5>2, <5>4, <6>1
          <6>3. QED
            BY <6>2 DEF Map
        <5>5. QED
          BY <5>3, <5>4
      <4>2. CASE \E y \in Ops(rest) : y.op.add = {}
        <5>1. op.del \subseteq Taken(rest)
          BY <1>1, <1>5, <2>3, <4>2 DEF Before, Taken
        <5>2. Taken(rest) = Taken(todo) /\ Put(rest) = Put(todo)
          BY <2>2, <3>3, <5>1
        <5>3. PICK D : D = op.del \cap Below(a)
          OBVIOUS
        <5>4. D \in SUBSET Taken(todo) /\ Map' = Map \ D
          BY <4>1, <5>1, <5>2, <5>3
        <5>5. PM!RemoveSome
          BY <1>2, <5>2, <5>4, Shown, ShownNext DEF PM!RemoveSome, OrNone
        <5>6. QED
          BY <5>5 DEF PM!Next
      <4>3. CASE \A y \in Ops(rest) : y.op.add # {}
        <5>1. \A y \in Ops(rest) : y.op.del = {}
          <6>1. rest \in Seq(Aside)
            BY <1>1, RestAside
          <6>2. \A y \in Steps(rest) : y \in Aside
            BY <6>1 DEF Steps
          <6>3. \A y \in Ops(rest) : y.at \in Son /\ Fit(y)
            BY <1>3, <6>2 DEF Ops, Aside, Plan
          <6>4. QED
            BY <2>3, <4>3, <6>3 DEF Fit
        <5>2. Taken(rest) = {} /\ Taken(todo) = op.del
          BY <2>2, <5>1 DEF Taken
        <5>3. ASSUME NEW p \in op.del \cap Map PROVE p \in Below(a)
          <6>1. h \in Ops(todo)
            BY <2>1
          <6>2. PICK y \in Ops(todo) : p \in y.op.del /\ y.at \in {SonOf[p], Root}
            BY <1>1, <1>2, <5>3, <6>1 DEF DeletionsLeft
          <6>3. y = h
            BY <2>1, <5>1, <6>2
          <6>4. a = SonOf[p]
            BY <1>1, <2>6, <6>2, <6>3 DEF Son, Root
          <6>5. QED
            BY <1>2, <6>4, WhereItIs
        <5>4. Map' = Map \ op.del
          BY <4>1, <5>3
        <5>5. PM!RemoveRest
          BY <1>2, <2>2, <3>3, <5>2, <5>4, Shown, ShownNext DEF PM!RemoveRest, OrNone
        <5>6. QED
          BY <5>5 DEF PM!Next
      <4>4. QED
        BY <4>2, <4>3
    <3>4. QED
      BY <3>2, <3>3
  <2>7. QED
    BY <1>3, <2>5, <2>6 DEF Target
<1>6. QED
  BY <1>2, <1>4, <1>5

LEMMA StepShown ==
  ReplayInv /\ RequestInv /\ [Next]_vars => [PM!Next]_(PM!vars)
<1> SUFFICES ASSUME ReplayInv, RequestInv, [Next]_vars, raced' = {}
             PROVE  [PM!Next]_(PM!vars)
  BY Escaped
<1> USE DEF shared, tree, rvars, mvars, walk, svars
<1>1. raced = {}
  BY DEF vars, Next, Down, RNext, RLockPtr, RNoRequest, RAccept, LockSearch,
    RLockSearch, RFlatten, RUnlockSearch, RRelock, RReplay, RLockSearch2,
    RLockSearchEmpty, Replace, RSwap, REmptyCrash, REmptySwap, RLostRequest, Crash,
    RFinish, RClearFlag,
    RDelete, MNext, MScan, MJoin, MDeleteBox, MPoint, MDownsample, Request,
    MSearchLock, MSearchUnlock, MSearch, MDecide, MVisit, MVisitTarget, MLock,
    MApply, MUnwind, MUnwindEmpty, MBuild, MNullRoot, Crash, Withdraw, SNext, SVisit,
    SEnter, SLeave, SWalkEnd, SDone
<1>2. TypeOK /\ Plan(todo) /\ Routed /\ NullEmpty /\ FoundSoFar
  BY <1>1 DEF ReplayInv, SearchInv, RequestInv
<1>3. ASSUME UNCHANGED <<content, pending, todo, box>> PROVE [PM!Next]_(PM!vars)
  <2>1. Map' = Map /\ Ops(todo') = Ops(todo)
    BY <1>3 DEF Map, Below
  <2>2. QED
    BY <1>1, <1>3, <2>1, SameShown
<1>4. CASE RNext
  <2>1. /\ UNCHANGED <<todo, box>>
        /\ \A s \in Son : Below(s)' = Below(s)
    BY <1>2, <1>4, RebuildKeepsSons
  <2>2. Map' = Map /\ Ops(todo') = Ops(todo)
    BY <2>1 DEF Map
  <2>3. QED
    BY <1>1, <2>1, <2>2, SameShown
<1>5. CASE MNext
  <2>1. CASE MScan \/ MJoin \/ MSearchLock \/ MVisitTarget \/ MLock \/ MNullRoot
    BY <1>3, <2>1 DEF MScan, MJoin, MSearchLock, MVisitTarget, MLock, MNullRoot, Crash
  <2>2. CASE MSearchUnlock \/ MSearch \/ MUnwind \/ MUnwindEmpty
    <3>1. /\ todo # <<>> /\ Here.kind \in {"search", "unwind"}
          /\ todo' = Tail(todo) /\ UNCHANGED box
      BY <1>2, <2>2 DEF MSearchUnlock, MSearch, MUnwind, MUnwindEmpty, At, Here,
        TypeOK, FoundSoFar
    <3>2. Steps(todo) = {Here} \cup Steps(Tail(todo))
      BY <1>2, <3>1, HereFits
    <3>3. Ops(todo') = Ops(todo)
      BY <3>1, <3>2 DEF Ops
    <3>4. Map' = Map
      BY <2>2 DEF MSearchUnlock, MSearch, MUnwind, MUnwindEmpty, Map, Below
    <3>5. QED
      BY <1>1, <3>1, <3>3, <3>4, SameShown
  <2>3. CASE MVisit
    <3>1. /\ todo # <<>> /\ Here.kind \in {"op", "push"}
          /\ Act(Here.at, Here.op) /\ todo' = Tail(todo) /\ UNCHANGED box
      BY <2>3 DEF MVisit, At, Here
    <3>2. QED
      BY <1>1, <3>1, ActShown
  <2>4. CASE MApply
    <3>1. /\ todo # <<>> /\ Here.kind \in {"op", "push"}
          /\ Act(Here.at, Here.op) /\ todo' = Tail(todo) /\ UNCHANGED box
      BY <1>2, <2>4 DEF MApply, TypeOK, FoundSoFar
    <3>2. QED
      BY <1>1, <3>1, ActShown
  <2>5. ASSUME NEW p \in Added, MPoint(p, Add(p)) PROVE [PM!Next]_(PM!vars)
    <3>1. p \in Point /\ Add(p) \in PointOps(p) /\ Add(p) # Delete({p})
      BY ConstAssumption DEF PointOps, Add, Delete
    <3>2. QED
      BY <1>1, <2>5, <3>1, PointShown
  <2>6. ASSUME NEW p \in Deleted, MPoint(p, Delete({p})) PROVE [PM!Next]_(PM!vars)
    <3>1. p \in Point /\ Delete({p}) \in PointOps(p) /\ Add(p) # Delete({p})
      BY ConstAssumption DEF PointOps, Add, Delete
    <3>2. QED
      BY <1>1, <2>6, <3>1, PointShown
  <2>7. QED
    BY <1>1, <1>5, <2>1, <2>2, <2>3, <2>4, <2>5, <2>6, DeleteBoxShown,
      DownsampleShown, DecideShown, BuildShown DEF MNext
<1>6. CASE SNext
  BY <1>3, <1>6 DEF SNext, SVisit, SEnter, SLeave, SWalkEnd, SDone
<1>7. CASE UNCHANGED vars
  BY <1>3, <1>7 DEF vars
<1>8. QED
  BY <1>4, <1>5, <1>6, <1>7 DEF Next, Down

\* As long as no operation escapes, the tree with its rebuild thread, its marks
\* and its log is a set of points that changes by the mapper's requests alone.
THEOREM TreeImplementsPointMap == Spec => ImplementsPointMap
BY InitShown, StepShown, RequestInvariant, PTL DEF Spec, ImplementsPointMap, PM!Spec
=============================================================================
