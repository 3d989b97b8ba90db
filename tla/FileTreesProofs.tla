---------------------------- MODULE FileTreesProofs ---------------------------
(***************************************************************************)
(* Theorems about FileTrees: reservations are exact, trees live and die    *)
(* with their users, and what a subscriber is told, for any number of      *)
(* roots, trees and clients.                                               *)
(***************************************************************************)
EXTENDS FileTrees, FoldLemmas

Joins(e) == acq[e] \in {"joined", "done"} \/ ep[e] = "subscribed"

\* An endpoint that has joined waits for a tree of its root, which is made when it
\* has acquired it.
EpInv ==
    \A e \in Endpoints :
        /\ ep[e] = "new" => acq[e] = "none"
        /\ ep[e] # "new" => want[e] \in Roots
        /\ Joins(e) => got[e] \in Trees /\ root[got[e]] = want[e]
        /\ acq[e] = "done" \/ ep[e] = "subscribed" => scan[got[e]] = "made"

\* A tree goes once through its life; while it is scanned it is the one its root
\* waits for.
TreeInv ==
    \A t \in Trees :
        /\ scan[t] = "unborn" <=> root[t] = None
        /\ scan[t] = "made" <=> evt[t] # "none"
        /\ Registered(t) => scan[t] = "made" /\ evt[t] \notin {"ended", "stopping", "done"}
        /\ scan[t] = "scanning" /\ ~down => init[root[t]] = t /\ registry[root[t]] = None

\* What the tables name is a tree of that root.
TableInv ==
    \A r \in Roots :
        /\ registry[r] # None => root[registry[r]] = r
        /\ init[r] # None => root[init[r]] = r /\ scan[init[r]] = "scanning"

\* A tree with subscribers is registered, and they are subscribed to it.
SubInv ==
    \A t \in Trees :
        /\ subs[t] # {} => Registered(t)
        /\ \A e \in subs[t] : ep[e] = "subscribed" /\ got[e] = t

\* After the shutdown nothing is left.
DownInv ==
    down => /\ \A e \in Endpoints : ep[e] \in {"new", "done"}
            /\ \A r \in Roots : registry[r] = None /\ init[r] = None /\ pending[r] = 0

\* What an endpoint removes or stops is not registered any more.
AwaitInv ==
    \A e \in Endpoints :
        awaits[e] # None => scan[awaits[e]] = "made" /\ ~Registered(awaits[e])

LifeInv == EpInv /\ TreeInv /\ TableInv /\ SubInv /\ DownInv /\ AwaitInv

\* A subscriber that is still served is in the set of its tree.
ServedInv ==
    \A e \in Endpoints :
        ep[e] = "subscribed" /\ writer[e] = "on" /\ Registered(got[e]) => e \in subs[got[e]]

Holders(r) == {e \in Endpoints : want[e] = r /\ Holding(e)}

\* ReservationsExact, with the set named.
CountInv == \A r \in Roots \ leaked : ~down => pending[r] = Cardinality(Holders(r))

\* A registered tree has a subscriber or a reservation, unless its last subscriber
\* is just being torn down.
UsedInv ==
    \A t \in Trees : Registered(t) =>
        subs[t] # {} \/ evt[t] = "tearing" \/ pending[root[t]] # 0

\* The action of DropsAreJustified.
Justified ==
    \A t \in Trees : Registered(t) /\ ~Registered(t)' =>
         \/ down'
         \/ subs[t]' = {} /\ pending[root[t]]' = 0
         \/ UNCHANGED ep /\ \A e \in subs[t] : frames[e]' = <<"error">>

-----------------------------------------------------------------------------
(* Each part of the invariant *)

\* The initial state: no tree and no client.
LEMMA InitInv == Init => TypeOK /\ LifeInv /\ ServedInv /\ ErrorIsNext /\ CountInv /\ UsedInv
<1> SUFFICES ASSUME Init
             PROVE  TypeOK /\ LifeInv /\ ServedInv /\ ErrorIsNext /\ CountInv /\ UsedInv
  OBVIOUS
<1>1. TypeOK
  <2>1. TablesOK
    <3>1. /\ registry \in [Roots -> {None}] /\ init \in [Roots -> {None}]
          /\ pending \in [Roots -> {0}]
      BY DEF Init
    <3>2. total \in Int /\ leaked \subseteq Roots /\ abandoned \subseteq Trees
      BY DEF Init
    <3>3. down \in BOOLEAN
      BY DEF Init
    <3>4. QED
      BY <3>1, <3>2, <3>3 DEF TablesOK
  <2>2. scan \in [Trees -> {"unborn"}] /\ evt \in [Trees -> {"none"}]
    BY DEF Init
  <2>3. root \in [Trees -> {None}] /\ size \in [Trees -> {0}] /\ subs \in [Trees -> {{}}]
    BY DEF Init
  <2>4. TreesOK
    BY <2>2, <2>3 DEF Init, TreesOK
  <2>5. FramesOK
    BY DEF Init, FramesOK
  <2>6. EndpointsOK
    BY DEF Init, EndpointsOK
  <2>7. QED
    BY <2>1, <2>4, <2>5, <2>6 DEF TypeOK
<1>2. LifeInv /\ ServedInv /\ ErrorIsNext /\ UsedInv
  BY DEF Init, ErrorIsNext, LifeInv, EpInv, Joins, TreeInv, TableInv, SubInv, DownInv, AwaitInv,
     ServedInv, UsedInv, Registered
<1>3. CountInv
  <2>1. \A r \in Roots : Holders(r) = {}
    BY FileTreesAssumption DEF Init, Holders, Holding
  <2>2. QED
    BY <2>1, FS_EmptySet DEF Init, CountInv
<1>4. QED
  BY <1>1, <1>2, <1>3

\* Frames are patches, snapshots or errors.
LEMMA FramesStep ==
    ASSUME TypeOK, [Next]_vars
    PROVE  FramesOK'
<1> USE FileTreesAssumption DEF TypeOK, FramesOK, registryVars, treeVars, endpointVars,
     frameVars
<1>1. ASSUME NEW e \in Endpoints, NEW r \in Roots, Open(e, r) PROVE FramesOK'
  BY <1>1 DEF Open
<1>2. ASSUME NEW e \in Endpoints, Acquire(e) PROVE FramesOK'
  BY <1>2 DEF Acquire
<1>3. ASSUME NEW e \in Endpoints, Initialized(e) PROVE FramesOK'
  BY <1>3 DEF Initialized
<1>4. ASSUME NEW e \in Endpoints, AcquireFails(e) PROVE FramesOK'
  BY <1>4 DEF AcquireFails, Release, Drop, Unregister, Decremented
<1>5. ASSUME NEW e \in Endpoints, Subscribe(e) PROVE FramesOK'
  BY <1>5 DEF Subscribe, Decremented
<1>6. ASSUME NEW e \in Endpoints, Refuse(e) PROVE FramesOK'
  BY <1>6 DEF Refuse, Release, Drop, Unregister, Decremented
<1>7. ASSUME NEW e \in Endpoints, Released(e) PROVE FramesOK'
  BY <1>7 DEF Released
<1>8. ASSUME NEW e \in Endpoints, Unsubscribe(e) PROVE FramesOK'
  BY <1>8 DEF Unsubscribe, Ended, RemoveSubscriber, Unregister
<1>9. ASSUME NEW e \in Endpoints, Finish(e) PROVE FramesOK'
  BY <1>9 DEF Finish
<1>10. ASSUME NEW e \in Endpoints, Send(e) PROVE FramesOK'
  BY <1>10 DEF Send
<1>11. ASSUME NEW e \in Endpoints, Leave(e) PROVE FramesOK'
  BY <1>11 DEF Leave, Holding, Release, Drop, Unregister, Decremented
<1>12. ASSUME NEW e \in Endpoints, Disconnect(e) PROVE FramesOK'
  BY <1>12 DEF Disconnect, Ended, RemoveSubscriber, Unregister
<1>13. ASSUME NEW e \in Endpoints, CancelTooLate(e) PROVE FramesOK'
  BY <1>13 DEF CancelTooLate
<1>14. ASSUME NEW e \in Endpoints, CancelReleasing(e) PROVE FramesOK'
  BY <1>14 DEF CancelReleasing, Release, Drop, Unregister, Decremented
<1>15. ASSUME NEW t \in Trees, NEW n \in Sizes, Publish(t, n) PROVE FramesOK'
  BY <1>15 DEF Publish, Uninitialized
<1>16. ASSUME NEW t \in Trees, NEW n \in Sizes, Commit(t, n) PROVE FramesOK'
  BY <1>16 DEF Commit, Enqueue, Full
<1>17. ASSUME NEW t \in Trees, InitializeFails(t) PROVE FramesOK'
  BY <1>17 DEF InitializeFails, Uninitialized
<1>18. ASSUME NEW t \in Trees, StartBatch(t) PROVE FramesOK'
  BY <1>18 DEF StartBatch
<1>19. ASSUME NEW t \in Trees, StartRebuild(t) PROVE FramesOK'
  BY <1>19 DEF StartRebuild
<1>20. ASSUME NEW t \in Trees, TornDown(t) PROVE FramesOK'
  BY <1>20 DEF TornDown, Drop, Unregister
<1>21. ASSUME NEW t \in Trees, Invalidate(t) PROVE FramesOK'
  <2>1. \A e \in Endpoints : frames[e] \in Seq({"data", "error"})
    OBVIOUS
  <2>2. <<"error">> \in Seq({"data", "error"})
    OBVIOUS
  <2> QED BY <1>21, <2>1, <2>2 DEF Invalidate
<1>22. ASSUME NEW t \in Trees, StopEnds(t) PROVE FramesOK'
  BY <1>22 DEF StopEnds
<1>23. ASSUME Shutdown PROVE FramesOK'
  BY <1>23 DEF Shutdown
<1>26. ASSUME NEW e \in Endpoints, Removed(e) PROVE FramesOK'
  BY <1>26 DEF Removed
<1>27. ASSUME NEW e \in Endpoints, CancelRemoving(e) PROVE FramesOK'
  BY <1>27 DEF CancelRemoving
<1>28. ASSUME NEW e \in Endpoints, CancelStop(e) PROVE FramesOK'
  BY <1>28 DEF CancelStop, Stopped
<1>29. ASSUME NEW t \in Trees, LeaveLoop(t) PROVE FramesOK'
  BY <1>29 DEF LeaveLoop
<1>24. CASE UNCHANGED vars
  BY <1>24 DEF vars
<1>25. QED
  BY <1>1, <1>2, <1>3, <1>4, <1>5, <1>6, <1>7, <1>8, <1>9, <1>10, <1>11, <1>12,
     <1>13, <1>14, <1>15, <1>16, <1>17, <1>18, <1>19, <1>20, <1>21, <1>22, <1>23,
     <1>24, <1>26, <1>27, <1>28, <1>29 DEF Next, Endpoint

\* Tables name trees, and counts are numbers.
LEMMA TablesStep ==
    ASSUME TypeOK, LifeInv, [Next]_vars
    PROVE  TablesOK'
<1> USE FileTreesAssumption DEF TypeOK, TablesOK, TreesOK, EndpointsOK, LifeInv, EpInv, Joins,
     TreeInv,
      registryVars, treeVars, endpointVars, frameVars
<1>1. ASSUME NEW e \in Endpoints, NEW r \in Roots, Open(e, r) PROVE TablesOK'
  BY <1>1 DEF Open
<1>2. ASSUME NEW e \in Endpoints, Acquire(e) PROVE TablesOK'
  BY <1>2 DEF Acquire
<1>3. ASSUME NEW e \in Endpoints, Initialized(e) PROVE TablesOK'
  BY <1>3 DEF Initialized
<1>4. ASSUME NEW e \in Endpoints, AcquireFails(e) PROVE TablesOK'
  BY <1>4 DEF AcquireFails, Release, Drop, Unregister, Decremented
<1>5. ASSUME NEW e \in Endpoints, Subscribe(e) PROVE TablesOK'
  BY <1>5 DEF Subscribe, Decremented
<1>6. ASSUME NEW e \in Endpoints, Refuse(e) PROVE TablesOK'
  BY <1>6 DEF Refuse, Release, Drop, Unregister, Decremented
<1>7. ASSUME NEW e \in Endpoints, Released(e) PROVE TablesOK'
  BY <1>7 DEF Released
<1>8. ASSUME NEW e \in Endpoints, Unsubscribe(e) PROVE TablesOK'
  BY <1>8 DEF Unsubscribe, Ended, RemoveSubscriber, Unregister
<1>9. ASSUME NEW e \in Endpoints, Finish(e) PROVE TablesOK'
  BY <1>9 DEF Finish
<1>10. ASSUME NEW e \in Endpoints, Send(e) PROVE TablesOK'
  BY <1>10 DEF Send
<1>11. ASSUME NEW e \in Endpoints, Leave(e) PROVE TablesOK'
  BY <1>11 DEF Leave, Holding, Release, Drop, Unregister, Decremented
<1>12. ASSUME NEW e \in Endpoints, Disconnect(e) PROVE TablesOK'
  BY <1>12 DEF Disconnect, Ended, RemoveSubscriber, Unregister
<1>13. ASSUME NEW e \in Endpoints, CancelTooLate(e) PROVE TablesOK'
  BY <1>13 DEF CancelTooLate
<1>14. ASSUME NEW e \in Endpoints, CancelReleasing(e) PROVE TablesOK'
  BY <1>14 DEF CancelReleasing, Stopped, Release, Drop, Unregister, Decremented
<1>15. ASSUME NEW t \in Trees, NEW n \in Sizes, Publish(t, n) PROVE TablesOK'
  BY <1>15 DEF Publish, Uninitialized
<1>16. ASSUME NEW t \in Trees, NEW n \in Sizes, Commit(t, n) PROVE TablesOK'
  BY <1>16 DEF Commit, Enqueue, Full
<1>17. ASSUME NEW t \in Trees, InitializeFails(t) PROVE TablesOK'
  BY <1>17 DEF InitializeFails, Uninitialized
<1>18. ASSUME NEW t \in Trees, StartBatch(t) PROVE TablesOK'
  BY <1>18 DEF StartBatch
<1>19. ASSUME NEW t \in Trees, StartRebuild(t) PROVE TablesOK'
  BY <1>19 DEF StartRebuild
<1>20. ASSUME NEW t \in Trees, TornDown(t) PROVE TablesOK'
  BY <1>20 DEF TornDown, Drop, Unregister
<1>21. ASSUME NEW t \in Trees, Invalidate(t) PROVE TablesOK'
  BY <1>21 DEF Invalidate, Drop, Unregister
<1>22. ASSUME NEW t \in Trees, StopEnds(t) PROVE TablesOK'
  BY <1>22 DEF StopEnds
<1>23. ASSUME Shutdown PROVE TablesOK'
  BY <1>23 DEF Shutdown
<1>26. ASSUME NEW e \in Endpoints, Removed(e) PROVE TablesOK'
  BY <1>26 DEF Removed
<1>27. ASSUME NEW e \in Endpoints, CancelRemoving(e) PROVE TablesOK'
  BY <1>27 DEF CancelRemoving
<1>28. ASSUME NEW e \in Endpoints, CancelStop(e) PROVE TablesOK'
  BY <1>28 DEF CancelStop, Stopped
<1>29. ASSUME NEW t \in Trees, LeaveLoop(t) PROVE TablesOK'
  BY <1>29 DEF LeaveLoop
<1>24. CASE UNCHANGED vars
  BY <1>24 DEF vars
<1>25. QED
  BY <1>1, <1>2, <1>3, <1>4, <1>5, <1>6, <1>7, <1>8, <1>9, <1>10, <1>11, <1>12,
     <1>13, <1>14, <1>15, <1>16, <1>17, <1>18, <1>19, <1>20, <1>21, <1>22, <1>23,
     <1>24, <1>26, <1>27, <1>28, <1>29 DEF Next, Endpoint

\* Trees keep their types.
LEMMA TreesStep ==
    ASSUME TypeOK, LifeInv, [Next]_vars
    PROVE  TreesOK'
<1> USE FileTreesAssumption DEF TypeOK, TablesOK, TreesOK, EndpointsOK, LifeInv, EpInv, Joins,
     TreeInv,
      registryVars, treeVars, endpointVars, frameVars
<1>1. ASSUME NEW e \in Endpoints, NEW r \in Roots, Open(e, r) PROVE TreesOK'
  BY <1>1 DEF Open
<1>2. ASSUME NEW e \in Endpoints, Acquire(e) PROVE TreesOK'
  <2>1. CASE scan' = scan /\ root' = root
    BY <1>2, <2>1 DEF Acquire
  <2>2. ASSUME NEW t \in Trees, scan' = [scan EXCEPT ![t] = "scanning"],
               root' = [root EXCEPT ![t] = want[e]]
        PROVE  TreesOK'
    BY <1>2, <2>2 DEF Acquire
  <2> QED BY <1>2, <2>1, <2>2 DEF Acquire
<1>3. ASSUME NEW e \in Endpoints, Initialized(e) PROVE TreesOK'
  BY <1>3 DEF Initialized
<1>4. ASSUME NEW e \in Endpoints, AcquireFails(e) PROVE TreesOK'
  BY <1>4 DEF AcquireFails, Release, Drop, Unregister, Decremented
<1>5. ASSUME NEW e \in Endpoints, Subscribe(e) PROVE TreesOK'
  BY <1>5 DEF Subscribe, Decremented
<1>6. ASSUME NEW e \in Endpoints, Refuse(e) PROVE TreesOK'
  BY <1>6 DEF Refuse, Release, Drop, Unregister, Decremented
<1>7. ASSUME NEW e \in Endpoints, Released(e) PROVE TreesOK'
  BY <1>7 DEF Released
<1>8. ASSUME NEW e \in Endpoints, Unsubscribe(e) PROVE TreesOK'
  BY <1>8 DEF Unsubscribe, Ended, RemoveSubscriber, Unregister
<1>9. ASSUME NEW e \in Endpoints, Finish(e) PROVE TreesOK'
  BY <1>9 DEF Finish
<1>10. ASSUME NEW e \in Endpoints, Send(e) PROVE TreesOK'
  BY <1>10 DEF Send
<1>11. ASSUME NEW e \in Endpoints, Leave(e) PROVE TreesOK'
  BY <1>11 DEF Leave, Holding, Release, Drop, Unregister, Decremented
<1>12. ASSUME NEW e \in Endpoints, Disconnect(e) PROVE TreesOK'
  BY <1>12 DEF Disconnect, Ended, RemoveSubscriber, Unregister
<1>13. ASSUME NEW e \in Endpoints, CancelTooLate(e) PROVE TreesOK'
  BY <1>13 DEF CancelTooLate
<1>14. ASSUME NEW e \in Endpoints, CancelReleasing(e) PROVE TreesOK'
  BY <1>14 DEF CancelReleasing, Release, Drop, Unregister, Decremented
<1>15. ASSUME NEW t \in Trees, NEW n \in Sizes, Publish(t, n) PROVE TreesOK'
  BY <1>15 DEF Publish, Uninitialized
<1>16. ASSUME NEW t \in Trees, NEW n \in Sizes, Commit(t, n) PROVE TreesOK'
  BY <1>16 DEF Commit, Enqueue, Full
<1>17. ASSUME NEW t \in Trees, InitializeFails(t) PROVE TreesOK'
  BY <1>17 DEF InitializeFails, Uninitialized
<1>18. ASSUME NEW t \in Trees, StartBatch(t) PROVE TreesOK'
  BY <1>18 DEF StartBatch
<1>19. ASSUME NEW t \in Trees, StartRebuild(t) PROVE TreesOK'
  BY <1>19 DEF StartRebuild
<1>20. ASSUME NEW t \in Trees, TornDown(t) PROVE TreesOK'
  BY <1>20 DEF TornDown, Drop, Unregister
<1>21. ASSUME NEW t \in Trees, Invalidate(t) PROVE TreesOK'
  BY <1>21 DEF Invalidate, Drop, Unregister
<1>22. ASSUME NEW t \in Trees, StopEnds(t) PROVE TreesOK'
  BY <1>22 DEF StopEnds
<1>23. ASSUME Shutdown PROVE TreesOK'
  BY <1>23 DEF Shutdown
<1>26. ASSUME NEW e \in Endpoints, Removed(e) PROVE TreesOK'
  BY <1>26 DEF Removed
<1>27. ASSUME NEW e \in Endpoints, CancelRemoving(e) PROVE TreesOK'
  BY <1>27 DEF CancelRemoving
<1>28. ASSUME NEW e \in Endpoints, CancelStop(e) PROVE TreesOK'
  BY <1>28 DEF CancelStop, Stopped
<1>29. ASSUME NEW t \in Trees, LeaveLoop(t) PROVE TreesOK'
  BY <1>29 DEF LeaveLoop
<1>24. CASE UNCHANGED vars
  BY <1>24 DEF vars
<1>25. QED
  BY <1>1, <1>2, <1>3, <1>4, <1>5, <1>6, <1>7, <1>8, <1>9, <1>10, <1>11, <1>12,
     <1>13, <1>14, <1>15, <1>16, <1>17, <1>18, <1>19, <1>20, <1>21, <1>22, <1>23,
     <1>24, <1>26, <1>27, <1>28, <1>29 DEF Next, Endpoint

\* Endpoints keep their types.
LEMMA EndpointsStep ==
    ASSUME TypeOK, LifeInv, [Next]_vars
    PROVE  EndpointsOK'
<1> USE FileTreesAssumption DEF TypeOK, TablesOK, TreesOK, EndpointsOK, registryVars,
     treeVars, endpointVars,
      frameVars
<1>1. ASSUME NEW e \in Endpoints, NEW r \in Roots, Open(e, r) PROVE EndpointsOK'
  BY <1>1 DEF Open
<1>2. ASSUME NEW e \in Endpoints, Acquire(e) PROVE EndpointsOK'
  BY <1>2 DEF Acquire, LifeInv, EpInv, Joins
<1>3. ASSUME NEW e \in Endpoints, Initialized(e) PROVE EndpointsOK'
  BY <1>3 DEF Initialized
<1>4. ASSUME NEW e \in Endpoints, AcquireFails(e) PROVE EndpointsOK'
  BY <1>4 DEF AcquireFails, Release, Drop, Unregister, Decremented, LifeInv, EpInv
<1>5. ASSUME NEW e \in Endpoints, Subscribe(e) PROVE EndpointsOK'
  BY <1>5 DEF Subscribe, Decremented
<1>6. ASSUME NEW e \in Endpoints, Refuse(e) PROVE EndpointsOK'
  BY <1>6 DEF Refuse, Release, Drop, Unregister, Decremented, LifeInv, EpInv
<1>7. ASSUME NEW e \in Endpoints, Released(e) PROVE EndpointsOK'
  BY <1>7 DEF Released
<1>8. ASSUME NEW e \in Endpoints, Unsubscribe(e) PROVE EndpointsOK'
  BY <1>8 DEF Unsubscribe, Ended, RemoveSubscriber, Unregister
<1>9. ASSUME NEW e \in Endpoints, Finish(e) PROVE EndpointsOK'
  BY <1>9 DEF Finish
<1>10. ASSUME NEW e \in Endpoints, Send(e) PROVE EndpointsOK'
  <2>1. writer' = writer \/ writer' = [writer EXCEPT ![e] = "done"]
    BY <1>10 DEF Send
  <2> QED BY <1>10, <2>1 DEF Send
<1>11. ASSUME NEW e \in Endpoints, Leave(e) PROVE EndpointsOK'
  BY <1>11 DEF Leave, Holding, Release, Drop, Unregister, Decremented, LifeInv, EpInv
<1>12. ASSUME NEW e \in Endpoints, Disconnect(e) PROVE EndpointsOK'
  BY <1>12 DEF Disconnect, Ended, RemoveSubscriber, Unregister
<1>13. ASSUME NEW e \in Endpoints, CancelTooLate(e) PROVE EndpointsOK'
  BY <1>13 DEF CancelTooLate
<1>14. ASSUME NEW e \in Endpoints, CancelReleasing(e) PROVE EndpointsOK'
  BY <1>14 DEF CancelReleasing, Release, Drop, Unregister, Decremented, LifeInv, EpInv
<1>15. ASSUME NEW t \in Trees, NEW n \in Sizes, Publish(t, n) PROVE EndpointsOK'
  BY <1>15 DEF Publish, Uninitialized
<1>16. ASSUME NEW t \in Trees, NEW n \in Sizes, Commit(t, n) PROVE EndpointsOK'
  BY <1>16 DEF Commit, Enqueue, Full
<1>17. ASSUME NEW t \in Trees, InitializeFails(t) PROVE EndpointsOK'
  BY <1>17 DEF InitializeFails, Uninitialized
<1>18. ASSUME NEW t \in Trees, StartBatch(t) PROVE EndpointsOK'
  BY <1>18 DEF StartBatch
<1>19. ASSUME NEW t \in Trees, StartRebuild(t) PROVE EndpointsOK'
  BY <1>19 DEF StartRebuild
<1>20. ASSUME NEW t \in Trees, TornDown(t) PROVE EndpointsOK'
  BY <1>20 DEF TornDown, Drop, Unregister
<1>21. ASSUME NEW t \in Trees, Invalidate(t) PROVE EndpointsOK'
  BY <1>21 DEF Invalidate, Drop, Unregister
<1>22. ASSUME NEW t \in Trees, StopEnds(t) PROVE EndpointsOK'
  BY <1>22 DEF StopEnds
<1>23. ASSUME Shutdown PROVE EndpointsOK'
  BY <1>23 DEF Shutdown
<1>26. ASSUME NEW e \in Endpoints, Removed(e) PROVE EndpointsOK'
  BY <1>26 DEF Removed
<1>27. ASSUME NEW e \in Endpoints, CancelRemoving(e) PROVE EndpointsOK'
  BY <1>27 DEF CancelRemoving
<1>28. ASSUME NEW e \in Endpoints, CancelStop(e) PROVE EndpointsOK'
  BY <1>28 DEF CancelStop, Stopped
<1>29. ASSUME NEW t \in Trees, LeaveLoop(t) PROVE EndpointsOK'
  BY <1>29 DEF LeaveLoop
<1>24. CASE UNCHANGED vars
  BY <1>24 DEF vars
<1>25. QED
  BY <1>1, <1>2, <1>3, <1>4, <1>5, <1>6, <1>7, <1>8, <1>9, <1>10, <1>11, <1>12,
     <1>13, <1>14, <1>15, <1>16, <1>17, <1>18, <1>19, <1>20, <1>21, <1>22, <1>23,
     <1>24, <1>26, <1>27, <1>28, <1>29 DEF Next, Endpoint

\* Every step keeps the types.
LEMMA TypeStep == TypeOK /\ LifeInv /\ [Next]_vars => TypeOK'
  BY FramesStep, TablesStep, TreesStep, EndpointsStep DEF TypeOK

\* Trees keep their root, and are made before they are handed out.
LEMMA EpStep ==
    ASSUME TypeOK, LifeInv, [Next]_vars
    PROVE  EpInv'
<1> USE FileTreesAssumption DEF TypeOK, TablesOK, TreesOK, EndpointsOK, LifeInv, EpInv, Joins,
     TreeInv,
      TableInv, SubInv, DownInv, Registered, registryVars, treeVars, endpointVars,
      frameVars
<1>1. ASSUME NEW e \in Endpoints, NEW r \in Roots, Open(e, r) PROVE EpInv'
  BY <1>1 DEF Open
<1>2. ASSUME NEW e \in Endpoints, Acquire(e) PROVE EpInv'
  BY <1>2 DEF Acquire
<1>3. ASSUME NEW e \in Endpoints, Initialized(e) PROVE EpInv'
  BY <1>3 DEF Initialized
<1>4. ASSUME NEW e \in Endpoints, AcquireFails(e) PROVE EpInv'
  BY <1>4 DEF AcquireFails, Release, Drop, Unregister, Decremented
<1>5. ASSUME NEW e \in Endpoints, Subscribe(e) PROVE EpInv'
  BY <1>5 DEF Subscribe, Decremented
<1>6. ASSUME NEW e \in Endpoints, Refuse(e) PROVE EpInv'
  BY <1>6 DEF Refuse, Release, Drop, Unregister, Decremented
<1>7. ASSUME NEW e \in Endpoints, Released(e) PROVE EpInv'
  BY <1>7 DEF Released
<1>8. ASSUME NEW e \in Endpoints, Unsubscribe(e) PROVE EpInv'
  BY <1>8 DEF Unsubscribe, Ended, RemoveSubscriber, Unregister
<1>9. ASSUME NEW e \in Endpoints, Finish(e) PROVE EpInv'
  BY <1>9 DEF Finish
<1>10. ASSUME NEW e \in Endpoints, Send(e) PROVE EpInv'
  BY <1>10 DEF Send
<1>11. ASSUME NEW e \in Endpoints, Leave(e) PROVE EpInv'
  BY <1>11 DEF Leave, Holding, Release, Drop, Unregister, Decremented
<1>12. ASSUME NEW e \in Endpoints, Disconnect(e) PROVE EpInv'
  BY <1>12 DEF Disconnect, Ended, RemoveSubscriber, Unregister
<1>13. ASSUME NEW e \in Endpoints, CancelTooLate(e) PROVE EpInv'
  BY <1>13 DEF CancelTooLate
<1>14. ASSUME NEW e \in Endpoints, CancelReleasing(e) PROVE EpInv'
  BY <1>14 DEF CancelReleasing, Release, Drop, Unregister, Decremented
<1>15. ASSUME NEW t \in Trees, NEW n \in Sizes, Publish(t, n) PROVE EpInv'
  BY <1>15 DEF Publish, Uninitialized
<1>16. ASSUME NEW t \in Trees, NEW n \in Sizes, Commit(t, n) PROVE EpInv'
  BY <1>16 DEF Commit, Enqueue, Full
<1>17. ASSUME NEW t \in Trees, InitializeFails(t) PROVE EpInv'
  BY <1>17 DEF InitializeFails, Uninitialized
<1>18. ASSUME NEW t \in Trees, StartBatch(t) PROVE EpInv'
  BY <1>18 DEF StartBatch
<1>19. ASSUME NEW t \in Trees, StartRebuild(t) PROVE EpInv'
  BY <1>19 DEF StartRebuild
<1>20. ASSUME NEW t \in Trees, TornDown(t) PROVE EpInv'
  BY <1>20 DEF TornDown, Drop, Unregister
<1>21. ASSUME NEW t \in Trees, Invalidate(t) PROVE EpInv'
  BY <1>21 DEF Invalidate, Drop, Unregister
<1>22. ASSUME NEW t \in Trees, StopEnds(t) PROVE EpInv'
  BY <1>22 DEF StopEnds
<1>23. ASSUME Shutdown PROVE EpInv'
  BY <1>23 DEF Shutdown
<1>26. ASSUME NEW e \in Endpoints, Removed(e) PROVE EpInv'
  BY <1>26 DEF Removed
<1>27. ASSUME NEW e \in Endpoints, CancelRemoving(e) PROVE EpInv'
  BY <1>27 DEF CancelRemoving
<1>28. ASSUME NEW e \in Endpoints, CancelStop(e) PROVE EpInv'
  BY <1>28 DEF CancelStop, Stopped
<1>29. ASSUME NEW t \in Trees, LeaveLoop(t) PROVE EpInv'
  BY <1>29 DEF LeaveLoop
<1>24. CASE UNCHANGED vars
  BY <1>24 DEF vars
<1>25. QED
  BY <1>1, <1>2, <1>3, <1>4, <1>5, <1>6, <1>7, <1>8, <1>9, <1>10, <1>11, <1>12,
     <1>13, <1>14, <1>15, <1>16, <1>17, <1>18, <1>19, <1>20, <1>21, <1>22, <1>23,
     <1>24, <1>26, <1>27, <1>28, <1>29 DEF Next, Endpoint

\* A tree is registered once, and leaves the registry when it stops.
LEMMA TreeStep ==
    ASSUME TypeOK, LifeInv, [Next]_vars
    PROVE  TreeInv'
<1> USE FileTreesAssumption DEF TypeOK, TablesOK, TreesOK, EndpointsOK, LifeInv, EpInv, Joins,
     TreeInv,
      TableInv, SubInv, DownInv, AwaitInv, Registered, registryVars, treeVars, endpointVars,
      frameVars
<1>1. ASSUME NEW e \in Endpoints, NEW r \in Roots, Open(e, r) PROVE TreeInv'
  BY <1>1 DEF Open
<1>2. ASSUME NEW e \in Endpoints, Acquire(e) PROVE TreeInv'
  BY <1>2 DEF Acquire
<1>3. ASSUME NEW e \in Endpoints, Initialized(e) PROVE TreeInv'
  BY <1>3 DEF Initialized
<1>4. ASSUME NEW e \in Endpoints, AcquireFails(e) PROVE TreeInv'
  BY <1>4 DEF AcquireFails, Release, Drop, Unregister, Decremented
<1>5. ASSUME NEW e \in Endpoints, Subscribe(e) PROVE TreeInv'
  BY <1>5 DEF Subscribe, Decremented
<1>6. ASSUME NEW e \in Endpoints, Refuse(e) PROVE TreeInv'
  BY <1>6 DEF Refuse, Release, Drop, Unregister, Decremented
<1>7. ASSUME NEW e \in Endpoints, Released(e) PROVE TreeInv'
  BY <1>7 DEF Released
<1>8. ASSUME NEW e \in Endpoints, Unsubscribe(e) PROVE TreeInv'
  BY <1>8 DEF Unsubscribe, Ended, RemoveSubscriber, Unregister
<1>9. ASSUME NEW e \in Endpoints, Finish(e) PROVE TreeInv'
  BY <1>9 DEF Finish
<1>10. ASSUME NEW e \in Endpoints, Send(e) PROVE TreeInv'
  BY <1>10 DEF Send
<1>11. ASSUME NEW e \in Endpoints, Leave(e) PROVE TreeInv'
  BY <1>11 DEF Leave, Holding, Release, Drop, Unregister, Decremented
<1>12. ASSUME NEW e \in Endpoints, Disconnect(e) PROVE TreeInv'
  BY <1>12 DEF Disconnect, Ended, RemoveSubscriber, Unregister
<1>13. ASSUME NEW e \in Endpoints, CancelTooLate(e) PROVE TreeInv'
  BY <1>13 DEF CancelTooLate
<1>14. ASSUME NEW e \in Endpoints, CancelReleasing(e) PROVE TreeInv'
  BY <1>14 DEF CancelReleasing, Release, Drop, Unregister, Decremented
<1>15. ASSUME NEW t \in Trees, NEW n \in Sizes, Publish(t, n) PROVE TreeInv'
  BY <1>15 DEF Publish, Uninitialized
<1>16. ASSUME NEW t \in Trees, NEW n \in Sizes, Commit(t, n) PROVE TreeInv'
  BY <1>16 DEF Commit, Enqueue, Full
<1>17. ASSUME NEW t \in Trees, InitializeFails(t) PROVE TreeInv'
  BY <1>17 DEF InitializeFails, Uninitialized
<1>18. ASSUME NEW t \in Trees, StartBatch(t) PROVE TreeInv'
  BY <1>18 DEF StartBatch
<1>19. ASSUME NEW t \in Trees, StartRebuild(t) PROVE TreeInv'
  BY <1>19 DEF StartRebuild
<1>20. ASSUME NEW t \in Trees, TornDown(t) PROVE TreeInv'
  BY <1>20 DEF TornDown, Drop, Unregister
<1>21. ASSUME NEW t \in Trees, Invalidate(t) PROVE TreeInv'
  BY <1>21 DEF Invalidate, Drop, Unregister
<1>22. ASSUME NEW t \in Trees, StopEnds(t) PROVE TreeInv'
  BY <1>22 DEF StopEnds
<1>23. ASSUME Shutdown PROVE TreeInv'
  BY <1>23 DEF Shutdown
<1>26. ASSUME NEW e \in Endpoints, Removed(e) PROVE TreeInv'
  BY <1>26 DEF Removed
<1>27. ASSUME NEW e \in Endpoints, CancelRemoving(e) PROVE TreeInv'
  BY <1>27 DEF CancelRemoving
<1>28. ASSUME NEW e \in Endpoints, CancelStop(e) PROVE TreeInv'
  BY <1>28 DEF CancelStop, Stopped
<1>29. ASSUME NEW t \in Trees, LeaveLoop(t) PROVE TreeInv'
  BY <1>29 DEF LeaveLoop
<1>24. CASE UNCHANGED vars
  BY <1>24 DEF vars
<1>25. QED
  BY <1>1, <1>2, <1>3, <1>4, <1>5, <1>6, <1>7, <1>8, <1>9, <1>10, <1>11, <1>12,
     <1>13, <1>14, <1>15, <1>16, <1>17, <1>18, <1>19, <1>20, <1>21, <1>22, <1>23,
     <1>24, <1>26, <1>27, <1>28, <1>29 DEF Next, Endpoint

\* The tables name trees of their roots.
LEMMA TableStep ==
    ASSUME TypeOK, LifeInv, [Next]_vars
    PROVE  TableInv'
<1> USE FileTreesAssumption DEF TypeOK, TablesOK, TreesOK, EndpointsOK, LifeInv, EpInv, Joins,
     TreeInv,
      TableInv, SubInv, DownInv, Registered, registryVars, treeVars, endpointVars,
      frameVars
<1>1. ASSUME NEW e \in Endpoints, NEW r \in Roots, Open(e, r) PROVE TableInv'
  BY <1>1 DEF Open
<1>2. ASSUME NEW e \in Endpoints, Acquire(e) PROVE TableInv'
  BY <1>2 DEF Acquire
<1>3. ASSUME NEW e \in Endpoints, Initialized(e) PROVE TableInv'
  BY <1>3 DEF Initialized
<1>4. ASSUME NEW e \in Endpoints, AcquireFails(e) PROVE TableInv'
  BY <1>4 DEF AcquireFails, Release, Drop, Unregister, Decremented
<1>5. ASSUME NEW e \in Endpoints, Subscribe(e) PROVE TableInv'
  BY <1>5 DEF Subscribe, Decremented
<1>6. ASSUME NEW e \in Endpoints, Refuse(e) PROVE TableInv'
  BY <1>6 DEF Refuse, Release, Drop, Unregister, Decremented
<1>7. ASSUME NEW e \in Endpoints, Released(e) PROVE TableInv'
  BY <1>7 DEF Released
<1>8. ASSUME NEW e \in Endpoints, Unsubscribe(e) PROVE TableInv'
  BY <1>8 DEF Unsubscribe, Ended, RemoveSubscriber, Unregister
<1>9. ASSUME NEW e \in Endpoints, Finish(e) PROVE TableInv'
  BY <1>9 DEF Finish
<1>10. ASSUME NEW e \in Endpoints, Send(e) PROVE TableInv'
  BY <1>10 DEF Send
<1>11. ASSUME NEW e \in Endpoints, Leave(e) PROVE TableInv'
  BY <1>11 DEF Leave, Holding, Release, Drop, Unregister, Decremented
<1>12. ASSUME NEW e \in Endpoints, Disconnect(e) PROVE TableInv'
  BY <1>12 DEF Disconnect, Ended, RemoveSubscriber, Unregister
<1>13. ASSUME NEW e \in Endpoints, CancelTooLate(e) PROVE TableInv'
  BY <1>13 DEF CancelTooLate
<1>14. ASSUME NEW e \in Endpoints, CancelReleasing(e) PROVE TableInv'
  BY <1>14 DEF CancelReleasing, Release, Drop, Unregister, Decremented
<1>15. ASSUME NEW t \in Trees, NEW n \in Sizes, Publish(t, n) PROVE TableInv'
  BY <1>15 DEF Publish, Uninitialized
<1>16. ASSUME NEW t \in Trees, NEW n \in Sizes, Commit(t, n) PROVE TableInv'
  BY <1>16 DEF Commit, Enqueue, Full
<1>17. ASSUME NEW t \in Trees, InitializeFails(t) PROVE TableInv'
  BY <1>17 DEF InitializeFails, Uninitialized
<1>18. ASSUME NEW t \in Trees, StartBatch(t) PROVE TableInv'
  BY <1>18 DEF StartBatch
<1>19. ASSUME NEW t \in Trees, StartRebuild(t) PROVE TableInv'
  BY <1>19 DEF StartRebuild
<1>20. ASSUME NEW t \in Trees, TornDown(t) PROVE TableInv'
  BY <1>20 DEF TornDown, Drop, Unregister
<1>21. ASSUME NEW t \in Trees, Invalidate(t) PROVE TableInv'
  BY <1>21 DEF Invalidate, Drop, Unregister
<1>22. ASSUME NEW t \in Trees, StopEnds(t) PROVE TableInv'
  BY <1>22 DEF StopEnds
<1>23. ASSUME Shutdown PROVE TableInv'
  BY <1>23 DEF Shutdown
<1>26. ASSUME NEW e \in Endpoints, Removed(e) PROVE TableInv'
  BY <1>26 DEF Removed
<1>27. ASSUME NEW e \in Endpoints, CancelRemoving(e) PROVE TableInv'
  BY <1>27 DEF CancelRemoving
<1>28. ASSUME NEW e \in Endpoints, CancelStop(e) PROVE TableInv'
  BY <1>28 DEF CancelStop, Stopped
<1>29. ASSUME NEW t \in Trees, LeaveLoop(t) PROVE TableInv'
  BY <1>29 DEF LeaveLoop
<1>24. CASE UNCHANGED vars
  BY <1>24 DEF vars
<1>25. QED
  BY <1>1, <1>2, <1>3, <1>4, <1>5, <1>6, <1>7, <1>8, <1>9, <1>10, <1>11, <1>12,
     <1>13, <1>14, <1>15, <1>16, <1>17, <1>18, <1>19, <1>20, <1>21, <1>22, <1>23,
     <1>24, <1>26, <1>27, <1>28, <1>29 DEF Next, Endpoint

\* Whoever takes a tree from the registry finds it without subscribers, or takes
\* them along.
LEMMA SubStep ==
    ASSUME TypeOK, LifeInv, [Next]_vars
    PROVE  SubInv'
<1> USE FileTreesAssumption DEF TypeOK, TablesOK, TreesOK, EndpointsOK, LifeInv, EpInv, Joins,
     TreeInv,
      TableInv, SubInv, DownInv, Registered, registryVars, treeVars, endpointVars,
      frameVars
<1>1. ASSUME NEW e \in Endpoints, NEW r \in Roots, Open(e, r) PROVE SubInv'
  BY <1>1 DEF Open
<1>2. ASSUME NEW e \in Endpoints, Acquire(e) PROVE SubInv'
  BY <1>2 DEF Acquire
<1>3. ASSUME NEW e \in Endpoints, Initialized(e) PROVE SubInv'
  BY <1>3 DEF Initialized
<1>4. ASSUME NEW e \in Endpoints, AcquireFails(e) PROVE SubInv'
  BY <1>4 DEF AcquireFails, Release, Drop, Unregister, Decremented
<1>5. ASSUME NEW e \in Endpoints, Subscribe(e) PROVE SubInv'
  BY <1>5 DEF Subscribe, Decremented
<1>6. ASSUME NEW e \in Endpoints, Refuse(e) PROVE SubInv'
  BY <1>6 DEF Refuse, Release, Drop, Unregister, Decremented
<1>7. ASSUME NEW e \in Endpoints, Released(e) PROVE SubInv'
  BY <1>7 DEF Released
<1>8. ASSUME NEW e \in Endpoints, Unsubscribe(e) PROVE SubInv'
  BY <1>8 DEF Unsubscribe, Ended, RemoveSubscriber, Unregister
<1>9. ASSUME NEW e \in Endpoints, Finish(e) PROVE SubInv'
  BY <1>9 DEF Finish
<1>10. ASSUME NEW e \in Endpoints, Send(e) PROVE SubInv'
  BY <1>10 DEF Send
<1>11. ASSUME NEW e \in Endpoints, Leave(e) PROVE SubInv'
  BY <1>11 DEF Leave, Holding, Release, Drop, Unregister, Decremented
<1>12. ASSUME NEW e \in Endpoints, Disconnect(e) PROVE SubInv'
  BY <1>12 DEF Disconnect, Ended, RemoveSubscriber, Unregister
<1>13. ASSUME NEW e \in Endpoints, CancelTooLate(e) PROVE SubInv'
  BY <1>13 DEF CancelTooLate
<1>14. ASSUME NEW e \in Endpoints, CancelReleasing(e) PROVE SubInv'
  BY <1>14 DEF CancelReleasing, Release, Drop, Unregister, Decremented
<1>15. ASSUME NEW t \in Trees, NEW n \in Sizes, Publish(t, n) PROVE SubInv'
  BY <1>15 DEF Publish, Uninitialized
<1>16. ASSUME NEW t \in Trees, NEW n \in Sizes, Commit(t, n) PROVE SubInv'
  BY <1>16 DEF Commit, Enqueue, Full
<1>17. ASSUME NEW t \in Trees, InitializeFails(t) PROVE SubInv'
  BY <1>17 DEF InitializeFails, Uninitialized
<1>18. ASSUME NEW t \in Trees, StartBatch(t) PROVE SubInv'
  BY <1>18 DEF StartBatch
<1>19. ASSUME NEW t \in Trees, StartRebuild(t) PROVE SubInv'
  BY <1>19 DEF StartRebuild
<1>20. ASSUME NEW t \in Trees, TornDown(t) PROVE SubInv'
  BY <1>20 DEF TornDown, Drop, Unregister
<1>21. ASSUME NEW t \in Trees, Invalidate(t) PROVE SubInv'
  BY <1>21 DEF Invalidate, Drop, Unregister
<1>22. ASSUME NEW t \in Trees, StopEnds(t) PROVE SubInv'
  BY <1>22 DEF StopEnds
<1>23. ASSUME Shutdown PROVE SubInv'
  BY <1>23 DEF Shutdown
<1>26. ASSUME NEW e \in Endpoints, Removed(e) PROVE SubInv'
  BY <1>26 DEF Removed
<1>27. ASSUME NEW e \in Endpoints, CancelRemoving(e) PROVE SubInv'
  BY <1>27 DEF CancelRemoving
<1>28. ASSUME NEW e \in Endpoints, CancelStop(e) PROVE SubInv'
  BY <1>28 DEF CancelStop, Stopped
<1>29. ASSUME NEW t \in Trees, LeaveLoop(t) PROVE SubInv'
  BY <1>29 DEF LeaveLoop
<1>24. CASE UNCHANGED vars
  BY <1>24 DEF vars
<1>25. QED
  BY <1>1, <1>2, <1>3, <1>4, <1>5, <1>6, <1>7, <1>8, <1>9, <1>10, <1>11, <1>12,
     <1>13, <1>14, <1>15, <1>16, <1>17, <1>18, <1>19, <1>20, <1>21, <1>22, <1>23,
     <1>24, <1>26, <1>27, <1>28, <1>29 DEF Next, Endpoint

\* Nothing begins after the shutdown.
LEMMA DownStep ==
    ASSUME TypeOK, LifeInv, [Next]_vars
    PROVE  DownInv'
<1> USE FileTreesAssumption DEF TypeOK, TablesOK, TreesOK, EndpointsOK, LifeInv, EpInv, Joins,
     TreeInv,
      TableInv, SubInv, DownInv, Registered, registryVars, treeVars, endpointVars,
      frameVars
<1>1. ASSUME NEW e \in Endpoints, NEW r \in Roots, Open(e, r) PROVE DownInv'
  BY <1>1 DEF Open
<1>2. ASSUME NEW e \in Endpoints, Acquire(e) PROVE DownInv'
  BY <1>2 DEF Acquire
<1>3. ASSUME NEW e \in Endpoints, Initialized(e) PROVE DownInv'
  BY <1>3 DEF Initialized
<1>4. ASSUME NEW e \in Endpoints, AcquireFails(e) PROVE DownInv'
  BY <1>4 DEF AcquireFails, Release, Drop, Unregister, Decremented
<1>5. ASSUME NEW e \in Endpoints, Subscribe(e) PROVE DownInv'
  BY <1>5 DEF Subscribe, Decremented
<1>6. ASSUME NEW e \in Endpoints, Refuse(e) PROVE DownInv'
  BY <1>6 DEF Refuse, Release, Drop, Unregister, Decremented
<1>7. ASSUME NEW e \in Endpoints, Released(e) PROVE DownInv'
  BY <1>7 DEF Released
<1>8. ASSUME NEW e \in Endpoints, Unsubscribe(e) PROVE DownInv'
  BY <1>8 DEF Unsubscribe, Ended, RemoveSubscriber, Unregister
<1>9. ASSUME NEW e \in Endpoints, Finish(e) PROVE DownInv'
  BY <1>9 DEF Finish
<1>10. ASSUME NEW e \in Endpoints, Send(e) PROVE DownInv'
  BY <1>10 DEF Send
<1>11. ASSUME NEW e \in Endpoints, Leave(e) PROVE DownInv'
  BY <1>11 DEF Leave, Holding, Release, Drop, Unregister, Decremented
<1>12. ASSUME NEW e \in Endpoints, Disconnect(e) PROVE DownInv'
  BY <1>12 DEF Disconnect, Ended, RemoveSubscriber, Unregister
<1>13. ASSUME NEW e \in Endpoints, CancelTooLate(e) PROVE DownInv'
  BY <1>13 DEF CancelTooLate
<1>14. ASSUME NEW e \in Endpoints, CancelReleasing(e) PROVE DownInv'
  BY <1>14 DEF CancelReleasing, Release, Drop, Unregister, Decremented
<1>15. ASSUME NEW t \in Trees, NEW n \in Sizes, Publish(t, n) PROVE DownInv'
  BY <1>15 DEF Publish, Uninitialized
<1>16. ASSUME NEW t \in Trees, NEW n \in Sizes, Commit(t, n) PROVE DownInv'
  BY <1>16 DEF Commit, Enqueue, Full
<1>17. ASSUME NEW t \in Trees, InitializeFails(t) PROVE DownInv'
  BY <1>17 DEF InitializeFails, Uninitialized
<1>18. ASSUME NEW t \in Trees, StartBatch(t) PROVE DownInv'
  BY <1>18 DEF StartBatch
<1>19. ASSUME NEW t \in Trees, StartRebuild(t) PROVE DownInv'
  BY <1>19 DEF StartRebuild
<1>20. ASSUME NEW t \in Trees, TornDown(t) PROVE DownInv'
  BY <1>20 DEF TornDown, Drop, Unregister
<1>21. ASSUME NEW t \in Trees, Invalidate(t) PROVE DownInv'
  BY <1>21 DEF Invalidate, Drop, Unregister
<1>22. ASSUME NEW t \in Trees, StopEnds(t) PROVE DownInv'
  BY <1>22 DEF StopEnds
<1>23. ASSUME Shutdown PROVE DownInv'
  BY <1>23 DEF Shutdown
<1>26. ASSUME NEW e \in Endpoints, Removed(e) PROVE DownInv'
  BY <1>26 DEF Removed
<1>27. ASSUME NEW e \in Endpoints, CancelRemoving(e) PROVE DownInv'
  BY <1>27 DEF CancelRemoving
<1>28. ASSUME NEW e \in Endpoints, CancelStop(e) PROVE DownInv'
  BY <1>28 DEF CancelStop, Stopped
<1>29. ASSUME NEW t \in Trees, LeaveLoop(t) PROVE DownInv'
  BY <1>29 DEF LeaveLoop
<1>24. CASE UNCHANGED vars
  BY <1>24 DEF vars
<1>25. QED
  BY <1>1, <1>2, <1>3, <1>4, <1>5, <1>6, <1>7, <1>8, <1>9, <1>10, <1>11, <1>12,
     <1>13, <1>14, <1>15, <1>16, <1>17, <1>18, <1>19, <1>20, <1>21, <1>22, <1>23,
     <1>24, <1>26, <1>27, <1>28, <1>29 DEF Next, Endpoint

\* A tree is registered once: nobody brings back what an endpoint has dropped.
LEMMA AwaitStep ==
    ASSUME TypeOK, LifeInv, [Next]_vars
    PROVE  AwaitInv'
<1> USE FileTreesAssumption DEF TypeOK, TablesOK, TreesOK, EndpointsOK, LifeInv, EpInv, Joins,
     TreeInv,
      TableInv, SubInv, DownInv, AwaitInv, Registered, registryVars, treeVars, endpointVars,
      frameVars
<1>1. ASSUME NEW e \in Endpoints, NEW r \in Roots, Open(e, r) PROVE AwaitInv'
  BY <1>1 DEF Open
<1>2. ASSUME NEW e \in Endpoints, Acquire(e) PROVE AwaitInv'
  BY <1>2 DEF Acquire
<1>3. ASSUME NEW e \in Endpoints, Initialized(e) PROVE AwaitInv'
  BY <1>3 DEF Initialized
<1>4. ASSUME NEW e \in Endpoints, AcquireFails(e) PROVE AwaitInv'
  BY <1>4 DEF AcquireFails, Release, Drop, Unregister, Decremented
<1>5. ASSUME NEW e \in Endpoints, Subscribe(e) PROVE AwaitInv'
  BY <1>5 DEF Subscribe, Decremented
<1>6. ASSUME NEW e \in Endpoints, Refuse(e) PROVE AwaitInv'
  BY <1>6 DEF Refuse, Release, Drop, Unregister, Decremented
<1>7. ASSUME NEW e \in Endpoints, Released(e) PROVE AwaitInv'
  BY <1>7 DEF Released
<1>8. ASSUME NEW e \in Endpoints, Unsubscribe(e) PROVE AwaitInv'
  BY <1>8 DEF Unsubscribe, Ended, RemoveSubscriber, Unregister
<1>9. ASSUME NEW e \in Endpoints, Finish(e) PROVE AwaitInv'
  BY <1>9 DEF Finish
<1>10. ASSUME NEW e \in Endpoints, Send(e) PROVE AwaitInv'
  BY <1>10 DEF Send
<1>11. ASSUME NEW e \in Endpoints, Leave(e) PROVE AwaitInv'
  BY <1>11 DEF Leave, Holding, Release, Drop, Unregister, Decremented
<1>12. ASSUME NEW e \in Endpoints, Disconnect(e) PROVE AwaitInv'
  BY <1>12 DEF Disconnect, Ended, RemoveSubscriber, Unregister
<1>13. ASSUME NEW e \in Endpoints, CancelTooLate(e) PROVE AwaitInv'
  BY <1>13 DEF CancelTooLate
<1>14. ASSUME NEW e \in Endpoints, CancelReleasing(e) PROVE AwaitInv'
  BY <1>14 DEF CancelReleasing, Release, Drop, Unregister, Decremented
<1>15. ASSUME NEW t \in Trees, NEW n \in Sizes, Publish(t, n) PROVE AwaitInv'
  BY <1>15 DEF Publish, Uninitialized
<1>16. ASSUME NEW t \in Trees, NEW n \in Sizes, Commit(t, n) PROVE AwaitInv'
  BY <1>16 DEF Commit, Enqueue, Full
<1>17. ASSUME NEW t \in Trees, InitializeFails(t) PROVE AwaitInv'
  BY <1>17 DEF InitializeFails, Uninitialized
<1>18. ASSUME NEW t \in Trees, StartBatch(t) PROVE AwaitInv'
  BY <1>18 DEF StartBatch
<1>19. ASSUME NEW t \in Trees, StartRebuild(t) PROVE AwaitInv'
  BY <1>19 DEF StartRebuild
<1>20. ASSUME NEW t \in Trees, TornDown(t) PROVE AwaitInv'
  BY <1>20 DEF TornDown, Drop, Unregister
<1>21. ASSUME NEW t \in Trees, Invalidate(t) PROVE AwaitInv'
  BY <1>21 DEF Invalidate, Drop, Unregister
<1>22. ASSUME NEW t \in Trees, StopEnds(t) PROVE AwaitInv'
  BY <1>22 DEF StopEnds
<1>23. ASSUME Shutdown PROVE AwaitInv'
  BY <1>23 DEF Shutdown
<1>26. ASSUME NEW e \in Endpoints, Removed(e) PROVE AwaitInv'
  BY <1>26 DEF Removed
<1>27. ASSUME NEW e \in Endpoints, CancelRemoving(e) PROVE AwaitInv'
  BY <1>27 DEF CancelRemoving
<1>28. ASSUME NEW e \in Endpoints, CancelStop(e) PROVE AwaitInv'
  BY <1>28 DEF CancelStop, Stopped
<1>29. ASSUME NEW t \in Trees, LeaveLoop(t) PROVE AwaitInv'
  BY <1>29 DEF LeaveLoop
<1>24. CASE UNCHANGED vars
  BY <1>24 DEF vars
<1>25. QED
  BY <1>1, <1>2, <1>3, <1>4, <1>5, <1>6, <1>7, <1>8, <1>9, <1>10, <1>11, <1>12,
     <1>13, <1>14, <1>15, <1>16, <1>17, <1>18, <1>19, <1>20, <1>21, <1>22, <1>23,
     <1>24, <1>26, <1>27, <1>28, <1>29 DEF Next, Endpoint

\* A writer ends when its subscriber is retired.
LEMMA ServedStep ==
    ASSUME TypeOK, LifeInv, ServedInv, [Next]_vars
    PROVE  ServedInv'
<1> USE FileTreesAssumption DEF TypeOK, TablesOK, TreesOK, EndpointsOK, LifeInv, EpInv, Joins,
     TreeInv,
      TableInv, SubInv, DownInv, ServedInv, Registered, registryVars, treeVars,
      endpointVars, frameVars
<1>1. ASSUME NEW e \in Endpoints, NEW r \in Roots, Open(e, r) PROVE ServedInv'
  BY <1>1 DEF Open
<1>2. ASSUME NEW e \in Endpoints, Acquire(e) PROVE ServedInv'
  BY <1>2 DEF Acquire
<1>3. ASSUME NEW e \in Endpoints, Initialized(e) PROVE ServedInv'
  BY <1>3 DEF Initialized
<1>4. ASSUME NEW e \in Endpoints, AcquireFails(e) PROVE ServedInv'
  BY <1>4 DEF AcquireFails, Release, Drop, Unregister, Decremented
<1>5. ASSUME NEW e \in Endpoints, Subscribe(e) PROVE ServedInv'
  BY <1>5 DEF Subscribe, Decremented
<1>6. ASSUME NEW e \in Endpoints, Refuse(e) PROVE ServedInv'
  BY <1>6 DEF Refuse, Release, Drop, Unregister, Decremented
<1>7. ASSUME NEW e \in Endpoints, Released(e) PROVE ServedInv'
  BY <1>7 DEF Released
<1>8. ASSUME NEW e \in Endpoints, Unsubscribe(e) PROVE ServedInv'
  BY <1>8 DEF Unsubscribe, Ended, RemoveSubscriber, Unregister
<1>9. ASSUME NEW e \in Endpoints, Finish(e) PROVE ServedInv'
  BY <1>9 DEF Finish
<1>10. ASSUME NEW e \in Endpoints, Send(e) PROVE ServedInv'
  BY <1>10 DEF Send
<1>11. ASSUME NEW e \in Endpoints, Leave(e) PROVE ServedInv'
  BY <1>11 DEF Leave, Holding, Release, Drop, Unregister, Decremented
<1>12. ASSUME NEW e \in Endpoints, Disconnect(e) PROVE ServedInv'
  BY <1>12 DEF Disconnect, Ended, RemoveSubscriber, Unregister
<1>13. ASSUME NEW e \in Endpoints, CancelTooLate(e) PROVE ServedInv'
  BY <1>13 DEF CancelTooLate
<1>14. ASSUME NEW e \in Endpoints, CancelReleasing(e) PROVE ServedInv'
  BY <1>14 DEF CancelReleasing, Release, Drop, Unregister, Decremented
<1>15. ASSUME NEW t \in Trees, NEW n \in Sizes, Publish(t, n) PROVE ServedInv'
  BY <1>15 DEF Publish, Uninitialized
<1>16. ASSUME NEW t \in Trees, NEW n \in Sizes, Commit(t, n) PROVE ServedInv'
  BY <1>16 DEF Commit, Enqueue, Full
<1>17. ASSUME NEW t \in Trees, InitializeFails(t) PROVE ServedInv'
  BY <1>17 DEF InitializeFails, Uninitialized
<1>18. ASSUME NEW t \in Trees, StartBatch(t) PROVE ServedInv'
  BY <1>18 DEF StartBatch
<1>19. ASSUME NEW t \in Trees, StartRebuild(t) PROVE ServedInv'
  BY <1>19 DEF StartRebuild
<1>20. ASSUME NEW t \in Trees, TornDown(t) PROVE ServedInv'
  BY <1>20 DEF TornDown, Drop, Unregister
<1>21. ASSUME NEW t \in Trees, Invalidate(t) PROVE ServedInv'
  BY <1>21 DEF Invalidate, Drop, Unregister
<1>22. ASSUME NEW t \in Trees, StopEnds(t) PROVE ServedInv'
  BY <1>22 DEF StopEnds
<1>23. ASSUME Shutdown PROVE ServedInv'
  BY <1>23 DEF Shutdown
<1>26. ASSUME NEW e \in Endpoints, Removed(e) PROVE ServedInv'
  BY <1>26 DEF Removed
<1>27. ASSUME NEW e \in Endpoints, CancelRemoving(e) PROVE ServedInv'
  BY <1>27 DEF CancelRemoving
<1>28. ASSUME NEW e \in Endpoints, CancelStop(e) PROVE ServedInv'
  BY <1>28 DEF CancelStop, Stopped
<1>29. ASSUME NEW t \in Trees, LeaveLoop(t) PROVE ServedInv'
  BY <1>29 DEF LeaveLoop
<1>24. CASE UNCHANGED vars
  BY <1>24 DEF vars
<1>25. QED
  BY <1>1, <1>2, <1>3, <1>4, <1>5, <1>6, <1>7, <1>8, <1>9, <1>10, <1>11, <1>12,
     <1>13, <1>14, <1>15, <1>16, <1>17, <1>18, <1>19, <1>20, <1>21, <1>22, <1>23,
     <1>24, <1>26, <1>27, <1>28, <1>29 DEF Next, Endpoint

\* What follows the error does not come: the subscriber is in no tree.
LEMMA ErrorStep ==
    ASSUME TypeOK, LifeInv, ServedInv, ErrorIsNext, [Next]_vars
    PROVE  ErrorIsNext'
<1> USE FileTreesAssumption DEF TypeOK, TablesOK, TreesOK, EndpointsOK, LifeInv, EpInv, Joins,
     TreeInv,
      TableInv, SubInv, DownInv, Registered, ServedInv, ErrorIsNext, FramesOK,
      registryVars, treeVars, endpointVars, frameVars
<1>1. ASSUME NEW e \in Endpoints, NEW r \in Roots, Open(e, r) PROVE ErrorIsNext'
  BY <1>1 DEF Open
<1>2. ASSUME NEW e \in Endpoints, Acquire(e) PROVE ErrorIsNext'
  <2>1. ep' = ep /\ writer' = writer /\ frames' = frames /\ registry' = registry
    BY <1>2 DEF Acquire
  <2>2. \A f \in Endpoints : ep[f] = "subscribed" =>
          got'[f] = got[f] /\ got[f] \in Trees /\ root'[got[f]] = root[got[f]]
    BY <1>2 DEF Acquire
  <2> QED BY <2>1, <2>2
<1>3. ASSUME NEW e \in Endpoints, Initialized(e) PROVE ErrorIsNext'
  BY <1>3 DEF Initialized
<1>4. ASSUME NEW e \in Endpoints, AcquireFails(e) PROVE ErrorIsNext'
  BY <1>4 DEF AcquireFails, Release, Drop, Unregister, Decremented
<1>5. ASSUME NEW e \in Endpoints, Subscribe(e) PROVE ErrorIsNext'
  BY <1>5 DEF Subscribe, Decremented
<1>6. ASSUME NEW e \in Endpoints, Refuse(e) PROVE ErrorIsNext'
  BY <1>6 DEF Refuse, Release, Drop, Unregister, Decremented
<1>7. ASSUME NEW e \in Endpoints, Released(e) PROVE ErrorIsNext'
  BY <1>7 DEF Released
<1>8. ASSUME NEW e \in Endpoints, Unsubscribe(e) PROVE ErrorIsNext'
  BY <1>8 DEF Unsubscribe, Ended, RemoveSubscriber, Unregister
<1>9. ASSUME NEW e \in Endpoints, Finish(e) PROVE ErrorIsNext'
  BY <1>9 DEF Finish
<1>10. ASSUME NEW e \in Endpoints, Send(e) PROVE ErrorIsNext'
  <2>1. /\ ep' = ep /\ got' = got /\ root' = root /\ registry' = registry
        /\ frames' = [frames EXCEPT ![e] = Tail(@)]
        /\ \A f \in Endpoints : writer'[f] = "on" => writer[f] = "on"
    BY <1>10 DEF Send
  <2>2. Tail(<<"error">>) = <<>> /\ frames[e] # <<>>
    BY <1>10 DEF Send
  <2>3. \A f \in Endpoints : ep'[f] = "subscribed" /\ ~(Registered(got[f])') /\ writer'[f] = "on"
           => frames[f] \in {<<"error">>, <<>>}
    BY <2>1
  <2>4. \A f \in Endpoints : frames[f] \in {<<"error">>, <<>>} =>
          frames'[f] \in {<<"error">>, <<>>}
    <3>1. \A f \in Endpoints : f # e => frames'[f] = frames[f]
      BY <2>1
    <3>2. frames'[e] = Tail(frames[e])
      BY <2>1
    <3>3. frames[e] = <<"error">> => frames'[e] = <<>>
      BY <2>2, <3>2
    <3> QED BY <2>2, <3>1, <3>3
  <2> QED BY <2>1, <2>3, <2>4
<1>11. ASSUME NEW e \in Endpoints, Leave(e) PROVE ErrorIsNext'
  BY <1>11 DEF Leave, Holding, Release, Drop, Unregister, Decremented
<1>12. ASSUME NEW e \in Endpoints, Disconnect(e) PROVE ErrorIsNext'
  BY <1>12 DEF Disconnect, Ended, RemoveSubscriber, Unregister
<1>13. ASSUME NEW e \in Endpoints, CancelTooLate(e) PROVE ErrorIsNext'
  BY <1>13 DEF CancelTooLate
<1>14. ASSUME NEW e \in Endpoints, CancelReleasing(e) PROVE ErrorIsNext'
  BY <1>14 DEF CancelReleasing, Release, Drop, Unregister, Decremented
<1>15. ASSUME NEW t \in Trees, NEW n \in Sizes, Publish(t, n) PROVE ErrorIsNext'
  BY <1>15 DEF Publish, Uninitialized
<1>16. ASSUME NEW t \in Trees, NEW n \in Sizes, Commit(t, n) PROVE ErrorIsNext'
  BY <1>16 DEF Commit, Enqueue, Full
<1>17. ASSUME NEW t \in Trees, InitializeFails(t) PROVE ErrorIsNext'
  BY <1>17 DEF InitializeFails, Uninitialized
<1>18. ASSUME NEW t \in Trees, StartBatch(t) PROVE ErrorIsNext'
  BY <1>18 DEF StartBatch
<1>19. ASSUME NEW t \in Trees, StartRebuild(t) PROVE ErrorIsNext'
  BY <1>19 DEF StartRebuild
<1>20. ASSUME NEW t \in Trees, TornDown(t) PROVE ErrorIsNext'
  BY <1>20 DEF TornDown, Drop, Unregister
<1>21. ASSUME NEW t \in Trees, Invalidate(t) PROVE ErrorIsNext'
  BY <1>21 DEF Invalidate, Drop, Unregister
<1>22. ASSUME NEW t \in Trees, StopEnds(t) PROVE ErrorIsNext'
  BY <1>22 DEF StopEnds
<1>23. ASSUME Shutdown PROVE ErrorIsNext'
  BY <1>23 DEF Shutdown
<1>26. ASSUME NEW e \in Endpoints, Removed(e) PROVE ErrorIsNext'
  BY <1>26 DEF Removed
<1>27. ASSUME NEW e \in Endpoints, CancelRemoving(e) PROVE ErrorIsNext'
  BY <1>27 DEF CancelRemoving
<1>28. ASSUME NEW e \in Endpoints, CancelStop(e) PROVE ErrorIsNext'
  BY <1>28 DEF CancelStop, Stopped
<1>29. ASSUME NEW t \in Trees, LeaveLoop(t) PROVE ErrorIsNext'
  BY <1>29 DEF LeaveLoop
<1>24. CASE UNCHANGED vars
  BY <1>24 DEF vars
<1>25. QED
  BY <1>1, <1>2, <1>3, <1>4, <1>5, <1>6, <1>7, <1>8, <1>9, <1>10, <1>11, <1>12,
     <1>13, <1>14, <1>15, <1>16, <1>17, <1>18, <1>19, <1>20, <1>21, <1>22, <1>23,
     <1>24, <1>26, <1>27, <1>28, <1>29 DEF Next, Endpoint

\* The holders of reservations can be counted.
LEMMA HoldersFinite == \A r : IsFiniteSet(Holders(r)) /\ Cardinality(Holders(r)) \in Nat
<1>1. \A r : IsFiniteSet(Holders(r))
  <2>1. IsFiniteSet(Endpoints) /\ \A r : Holders(r) \in SUBSET Endpoints
    BY FileTreesAssumption DEF Holders
  <2>2. QED
    BY <2>1, FS_Subset
<1>2. QED
  BY <1>1, FS_CardinalityType

\* A new reservation is one more.
LEMMA OneMore ==
    \A r, e : e \notin Holders(r) =>
        Cardinality(Holders(r) \cup {e}) = Cardinality(Holders(r)) + 1
  BY HoldersFinite, FS_AddElement

\* A reservation that is held is given back once.
LEMMA OneLess ==
    \A r, e : e \in Holders(r) /\ pending[r] = Cardinality(Holders(r)) =>
        Decremented(pending[r]) = Cardinality(Holders(r) \ {e})
<1> SUFFICES ASSUME NEW r, NEW e, e \in Holders(r), pending[r] = Cardinality(Holders(r))
             PROVE  Decremented(pending[r]) = Cardinality(Holders(r) \ {e})
  OBVIOUS
<1>1. Cardinality(Holders(r)) # 0
  BY HoldersFinite, FS_EmptySet
<1>2. Cardinality(Holders(r) \ {e}) = Cardinality(Holders(r)) - 1
  BY HoldersFinite, FS_RemoveElement
<1>3. QED
  BY <1>1, <1>2, HoldersFinite DEF Decremented

\* Whoever comes is counted, and whoever goes gives back what it holds.
LEMMA CountStep ==
    ASSUME TypeOK, LifeInv, CountInv, [Next]_vars
    PROVE  CountInv'
<1> USE FileTreesAssumption DEF registryVars, treeVars, endpointVars, frameVars
<1>1. ASSUME NEW e \in Endpoints, NEW r \in Roots, Open(e, r) PROVE CountInv'
  <2>1. \A f \in Endpoints, x \in Roots :
          (want[f] = x /\ Holding(f)) <=> (want'[f] = x /\ Holding(f)')
    BY <1>1 DEF Open, Holding, TypeOK, EndpointsOK, LifeInv, EpInv
  <2>2. \A x \in Roots : Holders(x)' = Holders(x)
    BY <2>1 DEF Holders
  <2>3. pending' = pending /\ leaked' = leaked /\ down' = down
    BY <1>1 DEF Open
  <2> QED BY <2>2, <2>3 DEF CountInv
<1>2. ASSUME NEW e \in Endpoints, Acquire(e) PROVE CountInv'
  <2>1. e \notin Holders(want[e]) /\ want[e] \in Roots
    BY <1>2 DEF Acquire, Holders, Holding, LifeInv, EpInv
  <2>2. \A r \in Roots : Holders(r)' = IF r = want[e] THEN Holders(r) \cup {e} ELSE Holders(r)
    BY <1>2 DEF Acquire, Holders, Holding, TypeOK, EndpointsOK
  <2>3. pending' = [pending EXCEPT ![want[e]] = @ + 1] /\ leaked' = leaked /\ down' = down
    BY <1>2 DEF Acquire
  <2> QED BY <2>1, <2>2, <2>3, OneMore DEF CountInv, TypeOK, TablesOK
<1>3. ASSUME NEW e \in Endpoints, Initialized(e) PROVE CountInv'
  <2>1. \A r \in Roots : Holders(r)' = Holders(r)
    BY <1>3 DEF Initialized, Holders, Holding
  <2>2. pending' = pending /\ leaked' = leaked /\ down' = down
    BY <1>3 DEF Initialized
  <2> QED BY <2>1, <2>2 DEF CountInv
<1>4. ASSUME NEW e \in Endpoints, AcquireFails(e) PROVE CountInv'
  <2>1. e \in Holders(want[e]) /\ want[e] \in Roots
    BY <1>4 DEF AcquireFails, Release, Drop, Unregister, Decremented, Holders, Holding,
         LifeInv, EpInv
  <2>2. \A r \in Roots : Holders(r)' = IF r = want[e] THEN Holders(r) \ {e} ELSE Holders(r)
    BY <1>4 DEF AcquireFails, Release, Drop, Unregister, Decremented, Holders, Holding,
         TypeOK, EndpointsOK
  <2>3. pending' = [pending EXCEPT ![want[e]] = Decremented(pending[want[e]])]
    BY <1>4, <2>1 DEF AcquireFails, Release, Drop, Unregister
  <2>4. leaked' = leaked /\ down' = down
    BY <1>4 DEF AcquireFails, Release, Drop, Unregister, Decremented
  <2> QED BY <2>1, <2>2, <2>3, <2>4, OneLess DEF CountInv, TypeOK, TablesOK
<1>5. ASSUME NEW e \in Endpoints, Subscribe(e) PROVE CountInv'
  <2>1. e \in Holders(want[e]) /\ want[e] \in Roots
    BY <1>5 DEF Subscribe, Decremented, Holders, Holding, LifeInv, EpInv
  <2>2. \A r \in Roots : Holders(r)' = IF r = want[e] THEN Holders(r) \ {e} ELSE Holders(r)
    BY <1>5 DEF Subscribe, Decremented, Holders, Holding, TypeOK, EndpointsOK
  <2>3. pending' = [pending EXCEPT ![want[e]] = Decremented(pending[want[e]])]
    BY <1>5, <2>1 DEF Subscribe
  <2>4. leaked' = leaked /\ down' = down
    BY <1>5 DEF Subscribe, Decremented
  <2> QED BY <2>1, <2>2, <2>3, <2>4, OneLess DEF CountInv, TypeOK, TablesOK
<1>6. ASSUME NEW e \in Endpoints, Refuse(e) PROVE CountInv'
  <2>1. e \in Holders(want[e]) /\ want[e] \in Roots
    BY <1>6 DEF Refuse, Release, Drop, Unregister, Decremented, Holders, Holding, LifeInv, EpInv
  <2>2. \A r \in Roots : Holders(r)' = IF r = want[e] THEN Holders(r) \ {e} ELSE Holders(r)
    BY <1>6 DEF Refuse, Release, Drop, Unregister, Decremented, Holders, Holding, TypeOK,
         EndpointsOK
  <2>3. pending' = [pending EXCEPT ![want[e]] = Decremented(pending[want[e]])]
    BY <1>6, <2>1 DEF Refuse, Release, Drop, Unregister
  <2>4. leaked' = leaked /\ down' = down
    BY <1>6 DEF Refuse, Release, Drop, Unregister, Decremented
  <2> QED BY <2>1, <2>2, <2>3, <2>4, OneLess DEF CountInv, TypeOK, TablesOK
<1>7. ASSUME NEW e \in Endpoints, Released(e) PROVE CountInv'
  <2>1. \A r \in Roots : Holders(r)' = Holders(r)
    BY <1>7 DEF Released, Holders, Holding
  <2>2. pending' = pending /\ leaked' = leaked /\ down' = down
    BY <1>7 DEF Released
  <2> QED BY <2>1, <2>2 DEF CountInv
<1>8. ASSUME NEW e \in Endpoints, Unsubscribe(e) PROVE CountInv'
  <2>1. \A r \in Roots : Holders(r)' = Holders(r)
    BY <1>8 DEF Unsubscribe, Ended, RemoveSubscriber, Unregister, Holders, Holding
  <2>2. pending' = pending /\ leaked' = leaked /\ down' = down
    BY <1>8 DEF Unsubscribe, Ended, RemoveSubscriber, Unregister
  <2> QED BY <2>1, <2>2 DEF CountInv
<1>9. ASSUME NEW e \in Endpoints, Finish(e) PROVE CountInv'
  <2>1. \A r \in Roots : Holders(r)' = Holders(r)
    BY <1>9 DEF Finish, Holders, Holding
  <2>2. pending' = pending /\ leaked' = leaked /\ down' = down
    BY <1>9 DEF Finish
  <2> QED BY <2>1, <2>2 DEF CountInv
<1>10. ASSUME NEW e \in Endpoints, Send(e) PROVE CountInv'
  <2>1. \A r \in Roots : Holders(r)' = Holders(r)
    BY <1>10 DEF Send, Holders, Holding
  <2>2. pending' = pending /\ leaked' = leaked /\ down' = down
    BY <1>10 DEF Send
  <2> QED BY <2>1, <2>2 DEF CountInv
<1>11. ASSUME NEW e \in Endpoints, Leave(e) PROVE CountInv'
  <2>1. CASE Holding(e)
    <3>1. e \in Holders(want[e]) /\ want[e] \in Roots
      BY <1>11, <2>1 DEF Leave, Release, Drop, Unregister, Decremented, Holders, Holding,
           LifeInv, EpInv
    <3>2. \A r \in Roots : Holders(r)' = IF r = want[e] THEN Holders(r) \ {e} ELSE Holders(r)
      BY <1>11, <2>1 DEF Leave, Release, Drop, Unregister, Decremented, Holders, Holding,
           TypeOK,
           EndpointsOK
    <3>3. pending' = [pending EXCEPT ![want[e]] = Decremented(pending[want[e]])]
      BY <1>11, <2>1, <3>1 DEF Leave, Release, Drop, Unregister
    <3>4. leaked' = leaked /\ down' = down
      BY <1>11, <2>1 DEF Leave, Release, Drop, Unregister, Decremented
    <3> QED BY <3>1, <3>2, <3>3, <3>4, OneLess DEF CountInv, TypeOK, TablesOK
  <2>2. CASE ~Holding(e)
    <3>1. \A r \in Roots : Holders(r)' = Holders(r)
      BY <1>11, <2>2 DEF Leave, Release, Drop, Unregister, Decremented, Holders, Holding
    <3>2. pending' = pending /\ leaked' = leaked /\ down' = down
      BY <1>11, <2>2 DEF Leave, Release, Drop, Unregister, Decremented
    <3> QED BY <3>1, <3>2 DEF CountInv
  <2> QED BY <2>1, <2>2
<1>12. ASSUME NEW e \in Endpoints, Disconnect(e) PROVE CountInv'
  <2>1. \A r \in Roots : Holders(r)' = Holders(r)
    BY <1>12 DEF Disconnect, Ended, RemoveSubscriber, Unregister, Holders, Holding
  <2>2. pending' = pending /\ leaked' = leaked /\ down' = down
    BY <1>12 DEF Disconnect, Ended, RemoveSubscriber, Unregister
  <2> QED BY <2>1, <2>2 DEF CountInv
<1>13. ASSUME NEW e \in Endpoints, CancelTooLate(e) PROVE CountInv'
  <2>1. \A r \in Roots : r # want[e] => Holders(r)' = Holders(r)
    BY <1>13 DEF CancelTooLate, Holders, Holding
  <2>2. leaked' = leaked \cup {want[e]} /\ pending' = pending /\ down' = down
    BY <1>13 DEF CancelTooLate
  <2> QED BY <2>1, <2>2 DEF CountInv
<1>14. ASSUME NEW e \in Endpoints, CancelReleasing(e) PROVE CountInv'
  <2>1. \A r \in Roots : Holders(r)' = Holders(r)
    BY <1>14 DEF CancelReleasing, Release, Holders, Holding
  <2>2. \A r \in Roots : r # want[e] => pending'[r] = pending[r]
    BY <1>14 DEF CancelReleasing, Release, TypeOK, TablesOK
  <2>3. leaked' = leaked \cup {want[e]} /\ down' = down
    BY <1>14 DEF CancelReleasing
  <2> QED BY <2>1, <2>2, <2>3 DEF CountInv
<1>15. ASSUME NEW t \in Trees, NEW n \in Sizes, Publish(t, n) PROVE CountInv'
  <2>1. \A r \in Roots : Holders(r)' = Holders(r)
    BY <1>15 DEF Publish, Uninitialized, Holders, Holding
  <2>2. pending' = pending /\ leaked' = leaked /\ down' = down
    BY <1>15 DEF Publish, Uninitialized
  <2> QED BY <2>1, <2>2 DEF CountInv
<1>16. ASSUME NEW t \in Trees, NEW n \in Sizes, Commit(t, n) PROVE CountInv'
  <2>1. \A r \in Roots : Holders(r)' = Holders(r)
    BY <1>16 DEF Commit, Enqueue, Full, Holders, Holding
  <2>2. pending' = pending /\ leaked' = leaked /\ down' = down
    BY <1>16 DEF Commit, Enqueue, Full
  <2> QED BY <2>1, <2>2 DEF CountInv
<1>17. ASSUME NEW t \in Trees, InitializeFails(t) PROVE CountInv'
  <2>1. \A r \in Roots : Holders(r)' = Holders(r)
    BY <1>17 DEF InitializeFails, Uninitialized, Holders, Holding
  <2>2. pending' = pending /\ leaked' = leaked /\ down' = down
    BY <1>17 DEF InitializeFails, Uninitialized
  <2> QED BY <2>1, <2>2 DEF CountInv
<1>18. ASSUME NEW t \in Trees, StartBatch(t) PROVE CountInv'
  <2>1. \A r \in Roots : Holders(r)' = Holders(r)
    BY <1>18 DEF StartBatch, Holders, Holding
  <2>2. pending' = pending /\ leaked' = leaked /\ down' = down
    BY <1>18 DEF StartBatch
  <2> QED BY <2>1, <2>2 DEF CountInv
<1>19. ASSUME NEW t \in Trees, StartRebuild(t) PROVE CountInv'
  <2>1. \A r \in Roots : Holders(r)' = Holders(r)
    BY <1>19 DEF StartRebuild, Holders, Holding
  <2>2. pending' = pending /\ leaked' = leaked /\ down' = down
    BY <1>19 DEF StartRebuild
  <2> QED BY <2>1, <2>2 DEF CountInv
<1>20. ASSUME NEW t \in Trees, TornDown(t) PROVE CountInv'
  <2>1. \A r \in Roots : Holders(r)' = Holders(r)
    BY <1>20 DEF TornDown, Drop, Unregister, Holders, Holding
  <2>2. pending' = pending /\ leaked' = leaked /\ down' = down
    BY <1>20 DEF TornDown, Drop, Unregister
  <2> QED BY <2>1, <2>2 DEF CountInv
<1>21. ASSUME NEW t \in Trees, Invalidate(t) PROVE CountInv'
  <2>1. \A r \in Roots : Holders(r)' = Holders(r)
    BY <1>21 DEF Invalidate, Drop, Unregister, Holders, Holding
  <2>2. pending' = pending /\ leaked' = leaked /\ down' = down
    BY <1>21 DEF Invalidate, Drop, Unregister
  <2> QED BY <2>1, <2>2 DEF CountInv
<1>22. ASSUME NEW t \in Trees, StopEnds(t) PROVE CountInv'
  <2>1. \A r \in Roots : Holders(r)' = Holders(r)
    BY <1>22 DEF StopEnds, Holders, Holding
  <2>2. pending' = pending /\ leaked' = leaked /\ down' = down
    BY <1>22 DEF StopEnds
  <2> QED BY <2>1, <2>2 DEF CountInv
<1>23. ASSUME Shutdown PROVE CountInv'
  <2> QED BY <1>23 DEF Shutdown, CountInv
<1>26. ASSUME NEW e \in Endpoints, Removed(e) PROVE CountInv'
  <2>1. \A r \in Roots : Holders(r)' = Holders(r)
    BY <1>26 DEF Removed, Holders, Holding
  <2>2. pending' = pending /\ leaked' = leaked /\ down' = down
    BY <1>26 DEF Removed
  <2> QED BY <2>1, <2>2 DEF CountInv
<1>27. ASSUME NEW e \in Endpoints, CancelRemoving(e) PROVE CountInv'
  <2>1. \A r \in Roots : Holders(r)' = Holders(r)
    BY <1>27 DEF CancelRemoving, Holders, Holding
  <2>2. pending' = pending /\ leaked' = leaked /\ down' = down
    BY <1>27 DEF CancelRemoving
  <2> QED BY <2>1, <2>2 DEF CountInv
<1>28. ASSUME NEW e \in Endpoints, CancelStop(e) PROVE CountInv'
  <2>1. \A r \in Roots : Holders(r)' = Holders(r)
    BY <1>28 DEF CancelStop, Holders, Holding
  <2>2. pending' = pending /\ leaked' = leaked /\ down' = down
    BY <1>28 DEF CancelStop
  <2> QED BY <2>1, <2>2 DEF CountInv
<1>29. ASSUME NEW t \in Trees, LeaveLoop(t) PROVE CountInv'
  <2>1. \A r \in Roots : Holders(r)' = Holders(r)
    BY <1>29 DEF LeaveLoop, Holders, Holding
  <2>2. pending' = pending /\ leaked' = leaked /\ down' = down
    BY <1>29 DEF LeaveLoop
  <2> QED BY <2>1, <2>2 DEF CountInv
<1>24. CASE UNCHANGED vars
  <2>1. \A r \in Roots : Holders(r)' = Holders(r)
    BY <1>24 DEF vars, Holders, Holding
  <2>2. pending' = pending /\ leaked' = leaked /\ down' = down
    BY <1>24 DEF vars
  <2> QED BY <2>1, <2>2 DEF CountInv
<1>25. QED
  BY <1>1, <1>2, <1>3, <1>4, <1>5, <1>6, <1>7, <1>8, <1>9, <1>10, <1>11, <1>12,
     <1>13, <1>14, <1>15, <1>16, <1>17, <1>18, <1>19, <1>20, <1>21, <1>22, <1>23,
     <1>24, <1>26, <1>27, <1>28, <1>29 DEF Next, Endpoint

\* The last user of a tree drops it, unless another one waits for its root.
LEMMA UsedStep ==
    ASSUME TypeOK, LifeInv, UsedInv, [Next]_vars
    PROVE  UsedInv'
<1> USE FileTreesAssumption DEF TypeOK, TablesOK, TreesOK, EndpointsOK, LifeInv, EpInv, Joins,
     TreeInv,
      TableInv, SubInv, DownInv, Registered, UsedInv, registryVars, treeVars,
      endpointVars, frameVars
<1>1. ASSUME NEW e \in Endpoints, NEW r \in Roots, Open(e, r) PROVE UsedInv'
  BY <1>1 DEF Open
<1>2. ASSUME NEW e \in Endpoints, Acquire(e) PROVE UsedInv'
  BY <1>2 DEF Acquire
<1>3. ASSUME NEW e \in Endpoints, Initialized(e) PROVE UsedInv'
  BY <1>3 DEF Initialized
<1>4. ASSUME NEW e \in Endpoints, AcquireFails(e) PROVE UsedInv'
  BY <1>4 DEF AcquireFails, Release, Drop, Unregister, Decremented
<1>5. ASSUME NEW e \in Endpoints, Subscribe(e) PROVE UsedInv'
  BY <1>5 DEF Subscribe, Decremented
<1>6. ASSUME NEW e \in Endpoints, Refuse(e) PROVE UsedInv'
  BY <1>6 DEF Refuse, Release, Drop, Unregister, Decremented
<1>7. ASSUME NEW e \in Endpoints, Released(e) PROVE UsedInv'
  BY <1>7 DEF Released
<1>8. ASSUME NEW e \in Endpoints, Unsubscribe(e) PROVE UsedInv'
  BY <1>8 DEF Unsubscribe, Ended, RemoveSubscriber, Unregister
<1>9. ASSUME NEW e \in Endpoints, Finish(e) PROVE UsedInv'
  BY <1>9 DEF Finish
<1>10. ASSUME NEW e \in Endpoints, Send(e) PROVE UsedInv'
  BY <1>10 DEF Send
<1>11. ASSUME NEW e \in Endpoints, Leave(e) PROVE UsedInv'
  BY <1>11 DEF Leave, Holding, Release, Drop, Unregister, Decremented
<1>12. ASSUME NEW e \in Endpoints, Disconnect(e) PROVE UsedInv'
  BY <1>12 DEF Disconnect, Ended, RemoveSubscriber, Unregister
<1>13. ASSUME NEW e \in Endpoints, CancelTooLate(e) PROVE UsedInv'
  BY <1>13 DEF CancelTooLate
<1>14. ASSUME NEW e \in Endpoints, CancelReleasing(e) PROVE UsedInv'
  BY <1>14 DEF CancelReleasing, Release, Drop, Unregister, Decremented
<1>15. ASSUME NEW t \in Trees, NEW n \in Sizes, Publish(t, n) PROVE UsedInv'
  BY <1>15 DEF Publish, Uninitialized
<1>16. ASSUME NEW t \in Trees, NEW n \in Sizes, Commit(t, n) PROVE UsedInv'
  BY <1>16 DEF Commit, Enqueue, Full
<1>17. ASSUME NEW t \in Trees, InitializeFails(t) PROVE UsedInv'
  BY <1>17 DEF InitializeFails, Uninitialized
<1>18. ASSUME NEW t \in Trees, StartBatch(t) PROVE UsedInv'
  BY <1>18 DEF StartBatch
<1>19. ASSUME NEW t \in Trees, StartRebuild(t) PROVE UsedInv'
  BY <1>19 DEF StartRebuild
<1>20. ASSUME NEW t \in Trees, TornDown(t) PROVE UsedInv'
  BY <1>20 DEF TornDown, Drop, Unregister
<1>21. ASSUME NEW t \in Trees, Invalidate(t) PROVE UsedInv'
  BY <1>21 DEF Invalidate, Drop, Unregister
<1>22. ASSUME NEW t \in Trees, StopEnds(t) PROVE UsedInv'
  BY <1>22 DEF StopEnds
<1>23. ASSUME Shutdown PROVE UsedInv'
  BY <1>23 DEF Shutdown
<1>26. ASSUME NEW e \in Endpoints, Removed(e) PROVE UsedInv'
  BY <1>26 DEF Removed, AwaitInv
<1>27. ASSUME NEW e \in Endpoints, CancelRemoving(e) PROVE UsedInv'
  BY <1>27 DEF CancelRemoving
<1>28. ASSUME NEW e \in Endpoints, CancelStop(e) PROVE UsedInv'
  BY <1>28 DEF CancelStop, Stopped
<1>29. ASSUME NEW t \in Trees, LeaveLoop(t) PROVE UsedInv'
  BY <1>29 DEF LeaveLoop
<1>24. CASE UNCHANGED vars
  BY <1>24 DEF vars
<1>25. QED
  BY <1>1, <1>2, <1>3, <1>4, <1>5, <1>6, <1>7, <1>8, <1>9, <1>10, <1>11, <1>12,
     <1>13, <1>14, <1>15, <1>16, <1>17, <1>18, <1>19, <1>20, <1>21, <1>22, <1>23,
     <1>24, <1>26, <1>27, <1>28, <1>29 DEF Next, Endpoint

\* A tree leaves the registry without users, or its users get the error.
LEMMA DropStep ==
    ASSUME TypeOK, LifeInv, [Next]_vars
    PROVE  Justified
<1> USE FileTreesAssumption DEF TypeOK, TablesOK, TreesOK, EndpointsOK, LifeInv, EpInv, Joins,
     TreeInv,
      TableInv, SubInv, DownInv, Registered, Justified, registryVars, treeVars,
      endpointVars, frameVars
<1>1. ASSUME NEW e \in Endpoints, NEW r \in Roots, Open(e, r) PROVE Justified
  BY <1>1 DEF Open
<1>2. ASSUME NEW e \in Endpoints, Acquire(e) PROVE Justified
  BY <1>2 DEF Acquire
<1>3. ASSUME NEW e \in Endpoints, Initialized(e) PROVE Justified
  BY <1>3 DEF Initialized
<1>4. ASSUME NEW e \in Endpoints, AcquireFails(e) PROVE Justified
  BY <1>4 DEF AcquireFails, Release, Drop, Unregister, Decremented
<1>5. ASSUME NEW e \in Endpoints, Subscribe(e) PROVE Justified
  BY <1>5 DEF Subscribe, Decremented
<1>6. ASSUME NEW e \in Endpoints, Refuse(e) PROVE Justified
  BY <1>6 DEF Refuse, Release, Drop, Unregister, Decremented
<1>7. ASSUME NEW e \in Endpoints, Released(e) PROVE Justified
  BY <1>7 DEF Released
<1>8. ASSUME NEW e \in Endpoints, Unsubscribe(e) PROVE Justified
  BY <1>8 DEF Unsubscribe, Ended, RemoveSubscriber, Unregister
<1>9. ASSUME NEW e \in Endpoints, Finish(e) PROVE Justified
  BY <1>9 DEF Finish
<1>10. ASSUME NEW e \in Endpoints, Send(e) PROVE Justified
  BY <1>10 DEF Send
<1>11. ASSUME NEW e \in Endpoints, Leave(e) PROVE Justified
  BY <1>11 DEF Leave, Holding, Release, Drop, Unregister, Decremented
<1>12. ASSUME NEW e \in Endpoints, Disconnect(e) PROVE Justified
  BY <1>12 DEF Disconnect, Ended, RemoveSubscriber, Unregister
<1>13. ASSUME NEW e \in Endpoints, CancelTooLate(e) PROVE Justified
  BY <1>13 DEF CancelTooLate
<1>14. ASSUME NEW e \in Endpoints, CancelReleasing(e) PROVE Justified
  BY <1>14 DEF CancelReleasing, Release, Drop, Unregister, Decremented
<1>15. ASSUME NEW t \in Trees, NEW n \in Sizes, Publish(t, n) PROVE Justified
  BY <1>15 DEF Publish, Uninitialized
<1>16. ASSUME NEW t \in Trees, NEW n \in Sizes, Commit(t, n) PROVE Justified
  BY <1>16 DEF Commit, Enqueue, Full
<1>17. ASSUME NEW t \in Trees, InitializeFails(t) PROVE Justified
  BY <1>17 DEF InitializeFails, Uninitialized
<1>18. ASSUME NEW t \in Trees, StartBatch(t) PROVE Justified
  BY <1>18 DEF StartBatch
<1>19. ASSUME NEW t \in Trees, StartRebuild(t) PROVE Justified
  BY <1>19 DEF StartRebuild
<1>20. ASSUME NEW t \in Trees, TornDown(t) PROVE Justified
  BY <1>20 DEF TornDown, Drop, Unregister
<1>21. ASSUME NEW t \in Trees, Invalidate(t) PROVE Justified
  BY <1>21 DEF Invalidate, Drop, Unregister
<1>22. ASSUME NEW t \in Trees, StopEnds(t) PROVE Justified
  BY <1>22 DEF StopEnds
<1>23. ASSUME Shutdown PROVE Justified
  BY <1>23 DEF Shutdown
<1>26. ASSUME NEW e \in Endpoints, Removed(e) PROVE Justified
  BY <1>26 DEF Removed
<1>27. ASSUME NEW e \in Endpoints, CancelRemoving(e) PROVE Justified
  BY <1>27 DEF CancelRemoving
<1>28. ASSUME NEW e \in Endpoints, CancelStop(e) PROVE Justified
  BY <1>28 DEF CancelStop, Stopped
<1>29. ASSUME NEW t \in Trees, LeaveLoop(t) PROVE Justified
  BY <1>29 DEF LeaveLoop
<1>24. CASE UNCHANGED vars
  BY <1>24 DEF vars
<1>25. QED
  BY <1>1, <1>2, <1>3, <1>4, <1>5, <1>6, <1>7, <1>8, <1>9, <1>10, <1>11, <1>12,
     <1>13, <1>14, <1>15, <1>16, <1>17, <1>18, <1>19, <1>20, <1>21, <1>22, <1>23,
     <1>24, <1>26, <1>27, <1>28, <1>29 DEF Next, Endpoint

-----------------------------------------------------------------------------
(* The budget *)

Counted == {t \in Trees : Registered(t)}

\* The books of the budget: the registered trees are finitely many, what they hold
\* is counted, and a tree that is not made holds nothing.
SizeInv == \A t \in Trees : scan[t] # "made" => size[t] = 0
BooksInv == IsFiniteSet(Counted) /\ total = SumFunctionOnSet(size, Counted) /\ total <= Budget
QueueInv == \A e \in Endpoints : Len(frames[e]) <= Capacity

\* What a step does to the books: nothing, a tree is dropped, published or
\* committed, or all are at the shutdown.
Untouched == /\ UNCHANGED <<size, total>>
             /\ \A u \in Trees : Registered(u)' <=> Registered(u)
Dropped(t) == /\ Registered(t) /\ UNCHANGED size /\ total' = total - size[t]
              /\ \A u \in Trees : Registered(u)' <=> Registered(u) /\ u # t
Counts(t, n) == /\ Fits(t, n) /\ size' = [size EXCEPT ![t] = n] /\ total' = total - size[t] + n
                /\ \A u \in Trees : Registered(u)' <=> Registered(u) \/ u = t
                /\ Registered(t) \/ size[t] = 0
Cleared == UNCHANGED size /\ total' = 0 /\ \A u \in Trees : ~Registered(u)'

Books ==
    \/ Untouched
    \/ \E t \in Trees : Dropped(t)
    \/ \E t \in Trees, n \in Sizes : Counts(t, n)
    \/ Cleared

\* Nothing is counted at first.
LEMMA InitBooks == Init => SizeInv /\ BooksInv /\ QueueInv
<1> SUFFICES ASSUME Init PROVE SizeInv /\ BooksInv /\ QueueInv
  OBVIOUS
<1>1. SizeInv /\ QueueInv
  BY FileTreesAssumption DEF Init, SizeInv, QueueInv
<1>2. Counted = {}
  BY DEF Init, Counted, Registered
<1>3. IsFiniteSet({}) /\ SumFunctionOnSet(size, {}) = 0
  <2>1. IsFiniteSet({}) /\ \A x \in {} : size[x] \in Nat
    BY FS_EmptySet
  <2>2. QED
    BY <2>1, SumSplits
<1>4. BooksInv
  BY <1>2, <1>3, FileTreesAssumption DEF Init, BooksInv
<1>5. QED
  BY <1>1, <1>4

\* The tree that leaves the registry is the only one of its root.
LEMMA DropBooks ==
    ASSUME TypeOK, LifeInv, NEW t \in Trees, Registered(t), UNCHANGED <<root, size>>,
           registry' = [registry EXCEPT ![root[t]] = None], total' = total - size[t]
    PROVE  Dropped(t)
<1>1. root[t] \in Roots /\ registry \in [Roots -> Trees \cup {None}]
  BY FileTreesAssumption DEF Registered, TypeOK, TreesOK, TablesOK
<1>2. ASSUME NEW u \in Trees PROVE Registered(u)' <=> Registered(u) /\ u # t
  <2>1. root[u] \in Roots \cup {None}
    BY DEF TypeOK, TreesOK
  <2>2. QED
    BY <1>1, <2>1, FileTreesAssumption DEF Registered
<1>3. QED
  BY <1>2 DEF Dropped

\* A release drops the tree of its root or nothing.
LEMMA ReleaseBooks ==
    ASSUME TypeOK, LifeInv, NEW e \in Endpoints, ep[e] # "new", Release(e), UNCHANGED <<root,
         size>>
    PROVE  Books
<1> DEFINE t == registry[want[e]]
<1>1. want[e] \in Roots /\ t \in Trees \cup {None}
  BY DEF LifeInv, EpInv, TypeOK, TablesOK
<1>2. CASE t # None /\ Drop(t)
  <2>1. t \in Trees /\ root[t] = want[e] /\ Registered(t)
    BY <1>1, <1>2, FileTreesAssumption DEF LifeInv, TableInv, Registered
  <2>2. registry' = [registry EXCEPT ![root[t]] = None] /\ total' = total - size[t]
    BY <1>2 DEF Drop, Unregister
  <2> HIDE DEF t
  <2>3. Dropped(t)
    BY <2>1, <2>2, DropBooks
  <2>4. QED
    BY <2>1, <2>3 DEF Books
<1>3. CASE UNCHANGED <<registry, total>>
  BY <1>3 DEF Books, Untouched, Registered
<1>4. QED
  BY <1>2, <1>3 DEF Release

\* So do a subscriber's end and a torn down tree.
LEMMA EndBooks ==
    ASSUME TypeOK, LifeInv, NEW t \in Trees, UNCHANGED <<root, size>>,
           (Registered(t) /\ Unregister(t)) \/ UNCHANGED <<registry, total>>
    PROVE  Books
<1>1. CASE Registered(t) /\ Unregister(t)
  <2>1. Dropped(t)
    BY <1>1, DropBooks DEF Unregister
  <2>2. QED
    BY <2>1 DEF Books
<1>2. CASE UNCHANGED <<registry, total>>
  BY <1>2 DEF Books, Untouched, Registered
<1>3. QED
  BY <1>1, <1>2

\* Every step does one of these.
LEMMA BooksOfStep ==
    ASSUME TypeOK, LifeInv, SizeInv, [Next]_vars
    PROVE  Books
<1> USE FileTreesAssumption DEF registryVars, treeVars, endpointVars, frameVars
<1>1. ASSUME NEW e \in Endpoints, NEW r \in Roots, Open(e, r) PROVE Books
  <2>1. UNCHANGED <<registry, root, size, total>>
    BY <1>1 DEF Open
  <2>2. QED
    BY <2>1 DEF Books, Untouched, Registered
<1>2. ASSUME NEW e \in Endpoints, Acquire(e) PROVE Books
  <2>1. UNCHANGED <<registry, size, total>>
    BY <1>2 DEF Acquire
  <2>2. want[e] \in Roots
    BY <1>2 DEF Acquire, LifeInv, EpInv
  <2>3. CASE UNCHANGED root
    BY <2>1, <2>3 DEF Books, Untouched, Registered
  <2>4. ASSUME NEW t \in Trees, scan[t] = "unborn", root' = [root EXCEPT ![t] = want[e]],
               registry[want[e]] = None
        PROVE  Books
    <3>1. root[t] = None /\ root'[t] = want[e] /\ \A u \in Trees : u # t => root'[u] = root[u]
      BY <2>4 DEF LifeInv, TreeInv, TypeOK, TreesOK
    <3>2. \A u \in Trees : Registered(u)' <=> Registered(u)
      BY <2>1, <2>2, <2>4, <3>1, FileTreesAssumption DEF Registered
    <3>3. QED
      BY <2>1, <3>2 DEF Books, Untouched
  <2>5. QED
    BY <1>2, <2>3, <2>4 DEF Acquire
<1>3. ASSUME NEW e \in Endpoints, Initialized(e) PROVE Books
  <2>1. UNCHANGED <<registry, root, size, total>>
    BY <1>3 DEF Initialized
  <2>2. QED
    BY <2>1 DEF Books, Untouched, Registered
<1>4. ASSUME NEW e \in Endpoints, AcquireFails(e) PROVE Books
  <2>1. ep[e] # "new" /\ Release(e) /\ UNCHANGED <<root, size>>
    BY <1>4 DEF AcquireFails
  <2>2. QED
    BY <1>4, <2>1, ReleaseBooks
<1>5. ASSUME NEW e \in Endpoints, Subscribe(e) PROVE Books
  <2>1. UNCHANGED <<registry, root, size, total>>
    BY <1>5 DEF Subscribe
  <2>2. QED
    BY <2>1 DEF Books, Untouched, Registered
<1>6. ASSUME NEW e \in Endpoints, Refuse(e) PROVE Books
  <2>1. ep[e] # "new" /\ Release(e) /\ UNCHANGED <<root, size>>
    BY <1>6 DEF Refuse
  <2>2. QED
    BY <1>6, <2>1, ReleaseBooks
<1>7. ASSUME NEW e \in Endpoints, Released(e) PROVE Books
  <2>1. UNCHANGED <<registry, root, size, total>>
    BY <1>7 DEF Released
  <2>2. QED
    BY <2>1 DEF Books, Untouched, Registered
<1>8. ASSUME NEW e \in Endpoints, Unsubscribe(e) PROVE Books
  <2>1. ep[e] = "subscribed" /\ Ended(e)
    BY <1>8 DEF Unsubscribe
  <2>2. got[e] \in Trees
    BY <1>8, <2>1 DEF LifeInv, EpInv, Joins
  <2>3. /\ (Registered(got[e]) /\ Unregister(got[e])) \/ UNCHANGED <<registry, total>>
        /\ UNCHANGED <<root, size>>
    BY <2>1 DEF Ended, RemoveSubscriber
  <2>4. QED
    BY <2>2, <2>3, EndBooks
<1>9. ASSUME NEW e \in Endpoints, Finish(e) PROVE Books
  <2>1. UNCHANGED <<registry, root, size, total>>
    BY <1>9 DEF Finish
  <2>2. QED
    BY <2>1 DEF Books, Untouched, Registered
<1>10. ASSUME NEW e \in Endpoints, Send(e) PROVE Books
  <2>1. UNCHANGED <<registry, root, size, total>>
    BY <1>10 DEF Send
  <2>2. QED
    BY <2>1 DEF Books, Untouched, Registered
<1>11. ASSUME NEW e \in Endpoints, Leave(e) PROVE Books
  <2>1. UNCHANGED <<root, size>> /\ ep[e] = "waiting"
    BY <1>11 DEF Leave
  <2>2. CASE Release(e)
    BY <1>11, <2>1, <2>2, ReleaseBooks
  <2>3. CASE UNCHANGED <<registry, total>>
    BY <2>1, <2>3 DEF Books, Untouched, Registered
  <2>4. QED
    BY <1>11, <2>2, <2>3 DEF Leave
<1>12. ASSUME NEW e \in Endpoints, Disconnect(e) PROVE Books
  <2>1. ep[e] = "subscribed" /\ Ended(e)
    BY <1>12 DEF Disconnect
  <2>2. got[e] \in Trees
    BY <1>12, <2>1 DEF LifeInv, EpInv, Joins
  <2>3. /\ (Registered(got[e]) /\ Unregister(got[e])) \/ UNCHANGED <<registry, total>>
        /\ UNCHANGED <<root, size>>
    BY <2>1 DEF Ended, RemoveSubscriber
  <2>4. QED
    BY <2>2, <2>3, EndBooks
<1>13. ASSUME NEW e \in Endpoints, CancelTooLate(e) PROVE Books
  <2>1. UNCHANGED <<registry, root, size, total>>
    BY <1>13 DEF CancelTooLate
  <2>2. QED
    BY <2>1 DEF Books, Untouched, Registered
<1>14. ASSUME NEW e \in Endpoints, CancelReleasing(e) PROVE Books
  <2>1. ep[e] # "new" /\ Release(e) /\ UNCHANGED <<root, size>>
    BY <1>14 DEF CancelReleasing
  <2>2. QED
    BY <1>14, <2>1, ReleaseBooks
<1>15. ASSUME NEW t \in Trees, NEW n \in Sizes, Publish(t, n) PROVE Books
  <2>1. /\ scan[t] = "scanning" /\ Fits(t, n) /\ size' = [size EXCEPT ![t] = n]
        /\ total' = total + n /\ registry' = [registry EXCEPT ![root[t]] = t] /\ UNCHANGED root
        /\ pending[root[t]] > 0
    BY <1>15 DEF Publish
  <2>2. root[t] \in Roots /\ size[t] = 0
    BY <2>1 DEF LifeInv, TreeInv, TypeOK, TreesOK, SizeInv
  <2>3. ~down
    BY <2>1, <2>2 DEF LifeInv, DownInv
  <2>4. registry[root[t]] = None
    BY <2>1, <2>3 DEF LifeInv, TreeInv
  <2>5. \A u \in Trees : Registered(u)' <=> Registered(u) \/ u = t
    BY <2>1, <2>2, <2>4, FileTreesAssumption DEF Registered, TypeOK, TablesOK, TreesOK
  <2>6. total' = total - size[t] + n
    BY <2>1, <2>2, FileTreesAssumption DEF TypeOK, TablesOK
  <2>7. Counts(t, n)
    BY <2>1, <2>2, <2>5, <2>6 DEF Counts
  <2>8. QED
    BY <1>15, <2>7 DEF Books
<1>16. ASSUME NEW t \in Trees, NEW n \in Sizes, Commit(t, n) PROVE Books
  <2>1. /\ Registered(t) /\ Fits(t, n) /\ size' = [size EXCEPT ![t] = n]
        /\ total' = total - size[t] + n /\ UNCHANGED <<registry, root>>
    BY <1>16 DEF Commit
  <2>2. Counts(t, n)
    BY <2>1 DEF Counts, Registered
  <2>3. QED
    BY <1>16, <2>2 DEF Books
<1>17. ASSUME NEW t \in Trees, InitializeFails(t) PROVE Books
  <2>1. UNCHANGED <<registry, root, size, total>>
    BY <1>17 DEF InitializeFails
  <2>2. QED
    BY <2>1 DEF Books, Untouched, Registered
<1>18. ASSUME NEW t \in Trees, StartBatch(t) PROVE Books
  <2>1. UNCHANGED <<registry, root, size, total>>
    BY <1>18 DEF StartBatch
  <2>2. QED
    BY <2>1 DEF Books, Untouched, Registered
<1>19. ASSUME NEW t \in Trees, StartRebuild(t) PROVE Books
  <2>1. UNCHANGED <<registry, root, size, total>>
    BY <1>19 DEF StartRebuild
  <2>2. QED
    BY <2>1 DEF Books, Untouched, Registered
<1>20. ASSUME NEW t \in Trees, TornDown(t) PROVE Books
  <2>1. /\ (Registered(t) /\ Unregister(t)) \/ UNCHANGED <<registry, total>>
        /\ UNCHANGED <<root, size>>
    BY <1>20 DEF TornDown, Drop
  <2>2. QED
    BY <1>20, <2>1, EndBooks
<1>21. ASSUME NEW t \in Trees, Invalidate(t) PROVE Books
  <2>1. Registered(t) /\ Unregister(t) /\ UNCHANGED <<root, size>>
    BY <1>21 DEF Invalidate, Drop
  <2>2. QED
    BY <1>21, <2>1, EndBooks
<1>22. ASSUME NEW t \in Trees, StopEnds(t) PROVE Books
  <2>1. UNCHANGED <<registry, root, size, total>>
    BY <1>22 DEF StopEnds
  <2>2. QED
    BY <2>1 DEF Books, Untouched, Registered
<1>23. ASSUME Shutdown PROVE Books
  <2>1. UNCHANGED <<root, size>> /\ total' = 0 /\ registry' = [r \in Roots |-> None]
    BY <1>23 DEF Shutdown
  <2>2. \A u \in Trees : ~Registered(u)'
    BY <2>1, FileTreesAssumption DEF Registered, TypeOK, TreesOK
  <2>3. QED
    BY <2>1, <2>2 DEF Books, Cleared
<1>26. ASSUME NEW e \in Endpoints, Removed(e) PROVE Books
  <2>1. UNCHANGED <<registry, root, size, total>>
    BY <1>26 DEF Removed
  <2>2. QED
    BY <2>1 DEF Books, Untouched, Registered
<1>27. ASSUME NEW e \in Endpoints, CancelRemoving(e) PROVE Books
  <2>1. UNCHANGED <<registry, root, size, total>>
    BY <1>27 DEF CancelRemoving
  <2>2. QED
    BY <2>1 DEF Books, Untouched, Registered
<1>28. ASSUME NEW e \in Endpoints, CancelStop(e) PROVE Books
  <2>1. UNCHANGED <<registry, root, size, total>>
    BY <1>28 DEF CancelStop
  <2>2. QED
    BY <2>1 DEF Books, Untouched, Registered
<1>29. ASSUME NEW t \in Trees, LeaveLoop(t) PROVE Books
  <2>1. UNCHANGED <<registry, root, size, total>>
    BY <1>29 DEF LeaveLoop
  <2>2. QED
    BY <2>1 DEF Books, Untouched, Registered
<1>24. CASE UNCHANGED vars
  BY <1>24 DEF vars, Books, Untouched, Registered
<1>25. QED
  BY <1>1, <1>2, <1>3, <1>4, <1>5, <1>6, <1>7, <1>8, <1>9, <1>10, <1>11, <1>12,
     <1>13, <1>14, <1>15, <1>16, <1>17, <1>18, <1>19, <1>20, <1>21, <1>22, <1>23,
     <1>24, <1>26, <1>27, <1>28, <1>29 DEF Next, Endpoint


\* A tree holds paths from its publication on.
LEMMA SizeStep ==
    ASSUME TypeOK, LifeInv, SizeInv, [Next]_vars
    PROVE  SizeInv'
<1> USE FileTreesAssumption DEF registryVars, treeVars, endpointVars, frameVars
<1>1. ASSUME NEW e \in Endpoints, NEW r \in Roots, Open(e, r) PROVE SizeInv'
  BY <1>1 DEF Open, SizeInv, TypeOK, TreesOK
<1>2. ASSUME NEW e \in Endpoints, Acquire(e) PROVE SizeInv'
  BY <1>2 DEF Acquire, SizeInv, TypeOK, TreesOK
<1>3. ASSUME NEW e \in Endpoints, Initialized(e) PROVE SizeInv'
  BY <1>3 DEF Initialized, SizeInv, TypeOK, TreesOK
<1>4. ASSUME NEW e \in Endpoints, AcquireFails(e) PROVE SizeInv'
  BY <1>4 DEF AcquireFails, Release, Drop, Unregister, Decremented, SizeInv, TypeOK, TreesOK
<1>5. ASSUME NEW e \in Endpoints, Subscribe(e) PROVE SizeInv'
  BY <1>5 DEF Subscribe, Decremented, SizeInv, TypeOK, TreesOK
<1>6. ASSUME NEW e \in Endpoints, Refuse(e) PROVE SizeInv'
  BY <1>6 DEF Refuse, Release, Drop, Unregister, Decremented, SizeInv, TypeOK, TreesOK
<1>7. ASSUME NEW e \in Endpoints, Released(e) PROVE SizeInv'
  BY <1>7 DEF Released, SizeInv, TypeOK, TreesOK
<1>8. ASSUME NEW e \in Endpoints, Unsubscribe(e) PROVE SizeInv'
  BY <1>8 DEF Unsubscribe, Ended, RemoveSubscriber, Unregister, SizeInv, TypeOK, TreesOK
<1>9. ASSUME NEW e \in Endpoints, Finish(e) PROVE SizeInv'
  BY <1>9 DEF Finish, SizeInv, TypeOK, TreesOK
<1>10. ASSUME NEW e \in Endpoints, Send(e) PROVE SizeInv'
  BY <1>10 DEF Send, SizeInv, TypeOK, TreesOK
<1>11. ASSUME NEW e \in Endpoints, Leave(e) PROVE SizeInv'
  BY <1>11 DEF Leave, Holding, Release, Drop, Unregister, Decremented, SizeInv, TypeOK, TreesOK
<1>12. ASSUME NEW e \in Endpoints, Disconnect(e) PROVE SizeInv'
  BY <1>12 DEF Disconnect, Ended, RemoveSubscriber, Unregister, SizeInv, TypeOK, TreesOK
<1>13. ASSUME NEW e \in Endpoints, CancelTooLate(e) PROVE SizeInv'
  BY <1>13 DEF CancelTooLate, SizeInv, TypeOK, TreesOK
<1>14. ASSUME NEW e \in Endpoints, CancelReleasing(e) PROVE SizeInv'
  BY <1>14 DEF CancelReleasing, Release, Drop, Unregister, Decremented, SizeInv, TypeOK, TreesOK
<1>15. ASSUME NEW t \in Trees, NEW n \in Sizes, Publish(t, n) PROVE SizeInv'
  BY <1>15 DEF Publish, TypeOK, TreesOK, SizeInv
<1>16. ASSUME NEW t \in Trees, NEW n \in Sizes, Commit(t, n) PROVE SizeInv'
  <2>1. scan[t] = "made" /\ UNCHANGED scan /\ size' = [size EXCEPT ![t] = n]
    BY <1>16 DEF Commit, LifeInv, TreeInv
  <2>2. QED
    BY <2>1 DEF SizeInv, TypeOK, TreesOK
<1>17. ASSUME NEW t \in Trees, InitializeFails(t) PROVE SizeInv'
  BY <1>17 DEF InitializeFails, Uninitialized, SizeInv, TypeOK, TreesOK
<1>18. ASSUME NEW t \in Trees, StartBatch(t) PROVE SizeInv'
  BY <1>18 DEF StartBatch, SizeInv, TypeOK, TreesOK
<1>19. ASSUME NEW t \in Trees, StartRebuild(t) PROVE SizeInv'
  BY <1>19 DEF StartRebuild, SizeInv, TypeOK, TreesOK
<1>20. ASSUME NEW t \in Trees, TornDown(t) PROVE SizeInv'
  BY <1>20 DEF TornDown, Drop, Unregister, SizeInv, TypeOK, TreesOK
<1>21. ASSUME NEW t \in Trees, Invalidate(t) PROVE SizeInv'
  BY <1>21 DEF Invalidate, Drop, Unregister, SizeInv, TypeOK, TreesOK
<1>22. ASSUME NEW t \in Trees, StopEnds(t) PROVE SizeInv'
  BY <1>22 DEF StopEnds, SizeInv, TypeOK, TreesOK
<1>23. ASSUME Shutdown PROVE SizeInv'
  BY <1>23 DEF Shutdown, SizeInv, TypeOK, TreesOK
<1>26. ASSUME NEW e \in Endpoints, Removed(e) PROVE SizeInv'
  BY <1>26 DEF Removed, SizeInv, TypeOK, TreesOK
<1>27. ASSUME NEW e \in Endpoints, CancelRemoving(e) PROVE SizeInv'
  BY <1>27 DEF CancelRemoving, SizeInv, TypeOK, TreesOK
<1>28. ASSUME NEW e \in Endpoints, CancelStop(e) PROVE SizeInv'
  BY <1>28 DEF CancelStop, SizeInv, TypeOK, TreesOK
<1>29. ASSUME NEW t \in Trees, LeaveLoop(t) PROVE SizeInv'
  BY <1>29 DEF LeaveLoop, SizeInv, TypeOK, TreesOK
<1>24. CASE UNCHANGED vars
  BY <1>24 DEF vars, SizeInv, TypeOK, TreesOK
<1>25. QED
  BY <1>1, <1>2, <1>3, <1>4, <1>5, <1>6, <1>7, <1>8, <1>9, <1>10, <1>11, <1>12,
     <1>13, <1>14, <1>15, <1>16, <1>17, <1>18, <1>19, <1>20, <1>21, <1>22, <1>23,
     <1>24, <1>26, <1>27, <1>28, <1>29 DEF Next, Endpoint


\* A queue takes a frame only when it has room, and an error takes all of it.
LEMMA QueueStep ==
    ASSUME TypeOK, QueueInv, [Next]_vars
    PROVE  QueueInv'
<1> USE FileTreesAssumption DEF registryVars, treeVars, endpointVars, frameVars
<1>1. ASSUME NEW e \in Endpoints, NEW r \in Roots, Open(e, r) PROVE QueueInv'
  BY <1>1 DEF Open, QueueInv
<1>2. ASSUME NEW e \in Endpoints, Acquire(e) PROVE QueueInv'
  BY <1>2 DEF Acquire, QueueInv
<1>3. ASSUME NEW e \in Endpoints, Initialized(e) PROVE QueueInv'
  BY <1>3 DEF Initialized, QueueInv
<1>4. ASSUME NEW e \in Endpoints, AcquireFails(e) PROVE QueueInv'
  BY <1>4 DEF AcquireFails, Release, Drop, Unregister, Decremented, QueueInv
<1>5. ASSUME NEW e \in Endpoints, Subscribe(e) PROVE QueueInv'
  <2>1. Len(<<"data">>) = 1 /\ Capacity >= 1
    OBVIOUS
  <2>2. frames' = [frames EXCEPT ![e] = <<"data">>]
    BY <1>5 DEF Subscribe
  <2>3. QED
    BY <2>1, <2>2 DEF QueueInv, TypeOK, FramesOK
<1>6. ASSUME NEW e \in Endpoints, Refuse(e) PROVE QueueInv'
  BY <1>6 DEF Refuse, Release, Drop, Unregister, Decremented, QueueInv
<1>7. ASSUME NEW e \in Endpoints, Released(e) PROVE QueueInv'
  BY <1>7 DEF Released, QueueInv
<1>8. ASSUME NEW e \in Endpoints, Unsubscribe(e) PROVE QueueInv'
  BY <1>8 DEF Unsubscribe, Ended, RemoveSubscriber, Unregister, QueueInv
<1>9. ASSUME NEW e \in Endpoints, Finish(e) PROVE QueueInv'
  BY <1>9 DEF Finish, QueueInv
<1>10. ASSUME NEW e \in Endpoints, Send(e) PROVE QueueInv'
  <2>1. frames' = [frames EXCEPT ![e] = Tail(@)] /\ frames[e] # <<>>
    BY <1>10 DEF Send
  <2>2. frames[e] \in Seq({"data", "error"}) /\ Len(frames[e]) <= Capacity
    BY <1>10 DEF TypeOK, FramesOK, QueueInv
  <2>3. Len(Tail(frames[e])) <= Capacity
    BY <2>1, <2>2
  <2>4. QED
    BY <2>1, <2>3 DEF QueueInv, TypeOK, FramesOK
<1>11. ASSUME NEW e \in Endpoints, Leave(e) PROVE QueueInv'
  BY <1>11 DEF Leave, Holding, Release, Drop, Unregister, Decremented, QueueInv
<1>12. ASSUME NEW e \in Endpoints, Disconnect(e) PROVE QueueInv'
  BY <1>12 DEF Disconnect, Ended, RemoveSubscriber, Unregister, QueueInv
<1>13. ASSUME NEW e \in Endpoints, CancelTooLate(e) PROVE QueueInv'
  BY <1>13 DEF CancelTooLate, QueueInv
<1>14. ASSUME NEW e \in Endpoints, CancelReleasing(e) PROVE QueueInv'
  BY <1>14 DEF CancelReleasing, Release, Drop, Unregister, Decremented, QueueInv
<1>15. ASSUME NEW t \in Trees, NEW n \in Sizes, Publish(t, n) PROVE QueueInv'
  BY <1>15 DEF Publish, Uninitialized, QueueInv
<1>16. ASSUME NEW t \in Trees, NEW n \in Sizes, Commit(t, n) PROVE QueueInv'
  <2>1. Enqueue(t)
    BY <1>16 DEF Commit
  <2>2. ASSUME NEW e \in Endpoints PROVE Len(frames'[e]) <= Capacity
    <3>1. frames[e] \in Seq({"data", "error"}) /\ Len(frames[e]) <= Capacity
      BY DEF TypeOK, FramesOK, QueueInv
    <3>2. CASE e \in subs[t] \ Full(t)
      <4>1. frames'[e] = Append(frames[e], "data") /\ Len(frames[e]) # Capacity
        BY <2>1, <3>2 DEF Enqueue, Full
      <4>2. QED
        BY <3>1, <4>1
    <3>3. CASE ~(e \in subs[t] \ Full(t))
      BY <2>1, <3>1, <3>3 DEF Enqueue
    <3>4. QED
      BY <3>2, <3>3
  <2>3. QED
    BY <2>2 DEF QueueInv
<1>17. ASSUME NEW t \in Trees, InitializeFails(t) PROVE QueueInv'
  BY <1>17 DEF InitializeFails, Uninitialized, QueueInv
<1>18. ASSUME NEW t \in Trees, StartBatch(t) PROVE QueueInv'
  BY <1>18 DEF StartBatch, QueueInv
<1>19. ASSUME NEW t \in Trees, StartRebuild(t) PROVE QueueInv'
  BY <1>19 DEF StartRebuild, QueueInv
<1>20. ASSUME NEW t \in Trees, TornDown(t) PROVE QueueInv'
  BY <1>20 DEF TornDown, Drop, Unregister, QueueInv
<1>21. ASSUME NEW t \in Trees, Invalidate(t) PROVE QueueInv'
  <2>1. \A e \in Endpoints : frames'[e] = <<"error">> \/ frames'[e] = frames[e]
    BY <1>21 DEF Invalidate
  <2>2. Len(<<"error">>) = 1 /\ Capacity >= 1
    OBVIOUS
  <2>3. QED
    BY <2>1, <2>2 DEF QueueInv
<1>22. ASSUME NEW t \in Trees, StopEnds(t) PROVE QueueInv'
  BY <1>22 DEF StopEnds, QueueInv
<1>23. ASSUME Shutdown PROVE QueueInv'
  BY <1>23 DEF Shutdown, QueueInv
<1>26. ASSUME NEW e \in Endpoints, Removed(e) PROVE QueueInv'
  BY <1>26 DEF Removed, QueueInv
<1>27. ASSUME NEW e \in Endpoints, CancelRemoving(e) PROVE QueueInv'
  BY <1>27 DEF CancelRemoving, QueueInv
<1>28. ASSUME NEW e \in Endpoints, CancelStop(e) PROVE QueueInv'
  BY <1>28 DEF CancelStop, QueueInv
<1>29. ASSUME NEW t \in Trees, LeaveLoop(t) PROVE QueueInv'
  BY <1>29 DEF LeaveLoop, QueueInv
<1>24. CASE UNCHANGED vars
  BY <1>24 DEF vars, QueueInv
<1>25. QED
  BY <1>1, <1>2, <1>3, <1>4, <1>5, <1>6, <1>7, <1>8, <1>9, <1>10, <1>11, <1>12,
     <1>13, <1>14, <1>15, <1>16, <1>17, <1>18, <1>19, <1>20, <1>21, <1>22, <1>23,
     <1>24, <1>26, <1>27, <1>28, <1>29 DEF Next, Endpoint


\* The books are kept: what a step takes out of the registry or puts into it is
\* taken from the count or added to it, and what it adds fits.
LEMMA BooksStep ==
    ASSUME TypeOK, SizeInv, BooksInv, Books
    PROVE  BooksInv'
<1> DEFINE R == Counted
           Sum(f, S) == SumFunctionOnSet(f, S)
<1>1. IsFiniteSet(R) /\ total = Sum(size,
     R) /\ total <= Budget /\ total \in Int /\ Budget \in Nat
  BY FileTreesAssumption DEF BooksInv, TypeOK, TablesOK
<1>2. \A u \in Trees : size[u] \in Nat
  BY DEF TypeOK, TreesOK
<1>3. R \subseteq Trees
  BY DEF Counted
<1>4. CASE Untouched
  <2>1. Counted' = R
    BY <1>4 DEF Untouched, Counted
  <2>2. QED
    BY <1>1, <1>4, <2>1 DEF Untouched, BooksInv
<1>5. ASSUME NEW t \in Trees, Dropped(t) PROVE BooksInv'
  <2>1. Counted' = R \ {t} /\ t \in R
    BY <1>5 DEF Dropped, Counted
  <2>2. IsFiniteSet(R \ {t})
    BY <1>1, FS_RemoveElement
  <2>3. Sum(size, R) = size[t] + Sum(size, R \ {t}) /\ Sum(size, R \ {t}) \in Nat
    BY <1>1, <1>2, <1>3, <2>1, <2>2, SumSplits
  <2>4. size' = size /\ total' = total - size[t] /\ size[t] \in Nat
    BY <1>2, <1>5 DEF Dropped
  <2> HIDE DEF R, Sum
  <2>5. total' = Sum(size, R \ {t}) /\ total' <= Budget
    BY <1>1, <2>3, <2>4
  <2>6. QED
    BY <2>1, <2>2, <2>4, <2>5 DEF BooksInv, Sum
<1>6. ASSUME NEW t \in Trees, NEW n \in Sizes, Counts(t, n) PROVE BooksInv'
  <2> DEFINE Others == R \ {t}
  <2>1. Counted' = Others \cup {t} /\ (t \in R \/ size[t] = 0)
    BY <1>6 DEF Counts, Counted
  <2>2. IsFiniteSet(Others) /\ IsFiniteSet(Others \cup {t})
    BY <1>1, FS_RemoveElement, FS_AddElement
  <2>3. size' = [size EXCEPT ![t] = n] /\ n \in Nat
    BY <1>6, FileTreesAssumption DEF Counts
  <2>4. size'[t] = n /\ \A u \in Others : size'[u] = size[u]
    BY <1>3, <2>3 DEF TypeOK, TreesOK
  <2>5. Sum(size, Others) \in Nat
    BY <1>2, <1>3, <2>2, SumSplits
  <2>6. Sum(size, R) = size[t] + Sum(size, Others)
    <3>1. CASE t \in R
      BY <1>1, <1>2, <1>3, <3>1, SumSplits
    <3>2. CASE t \notin R
      <4>1. Others = R /\ size[t] = 0
        BY <2>1, <3>2
      <4>2. QED
        BY <2>5, <4>1
    <3>3. QED
      BY <3>1, <3>2
  <2>7. Sum(size', Others) = Sum(size, Others)
    BY <1>2, <1>3, <2>2, <2>4, SumDepends
  <2>8. Sum(size', Others \cup {t}) = n + Sum(size', Others)
    <3>1. \A u \in Others \cup {t} : size'[u] \in Nat
      BY <1>2, <1>3, <2>3, <2>4
    <3>2. t \in Others \cup {t} /\ (Others \cup {t}) \ {t} = Others
      OBVIOUS
    <3> HIDE DEF Others
    <3>3. QED
      BY <2>2, <2>4, <3>1, <3>2, SumSplits
  <2>9. total' = total - size[t] + n /\ total - size[t] + n <= Budget /\ size[t] \in Nat
    BY <1>2, <1>6 DEF Counts, Fits
  <2> HIDE DEF R, Others, Sum
  <2>10. total' = n + Sum(size, Others) /\ total' <= Budget
    BY <1>1, <2>3, <2>5, <2>6, <2>9
  <2>11. QED
    BY <2>1, <2>2, <2>7, <2>8, <2>10 DEF BooksInv, Sum
<1>7. CASE Cleared
  <2>1. Counted' = {} /\ total' = 0
    BY <1>7 DEF Cleared, Counted
  <2>2. IsFiniteSet({}) /\ Sum(size', {}) = 0
    <3>1. IsFiniteSet({}) /\ \A x \in {} : size'[x] \in Nat
      BY FS_EmptySet
    <3>2. QED
      BY <3>1, SumSplits
  <2>3. QED
    BY <1>1, <2>1, <2>2 DEF BooksInv
<1>8. QED
  BY <1>4, <1>5, <1>6, <1>7 DEF Books

-----------------------------------------------------------------------------
(* The theorems *)

IInv ==
    /\ TypeOK /\ LifeInv /\ ServedInv /\ ErrorIsNext /\ CountInv /\ UsedInv
    /\ SizeInv /\ BooksInv /\ QueueInv

\* The invariant holds in every behaviour.
THEOREM Invariant == Spec => []IInv
<1>1. Init => IInv
  BY InitInv, InitBooks DEF IInv
<1>2. IInv /\ [Next]_vars => IInv'
  BY TypeStep, EpStep, TreeStep, TableStep, SubStep, DownStep, AwaitStep, ServedStep,
       ErrorStep, CountStep,
     UsedStep, BooksOfStep, BooksStep, SizeStep, QueueStep
  DEF IInv, LifeInv
<1>3. QED
  BY <1>1, <1>2, PTL DEF Spec

\* Every variable of the manager and its endpoints has a value of its type.
THEOREM Types == Spec => []TypeOK
<1>1. IInv => TypeOK
  BY DEF IInv
<1>2. QED
  BY Invariant, <1>1, PTL

\* A root has one tree and one watcher: whoever is subscribed is served by the
\* registered tree, and a root that is scanned has none yet.
THEOREM OneTree == Spec => []OneTreePerRoot
<1>1. IInv => OneTreePerRoot
  BY DEF IInv, LifeInv, TreeInv, SubInv, OneTreePerRoot
<1>2. QED
  BY Invariant, <1>1, PTL

\* The budget counts the paths of the registered trees, and holds them, however
\* publications, reconciliations, drops and the shutdown follow each other; a
\* client's queue holds no more than its capacity.
THEOREM BudgetHolds == Spec => []AccountingExact
<1>1. IInv => AccountingExact
  BY DEF IInv, BooksInv, QueueInv, Counted, AccountingExact
<1>2. QED
  BY Invariant, <1>1, PTL

\* A client whose tree was lost gets the error and nothing older.
THEOREM ErrorComes == Spec => []ErrorIsNext
<1>1. IInv => ErrorIsNext
  BY DEF IInv
<1>2. QED
  BY Invariant, <1>1, PTL

\* Each reservation of acquire is given back once, by whichever of acquire, the
\* endpoint and add_subscriber meets its end.
THEOREM Reservations == Spec => []ReservationsExact
<1>1. IInv => ReservationsExact
  BY DEF IInv, CountInv, Holders, ReservationsExact
<1>2. QED
  BY Invariant, <1>1, PTL

\* No tree goes on watching for nobody, but for reservations that a cancellation
\* has made wrong.
THEOREM TreesAreUsed == Spec => []NoIdleTreeUnlessLeaked
<1>1. IInv => NoIdleTreeUnlessLeaked
  <2> SUFFICES ASSUME IInv, \A r \in leaked : registry[r] = None, NEW t \in Trees,
                      Registered(t), subs[t] = {}, evt[t] # "tearing"
               PROVE  \E e \in Endpoints : want[e] = root[t] /\ Holding(e)
    BY DEF NoIdleTreeUnlessLeaked, NoIdleTree
  <2>1. pending[root[t]] # 0
    BY DEF IInv, UsedInv
  <2>2. root[t] \in Roots \ leaked /\ ~down
    BY FileTreesAssumption DEF IInv, TypeOK, TreesOK, LifeInv, DownInv, Registered
  <2>3. Holders(root[t]) # {}
    BY <2>1, <2>2, FS_EmptySet DEF IInv, CountInv
  <2>4. QED
    BY <2>3 DEF Holders
<1>2. QED
  BY Invariant, <1>1, PTL

\* No tree is dropped under its users without an error to each of them, whatever
\* comes and goes around it.
THEOREM DropsJustified == Spec => DropsAreJustified
<1>1. IInv /\ [Next]_vars => [Justified]_vars
  BY DropStep DEF IInv
<1>2. QED
  BY Invariant, <1>1, PTL DEF Spec, DropsAreJustified, Justified
=============================================================================
