------------------------------ MODULE FileTrees ------------------------------
(***************************************************************************)
(* The life of shared file trees: FileTreeManager (file_tree.py) and the   *)
(* endpoints of /ws/sessions/{id}/files that share it (main.py).           *)
(*                                                                         *)
(* A step is what a task does between two awaits that may suspend.  The    *)
(* registry lock and the tree locks are never held across one.  A tree has *)
(* the name of the task _initialize that makes it; it is valid as long as  *)
(* it is registered.                                                       *)
(***************************************************************************)
EXTENDS Integers, Sequences, FiniteSets, FiniteSetsExt

CONSTANTS
    Roots,         \* working directories
    Endpoints,     \* WebSockets of clients
    Trees,
    Sizes,         \* numbers of paths of a tree
    Budget,        \* MAX_FILE_TREE_PATHS_GLOBAL
    Capacity,      \* FILE_TREE_SUBSCRIBER_QUEUE_FRAMES
    None

ASSUME FileTreesAssumption ==
    /\ None \notin Trees \cup Roots /\ IsFiniteSet(Endpoints)
    /\ Sizes \subseteq Nat /\ Budget \in Nat /\ Capacity \in Nat \ {0}

VARIABLES
    registry,      \* file_trees
    init,          \* file_tree_initializations
    pending,       \* reservations of a root
    total,         \* global_paths
    scan,          \* _initialize of a tree
    root, size,    \* of a tree
    open,          \* trees whose inotify is open
    subs,          \* subscribers
    evt,           \* _event_loop of a tree
    ep,            \* file_tree_websocket
    want,          \* and its root
    acq,           \* and its task acquire
    got,           \* and the tree acquire waits for or returned
    awaits,        \* and the tree whose end it waits for
    frames,        \* outbound
    writer,        \* _write_subscriber
    down,          \* the server has shut down
    leaked,        \* roots whose reservations a cancellation has made wrong
    abandoned      \* trees whose stop a cancellation has cut short

registryVars == <<registry, init, pending, total>>
treeVars     == <<scan, root, size, open, subs, evt>>
endpointVars == <<ep, want, acq, got, awaits>>
frameVars    == <<frames, writer>>
vars == <<registryVars, treeVars, endpointVars, frameVars, down, leaked, abandoned>>

Init ==
    /\ registry = [r \in Roots |-> None] /\ init = [r \in Roots |-> None]
    /\ pending = [r \in Roots |-> 0] /\ total = 0
    /\ scan = [t \in Trees |-> "unborn"]
    /\ root = [t \in Trees |-> None] /\ size = [t \in Trees |-> 0]
    /\ open = {} /\ subs = [t \in Trees |-> {}] /\ evt = [t \in Trees |-> "none"]
    /\ ep = [e \in Endpoints |-> "new"] /\ want = [e \in Endpoints |-> None]
    /\ acq = [e \in Endpoints |-> "none"] /\ got = [e \in Endpoints |-> None]
    /\ awaits = [e \in Endpoints |-> None]
    /\ frames = [e \in Endpoints |-> <<>>] /\ writer = [e \in Endpoints |-> "none"]
    /\ down = FALSE /\ leaked = {} /\ abandoned = {}

Registered(t) == root[t] # None /\ registry[root[t]] = t

-----------------------------------------------------------------------------
(* The manager *)

\* _decrement_pending_locked: never below zero.
Decremented(n) == IF n <= 1 THEN 0 ELSE n - 1

\* The tree leaves the registry and is invalid.
Unregister(t) ==
    /\ registry' = [registry EXCEPT ![root[t]] = None]
    /\ total' = total - size[t]

\* Mutant: _stop_tree waits for the event task without cancelling it.
DropWithoutCancel(t) ==
    /\ Unregister(t)
    /\ UNCHANGED evt

\* And _stop_tree cancels its event task.
Drop(t) ==
    /\ Unregister(t)
    /\ evt' = [evt EXCEPT ![t] = "stopping"]

\* release_pending, for the endpoint e, which waits for the tree it stops.
Release(e) ==
    LET r == want[e]
        t == registry[r]
        n == Decremented(pending[r])
    IN  /\ pending' = [pending EXCEPT ![r] = n]
        /\ IF t # None /\ n = 0 /\ subs[t] = {}
           THEN Drop(t) /\ awaits' = [awaits EXCEPT ![e] = t]
           ELSE UNCHANGED <<registry, total, evt, awaits>>

\* The event task has ended; the inotify is closed by the task that waited for it,
\* if nobody has cancelled that.
StopEnds(t) ==
    /\ evt[t] = "stopping"
    /\ evt' = [evt EXCEPT ![t] = "done"]
    /\ open' = IF t \in abandoned THEN open ELSE open \ {t}
    /\ UNCHANGED <<registryVars, scan, root, size, subs, endpointVars, frameVars, down, leaked,
                   abandoned>>

\* acquire, up to the wait for the initialization.
Acquire(e) ==
    /\ ep[e] = "waiting" /\ acq[e] = "created"
    /\ LET r == want[e] IN
       /\ pending' = [pending EXCEPT ![r] = @ + 1]
       /\ \/ /\ registry[r] # None
             /\ acq' = [acq EXCEPT ![e] = "done"]
             /\ got' = [got EXCEPT ![e] = registry[r]]
             /\ UNCHANGED <<init, scan, root>>
          \/ /\ registry[r] = None /\ init[r] # None
             /\ acq' = [acq EXCEPT ![e] = "joined"]
             /\ got' = [got EXCEPT ![e] = init[r]]
             /\ UNCHANGED <<init, scan, root>>
          \/ /\ registry[r] = None /\ init[r] = None
             /\ \E t \in Trees :
                  /\ scan[t] = "unborn"
                  /\ scan' = [scan EXCEPT ![t] = "scanning"]
                  /\ root' = [root EXCEPT ![t] = r]
                  /\ init' = [init EXCEPT ![r] = t]
                  /\ acq' = [acq EXCEPT ![e] = "joined"]
                  /\ got' = [got EXCEPT ![e] = t]
    /\ UNCHANGED <<registry, total, size, open, subs, evt, ep, want, awaits, frameVars, down,
                   leaked, abandoned>>

Uninitialized(t) ==
    init' = [r \in Roots |-> IF init[r] = t THEN None ELSE init[r]]

\* Mutant: the tree is compared with the budget, not all the trees.
FitsAlone(t, n) == n <= Budget

\* _check_global_fit, _check_growth_fit.
Fits(t, n) == total - size[t] + n <= Budget

\* The scan has ended well and the tree is still wanted.
Publish(t, n) ==
    /\ scan[t] = "scanning" /\ pending[root[t]] > 0 /\ Fits(t, n)
    /\ scan' = [scan EXCEPT ![t] = "made"]
    /\ size' = [size EXCEPT ![t] = n] /\ total' = total + n
    /\ registry' = [registry EXCEPT ![root[t]] = t] /\ Uninitialized(t)
    /\ open' = open \cup {t} /\ evt' = [evt EXCEPT ![t] = "idle"]
    /\ UNCHANGED <<pending, root, subs, endpointVars, frameVars, down, leaked, abandoned>>

\* It has failed, does not fit, or nobody waits for it.
InitializeFails(t) ==
    /\ scan[t] = "scanning"
    /\ scan' = [scan EXCEPT ![t] = "failed"] /\ Uninitialized(t)
    /\ UNCHANGED <<registry, pending, total, root, size, open, subs, evt, endpointVars,
                   frameVars, down, leaked, abandoned>>

-----------------------------------------------------------------------------
(* Events of a tree *)

\* _process_batch reconciles in a thread, with the reader removed.
StartBatch(t) ==
    /\ evt[t] = "idle" /\ Registered(t)
    /\ evt' = [evt EXCEPT ![t] = "reconciling"]
    /\ UNCHANGED <<registryVars, scan, root, size, open, subs, endpointVars, frameVars, down,
                   leaked, abandoned>>

\* The ignore file has changed or the patch is too large: _rebuild closes the
\* old inotify and scans again in a thread.
StartRebuild(t) ==
    /\ evt[t] \in {"idle", "reconciling"} /\ Registered(t)
    /\ evt' = [evt EXCEPT ![t] = "rebuilding"] /\ open' = open \ {t}
    /\ UNCHANGED <<registryVars, scan, root, size, subs, endpointVars, frameVars, down,
                   leaked, abandoned>>

Full(t) == {e \in subs[t] : Len(frames[e]) = Capacity}

\* A patch or a snapshot for every subscriber; one whose queue is full is retired
\* and its writer cancelled.
Enqueue(t) ==
    /\ frames' = [e \in Endpoints |-> IF e \in subs[t] \ Full(t)
                                      THEN Append(frames[e], "data") ELSE frames[e]]
    /\ writer' = [e \in Endpoints |-> IF e \in Full(t) THEN "done" ELSE writer[e]]
    /\ subs' = [subs EXCEPT ![t] = @ \ Full(t)]

\* Mutant: a subscriber retired for its queue may leave the tree without users.
CommitForgetful(t, n) ==
    /\ evt[t] \in {"reconciling", "rebuilding"} /\ Registered(t) /\ Fits(t, n)
    /\ total' = total - size[t] + n /\ size' = [size EXCEPT ![t] = n]
    /\ Enqueue(t)
    /\ evt' = [evt EXCEPT ![t] = "idle"]
    /\ open' = open \cup {t}
    /\ UNCHANGED <<registry, init, pending, scan, root, endpointVars, down, leaked,
                   abandoned>>

\* The end of _process_batch or _rebuild: the size and the frames in one step,
\* then the retired subscribers are torn down.
Commit(t, n) ==
    /\ evt[t] \in {"reconciling", "rebuilding"} /\ Registered(t) /\ Fits(t, n)
    /\ total' = total - size[t] + n /\ size' = [size EXCEPT ![t] = n]
    /\ Enqueue(t)
    /\ evt' = [evt EXCEPT ![t] = IF Full(t) = {} THEN "idle" ELSE "tearing"]
    /\ open' = open \cup {t}
    /\ UNCHANGED <<registry, init, pending, scan, root, endpointVars, down, leaked,
                   abandoned>>

\* The event task of a tree that is not registered any more, and not stopped yet,
\* ends by itself, when it has anything to do.
LeaveLoop(t) ==
    /\ evt[t] \in {"idle", "reconciling", "rebuilding", "tearing"} /\ ~Registered(t)
    /\ evt' = [evt EXCEPT ![t] = "ended"]
    /\ UNCHANGED <<registryVars, scan, root, size, open, subs, endpointVars, frameVars, down,
                   leaked, abandoned>>

\* Mutant: the event task that stops its own tree waits for its own end.
TornDownStuck(t) ==
    /\ evt[t] = "tearing" /\ Registered(t)
    /\ IF subs[t] = {} /\ pending[root[t]] = 0
       THEN /\ registry' = [registry EXCEPT ![root[t]] = None]
            /\ total' = total - size[t] /\ UNCHANGED evt
       ELSE evt' = [evt EXCEPT ![t] = "idle"] /\ UNCHANGED <<registry, total>>
    /\ UNCHANGED <<init, pending, scan, root, size, open, subs, ep, want, acq, got, awaits,
                   frameVars, down, leaked, abandoned>>

\* _teardown_many closes their sockets; _cleanup_unused looks for users.  The
\* event task that stops its own tree does not cancel itself.
TornDown(t) ==
    /\ evt[t] = "tearing" /\ Registered(t)
    /\ IF subs[t] = {} /\ pending[root[t]] = 0
       THEN Drop(t)
       ELSE evt' = [evt EXCEPT ![t] = "idle"] /\ UNCHANGED <<registry, total>>
    /\ UNCHANGED <<init, pending, scan, root, size, open, subs, ep, want, acq, got, awaits,
                   frameVars, down, leaked, abandoned>>

\* Mutant: the error queues behind the patches.
InvalidateQueueing(t) ==
    /\ evt[t] \in {"idle", "reconciling", "rebuilding"} /\ Registered(t)
    /\ Drop(t)
    /\ frames' = [e \in Endpoints |-> IF e \in subs[t] /\ Len(frames[e]) < Capacity
                                      THEN Append(frames[e], "error") ELSE frames[e]]
    /\ subs' = [subs EXCEPT ![t] = {}]
    /\ UNCHANGED <<init, pending, scan, root, size, open, endpointVars, writer, down,
                   leaked, abandoned>>

\* Overflow, the root removed, a scan that fails, growth beyond the budget, or a
\* read error.  An error supersedes what is queued.
Invalidate(t) ==
    /\ evt[t] \in {"idle", "reconciling", "rebuilding"} /\ Registered(t)
    /\ Drop(t)
    /\ frames' = [e \in Endpoints |-> IF e \in subs[t] THEN <<"error">> ELSE frames[e]]
    /\ subs' = [subs EXCEPT ![t] = {}]
    /\ UNCHANGED <<init, pending, scan, root, size, open, endpointVars, writer, down,
                   leaked, abandoned>>

-----------------------------------------------------------------------------
(* file_tree_websocket *)

Open(e, r) ==
    /\ ep[e] = "new" /\ ~down
    /\ ep' = [ep EXCEPT ![e] = "waiting"] /\ want' = [want EXCEPT ![e] = r]
    /\ acq' = [acq EXCEPT ![e] = "created"]
    /\ UNCHANGED <<registryVars, treeVars, got, awaits, frameVars, down, leaked, abandoned>>

\* acquire returns, or fails and releases.
Initialized(e) ==
    /\ ep[e] = "waiting" /\ acq[e] = "joined" /\ scan[got[e]] = "made"
    /\ acq' = [acq EXCEPT ![e] = "done"]
    /\ UNCHANGED <<registryVars, treeVars, ep, want, got, awaits, frameVars, down, leaked,
                   abandoned>>

AcquireFails(e) ==
    /\ ep[e] = "waiting" /\ acq[e] = "joined" /\ scan[got[e]] = "failed"
    /\ Release(e)
    /\ acq' = [acq EXCEPT ![e] = "failed"] /\ ep' = [ep EXCEPT ![e] = "finishing"]
    /\ UNCHANGED <<init, scan, root, size, open, subs, want, got, frameVars, down, leaked,
                   abandoned>>

Holding(e) == ep[e] = "waiting" /\ acq[e] \in {"joined", "done"}

\* Mutant: an acquisition that has ended is not released.
LeaveHolding(e) ==
    /\ ep[e] = "waiting"
    /\ IF acq[e] = "joined" THEN Release(e)
       ELSE UNCHANGED <<registry, pending, total, evt, awaits>>
    /\ ep' = [ep EXCEPT ![e] = "finishing"]
    /\ UNCHANGED <<init, scan, root, size, open, subs, want, acq, got, frameVars, down,
                   leaked, abandoned>>

\* The client is gone first, or the endpoint is cancelled: so is the acquisition,
\* which releases what it reserved; one that has ended the endpoint releases.
Leave(e) ==
    /\ ep[e] = "waiting"
    /\ IF Holding(e) THEN Release(e) ELSE UNCHANGED <<registry, pending, total, evt, awaits>>
    /\ ep' = [ep EXCEPT ![e] = "finishing"]
    /\ UNCHANGED <<init, scan, root, size, open, subs, want, acq, got, frameVars, down,
                   leaked, abandoned>>

\* Mutant: the tree may have been replaced since acquire returned.
SubscribeUnchecked(e) ==
    /\ ep[e] = "waiting" /\ acq[e] = "done"
    /\ ep' = [ep EXCEPT ![e] = "subscribed"]
    /\ frames' = [frames EXCEPT ![e] = <<"data">>] /\ writer' = [writer EXCEPT ![e] = "on"]
    /\ subs' = [subs EXCEPT ![got[e]] = @ \cup {e}]
    /\ pending' = [pending EXCEPT ![want[e]] = Decremented(@)]
    /\ UNCHANGED <<registry, init, total, scan, root, size, open, evt, want, acq, got, awaits,
                   down, leaked, abandoned>>

\* add_subscriber: snapshot, registration and the end of the reservation.
Subscribe(e) ==
    /\ ep[e] = "waiting" /\ acq[e] = "done" /\ Registered(got[e])
    /\ ep' = [ep EXCEPT ![e] = "subscribed"]
    /\ frames' = [frames EXCEPT ![e] = <<"data">>] /\ writer' = [writer EXCEPT ![e] = "on"]
    /\ subs' = [subs EXCEPT ![got[e]] = @ \cup {e}]
    /\ pending' = [pending EXCEPT ![want[e]] = Decremented(@)]
    /\ UNCHANGED <<registry, init, total, scan, root, size, open, evt, want, acq, got, awaits,
                   down, leaked, abandoned>>

\* The tree was replaced, or the session or its directory is gone.
Refuse(e) ==
    /\ ep[e] = "waiting" /\ acq[e] = "done"
    /\ Release(e)
    /\ ep' = [ep EXCEPT ![e] = "releasing"]
    /\ UNCHANGED <<init, scan, root, size, open, subs, want, acq, got, frameVars, down,
                   leaked, abandoned>>

Stopped(e) == awaits[e] # None => evt[awaits[e]] = "done"

Released(e) ==
    /\ ep[e] = "releasing" /\ Stopped(e)
    /\ ep' = [ep EXCEPT ![e] = "finishing"]
    /\ UNCHANGED <<registryVars, treeVars, want, acq, got, awaits, frameVars, down, leaked,
                   abandoned>>

\* Mutant: those who wait for the tree are not users of it.
RemoveIgnoringPending(e) ==
    /\ subs' = [subs EXCEPT ![got[e]] = @ \ {e}]
    /\ writer' = [writer EXCEPT ![e] = "done"]
    /\ IF Registered(got[e]) /\ subs[got[e]] \subseteq {e}
       THEN Unregister(got[e]) /\ awaits' = [awaits EXCEPT ![e] = got[e]]
       ELSE UNCHANGED <<registry, total, awaits>>

\* remove_subscriber, up to the teardown of the subscriber: the tree is registered
\* no more and still runs.
RemoveSubscriber(e) ==
    /\ subs' = [subs EXCEPT ![got[e]] = @ \ {e}]
    /\ writer' = [writer EXCEPT ![e] = "done"]
    /\ IF Registered(got[e]) /\ subs[got[e]] \subseteq {e} /\ pending[want[e]] = 0
       THEN Unregister(got[e]) /\ awaits' = [awaits EXCEPT ![e] = got[e]]
       ELSE UNCHANGED <<registry, total, awaits>>

Ended(e) ==
    /\ RemoveSubscriber(e)
    /\ ep' = [ep EXCEPT ![e] = "removing"]
    /\ UNCHANGED <<init, pending, scan, root, size, open, evt, want, acq, got, frames, down,
                   leaked, abandoned>>

Unsubscribe(e) == ep[e] = "subscribed" /\ writer[e] = "done" /\ Ended(e)

\* The client is gone or the endpoint is cancelled.
Disconnect(e) == ep[e] = "subscribed" /\ Ended(e)

\* The writer has ended and the socket is closed: the tree is stopped.
Removed(e) ==
    /\ ep[e] = "removing"
    /\ ep' = [ep EXCEPT ![e] = "finishing"]
    /\ evt' = [t \in Trees |-> IF t # awaits[e] THEN evt[t]
                               ELSE IF evt[t] = "ended" THEN "done" ELSE "stopping"]
    /\ open' = {t \in open : t = awaits[e] => evt[t] # "ended"}
    /\ UNCHANGED <<registryVars, scan, root, size, subs, want, acq, got, awaits,
                   frameVars, down, leaked, abandoned>>

Finish(e) ==
    /\ ep[e] = "finishing" /\ Stopped(e)
    /\ ep' = [ep EXCEPT ![e] = "done"]
    /\ UNCHANGED <<registryVars, treeVars, want, acq, got, awaits, frameVars, down, leaked,
                   abandoned>>

\* _write_subscriber ends when it is retired and its queue is empty, or a send fails.
Send(e) ==
    /\ writer[e] = "on" /\ frames[e] # <<>>
    /\ frames' = [frames EXCEPT ![e] = Tail(@)]
    /\ \/ writer' = [writer EXCEPT ![e] = "done"]
       \/ UNCHANGED writer /\ (e \in subs[got[e]] \/ Len(frames[e]) > 1)
    /\ UNCHANGED <<registryVars, treeVars, endpointVars, down, leaked, abandoned>>

\* teardown_session or the shutdown cancels the endpoint when the acquisition has
\* ended and pending_reserved is still False.
CancelTooLate(e) ==
    /\ ep[e] = "waiting" /\ acq[e] = "done"
    /\ ep' = [ep EXCEPT ![e] = "finishing"] /\ leaked' = leaked \cup {want[e]}
    /\ UNCHANGED <<registryVars, treeVars, want, acq, got, awaits, frameVars, down,
                   abandoned>>

\* In release_pending pending_reserved is still True: the finally releases again.
CancelReleasing(e) ==
    /\ ep[e] = "releasing" /\ ~Stopped(e)
    /\ Release(e)
    /\ ep' = [ep EXCEPT ![e] = "finishing"] /\ leaked' = leaked \cup {want[e]}
    /\ abandoned' = abandoned \cup {awaits[e]}
    /\ UNCHANGED <<init, scan, root, size, open, subs, want, acq, got, frameVars, down>>

\* A cancellation that meets the endpoint in the teardown of its subscriber: the
\* tree it has removed is never stopped.
CancelRemoving(e) ==
    /\ ep[e] = "removing"
    /\ ep' = [ep EXCEPT ![e] = "done"]
    /\ abandoned' = abandoned \cup ({awaits[e]} \ {None})
    /\ UNCHANGED <<registryVars, treeVars, want, acq, got, awaits, frameVars, down, leaked>>

\* One that meets it, or its acquisition, while it waits for the event task: the
\* inotify is not closed.
CancelStop(e) ==
    /\ ep[e] = "finishing" /\ ~Stopped(e)
    /\ abandoned' = abandoned \cup {awaits[e]}
    /\ UNCHANGED <<registryVars, treeVars, endpointVars, frameVars, down, leaked>>

\* The endpoints have been gathered; scans may still run.
Shutdown ==
    /\ ~down /\ \A e \in Endpoints : ep[e] \in {"new", "done"}
    /\ down' = TRUE
    /\ registry' = [r \in Roots |-> None] /\ init' = [r \in Roots |-> None]
    /\ pending' = [r \in Roots |-> 0] /\ total' = 0
    /\ evt' = [t \in Trees |-> IF Registered(t) THEN "stopping" ELSE evt[t]]
    /\ subs' = [t \in Trees |-> {}]
    /\ UNCHANGED <<scan, root, size, open, endpointVars, frameVars, leaked, abandoned>>

Endpoint(e) ==
    \/ Acquire(e) \/ Initialized(e) \/ AcquireFails(e) \/ Subscribe(e) \/ Refuse(e)
    \/ Released(e) \/ Unsubscribe(e) \/ Removed(e) \/ Finish(e)

Next ==
    \/ \E e \in Endpoints, r \in Roots : Open(e, r)
    \/ \E e \in Endpoints : \/ Endpoint(e) \/ Send(e) \/ Leave(e) \/ Disconnect(e)
                           \/ CancelTooLate(e) \/ CancelReleasing(e)
                           \/ CancelRemoving(e) \/ CancelStop(e)
    \/ \E t \in Trees, n \in Sizes : Publish(t, n) \/ Commit(t, n)
    \/ \E t \in Trees : \/ InitializeFails(t) \/ StartBatch(t) \/ StartRebuild(t)
                        \/ LeaveLoop(t) \/ TornDown(t) \/ Invalidate(t) \/ StopEnds(t)
    \/ Shutdown

Spec == Init /\ [][Next]_vars

\* Tasks that can run do, and a scan in a thread ends.
Fairness ==
    /\ \A e \in Endpoints : WF_vars(Endpoint(e))
    /\ \A t \in Trees :
         /\ WF_vars(InitializeFails(t) \/ \E n \in Sizes : Publish(t, n))
         /\ WF_vars(TornDown(t)) /\ WF_vars(StopEnds(t))

FairSpec == Spec /\ Fairness

-----------------------------------------------------------------------------
(* Properties *)

TablesOK ==
    /\ registry \in [Roots -> Trees \cup {None}] /\ init \in [Roots -> Trees \cup {None}]
    /\ pending \in [Roots -> Nat] /\ total \in Int
    /\ down \in BOOLEAN /\ leaked \subseteq Roots /\ abandoned \subseteq Trees

TreesOK ==
    /\ scan \in [Trees -> {"unborn", "scanning", "made", "failed"}]
    /\ root \in [Trees -> Roots \cup {None}] /\ size \in [Trees -> Nat]
    /\ open \subseteq Trees /\ subs \in [Trees -> SUBSET Endpoints]
    /\ evt \in [Trees -> {"none", "idle", "reconciling", "rebuilding", "tearing",
                          "ended", "stopping", "done"}]

EndpointsOK ==
    /\ ep \in [Endpoints -> {"new", "waiting", "subscribed", "releasing", "removing",
                          "finishing", "done"}]
    /\ want \in [Endpoints -> Roots \cup {None}]
    /\ acq \in [Endpoints -> {"none", "created", "joined", "done", "failed"}]
    /\ got \in [Endpoints -> Trees \cup {None}] /\ awaits \in [Endpoints -> Trees \cup {None}]
    /\ writer \in [Endpoints -> {"none", "on", "done"}]

FramesOK == frames \in [Endpoints -> Seq({"data", "error"})]

\* Every variable has a value the code can give it.
TypeOK == TablesOK /\ TreesOK /\ EndpointsOK /\ FramesOK

\* The count of a root is that of the endpoints that wait for its tree, whatever
\* they run into, until a cancellation comes at one of two unhappy places.
ReservationsExact ==
    \A r \in Roots \ leaked :
        ~down => pending[r] = Cardinality({e \in Endpoints : want[e] = r /\ Holding(e)})

\* A tree exists only while a socket is subscribed to it or waits for its root.
NoIdleTree ==
    \A t \in Trees :
        Registered(t) => subs[t] # {} \/ evt[t] = "tearing"
                           \/ \E e \in Endpoints : want[e] = root[t] /\ Holding(e)

\* So it is for the roots whose reservations no cancellation has made wrong.
NoIdleTreeUnlessLeaked == (\A r \in leaked : registry[r] = None) => NoIdleTree

\* The paths counted against the budget are those of the registered trees, and
\* the budget holds, though reconciliations and scans of several trees overlap; a
\* slow client holds no more frames than its queue.
AccountingExact ==
    /\ \A e \in Endpoints : Len(frames[e]) <= Capacity
    /\ ~down => total = SumFunctionOnSet(size, {t \in Trees : Registered(t)})
    /\ total <= Budget

\* Whoever is subscribed is served by the tree of its root: one tree and one
\* watcher per root, and a root that is scanned has no tree.
OneTreePerRoot ==
    /\ \A t \in Trees : subs[t] # {} => Registered(t) /\ evt[t] \notin {"ended", "stopping", "done"}
    /\ \A t \in Trees : scan[t] = "scanning" /\ ~down =>
                            init[root[t]] = t /\ registry[root[t]] = None

\* A client whose tree was lost gets the error and nothing older.
ErrorIsNext ==
    \A e \in Endpoints :
        ep[e] = "subscribed" /\ ~Registered(got[e]) /\ writer[e] = "on" =>
            frames[e] \in {<<"error">>, <<>>}

\* A tree is dropped when nobody uses it or waits for it; one that is used or waited
\* for is dropped by no client, only by what happens to the tree, with an error to
\* every subscriber.
DropsAreJustified ==
    [][\A t \in Trees : Registered(t) /\ ~Registered(t)' =>
         \/ down'
         \/ subs[t]' = {} /\ pending[root[t]]' = 0
         \/ UNCHANGED ep /\ \A e \in subs[t] : frames[e]' = <<"error">>]_vars

\* An endpoint does not wait for ever: whoever asks for a tree is subscribed or
\* has done, also when it waits for the end of the tree it stopped.
EndpointsProceed ==
    \A e \in Endpoints : ep[e] = "waiting" ~> ep[e] \in {"subscribed", "done"}

\* A tree that has been dropped stops watching, whoever drops it, its own event task
\* too, unless a cancellation has cut its stop short.
DroppedTreesClose ==
    \A t \in Trees : evt[t] # "none" /\ ~Registered(t) ~> t \notin open \/ t \in abandoned
=============================================================================
