------------------------- MODULE SessionTurnsProofs -------------------------
(***************************************************************************)
(* Theorems about SessionTurns, for every set of calls, turns, requests    *)
(* and every bound; and, at the end, that its steps implement TurnQueue    *)
(* under the refinement mapping of SessionTurnsQueue.                      *)
(***************************************************************************)
EXTENDS SessionTurnsQueue, TLAPS

(* Every coroutine that takes turn_lock is a holder, and an empty inbox is one. *)
LEMMA HolderTypes ==
    /\ Free \in Holders \cup {Free} /\ <<>> \in Seq(Inputs)
    /\ \A s \in Inputs : <<"submit", s>> \in Holders /\ <<"turn", s>> \in Holders
    /\ \A p \in Patches : <<"patch", p>> \in Holders
BY DEF Holders

(* ship_inputs keeps the types and claims a batch of at least one message.  *)
LEMMA ShipTypes ==
    ASSUME inbox \in Seq(Inputs), shipped \in Seq(Inputs), ShipInputs
    PROVE  /\ inbox' = <<>> /\ inbox' \in Seq(Inputs) /\ shipped' \in Seq(Inputs)
           /\ batch' \in Inputs /\ status' = "running" /\ retained' = FALSE
           /\ UNCHANGED <<exists, sandbox, crashes>>
BY DEF ShipInputs

(* The types hold at first.                                                  *)
LEMMA TypeInit == Init => TypeOK
<1> SUFFICES ASSUME Init PROVE TypeOK
  OBVIOUS
<1>1. inbox \in Seq(Inputs) /\ shipped \in Seq(Inputs)
  BY DEF Init
<1>2. /\ sub \in [Inputs -> SubPC] /\ turn \in [Inputs -> TurnPC]
      /\ halt \in [Halts -> HaltPC] /\ patch \in [Patches -> PatchPC]
  BY DEF Init, SubPC, TurnPC, HaltPC, PatchPC
<1>3. /\ open \in [Requests -> Inputs \cup {None}]
      /\ target \in [Halts -> Inputs \cup {None}]
      /\ captured \in [Inputs -> BOOLEAN]
  BY DEF Init, NoRequest
<1> QED
  BY <1>1, <1>2, <1>3, ConstantsAssumption DEF Init, TypeOK, Statuses

(* Every step keeps them.                                                    *)
LEMMA TypeNext == TypeOK /\ [Next]_vars => TypeOK'
<1> SUFFICES ASSUME TypeOK, [Next]_vars PROVE TypeOK'
  OBVIOUS
<1> USE ConstantsAssumption, HolderTypes DEF TypeOK, Statuses, SubPC, TurnPC,
    HaltPC, PatchPC, NoRequest, Goto, HaltGoto, StartBatch, rows, tasks, calls,
    halts, agent, ghost
<1>1. ASSUME NEW s \in Inputs, Enqueue(s) PROVE TypeOK'
  <2>1. Append(inbox, s) \in Seq(Inputs)
    OBVIOUS
  <2>2. CASE exists
    <3>1. sawIdle' \in {sawIdle, sawIdle \cup {s}}
      BY <1>1, <2>2 DEF Enqueue
    <3>2. /\ sub' = [sub EXCEPT ![s] = "enqueued"]
          /\ inbox' = Append(inbox, s) /\ turnLock' = <<"submit", s>>
          /\ UNCHANGED <<exists, status, sandbox, shipped, batch, slot, agent,
                         tasks, halts, patch, ghost>>
      BY <1>1, <2>2 DEF Enqueue
    <3> QED BY <2>1, <3>1, <3>2
  <2>3. CASE ~exists
    BY <1>1, <2>3 DEF Enqueue
  <2> QED BY <2>2, <2>3
<1>2. ASSUME NEW s \in Inputs, SubmitToIdle(s) PROVE TypeOK'
  BY <1>2, ShipTypes DEF SubmitToIdle
<1>3. ASSUME NEW s \in Inputs, SubmitToBusy(s) PROVE TypeOK'
  BY <1>3 DEF SubmitToBusy
<1>4. ASSUME NEW s \in Inputs, Shipped(s) PROVE TypeOK'
  BY <1>4 DEF Shipped
<1>5. ASSUME NEW s \in Inputs, CancelSubmit(s) PROVE TypeOK'
  BY <1>5 DEF CancelSubmit
<1>6. ASSUME NEW t \in Inputs, BeginTurn(t) PROVE TypeOK'
  BY <1>6 DEF BeginTurn
<1>7. ASSUME NEW t \in Inputs, RecordEvent(t) PROVE TypeOK'
  BY <1>7 DEF RecordEvent
<1>8. ASSUME NEW t \in Inputs, RecordAutoApproved(t) PROVE TypeOK'
  BY <1>8 DEF RecordAutoApproved
<1>9. ASSUME NEW t \in Inputs, AutoApprove(t) PROVE TypeOK'
  BY <1>9 DEF AutoApprove
<1>10. ASSUME NEW t \in Inputs, NextEvent(t) PROVE TypeOK'
  BY <1>10 DEF NextEvent
<1>11. ASSUME NEW t \in Inputs, AgentEnds(t) PROVE TypeOK'
  BY <1>11 DEF AgentEnds
<1>12. ASSUME NEW t \in Inputs, FailsOutside(t) PROVE TypeOK'
  BY <1>12 DEF FailsOutside
<1>13. ASSUME NEW t \in Inputs, LateClose(t) PROVE TypeOK'
  BY <1>13 DEF LateClose
<1>14. ASSUME NEW t \in Inputs, HandOver(t) PROVE TypeOK'
  BY <1>14, ShipTypes DEF HandOver
<1>15. ASSUME NEW t \in Inputs, HandedOver(t) PROVE TypeOK'
  BY <1>15 DEF HandedOver
<1>16. ASSUME NEW t \in Inputs, GoIdle(t) PROVE TypeOK'
  <2>1. CASE slot \in {None, t}
    <3>1. retained' \in {retained, TRUE}
      BY <1>16, <2>1 DEF GoIdle, ReleaseSlot
    <3>2. /\ turn' = [turn EXCEPT ![t] = "idling"] /\ status' = "idle"
          /\ turnLock' = <<"turn", t>> /\ slot' = None
          /\ UNCHANGED <<exists, sandbox, inbox, shipped, batch, agent, calls,
                         completed, cancelled, captured, halts, patch, crashes>>
      BY <1>16, <2>1 DEF GoIdle, ReleaseSlot
    <3> QED BY <3>1, <3>2
  <2>2. CASE slot \notin {None, t}
    BY <1>16, <2>2 DEF GoIdle, ReleaseSlot
  <2> QED BY <2>1, <2>2
<1>17. ASSUME NEW t \in Inputs, WentIdle(t) PROVE TypeOK'
  BY <1>17 DEF WentIdle
<1>18. ASSUME NEW t \in Inputs, CancelTurn(t) PROVE TypeOK'
  BY <1>18 DEF CancelTurn
<1>19. ASSUME NEW t \in Inputs, NEW r \in Requests, RecordRequest(t, r) PROVE TypeOK'
  BY <1>19 DEF RecordRequest
<1>20. ASSUME NEW r \in Requests, Answer(r) PROVE TypeOK'
  BY <1>20 DEF Answer
<1>21. ASSUME NEW r \in Requests, Withdraw(r) PROVE TypeOK'
  BY <1>21 DEF Withdraw
<1>22. ASSUME NEW h \in Halts, HaltArrives(h) PROVE TypeOK'
  BY <1>22 DEF HaltArrives
<1>23. ASSUME NEW h \in Halts, TakeStopLock(h) PROVE TypeOK'
  BY <1>23 DEF TakeStopLock
<1>24. ASSUME NEW h \in Halts, MarkStopping(h) PROVE TypeOK'
  BY <1>24 DEF MarkStopping
<1>25. ASSUME NEW h \in Halts, AdapterClears(h) PROVE TypeOK'
  BY <1>25 DEF AdapterClears
<1>26. ASSUME NEW h \in Halts, AdapterStopped(h) PROVE TypeOK'
  <2>1. cancelled' \subseteq Inputs
    <3>1. CASE target[h] # None /\ Live(target[h])
      BY <1>26, <3>1 DEF AdapterStopped
    <3>2. CASE ~(target[h] # None /\ Live(target[h]))
      BY <1>26, <3>2 DEF AdapterStopped
    <3> QED BY <3>1, <3>2
  <2>2. halt' \in [Halts -> HaltPC]
    BY <1>26 DEF AdapterStopped
  <2> QED BY <1>26, <2>1, <2>2 DEF AdapterStopped
<1>27. ASSUME NEW h \in Halts, StopCommits(h) PROVE TypeOK'
  BY <1>27 DEF StopCommits
<1>28. ASSUME NEW h \in Halts, DeleteCommits(h) PROVE TypeOK'
  BY <1>28 DEF DeleteCommits
<1>29. ASSUME NEW h \in Halts, HaltFinishes(h) PROVE TypeOK'
  BY <1>29 DEF HaltFinishes
<1>30. ASSUME NEW h \in Halts, UnmarkStopping(h) PROVE TypeOK'
  BY <1>30 DEF UnmarkStopping
<1>31. ASSUME NEW p \in Patches, PatchChecks(p) PROVE TypeOK'
  BY <1>31 DEF PatchChecks
<1>32. ASSUME NEW p \in Patches, PatchWrites(p) PROVE TypeOK'
  BY <1>32 DEF PatchWrites
<1>33. ASSUME NEW p \in Patches, PatchReturns(p) PROVE TypeOK'
  BY <1>33 DEF PatchReturns
<1>34. ASSUME Crash PROVE TypeOK'
  <2>1. /\ sub' \in [Inputs -> SubPC] /\ turn' \in [Inputs -> TurnPC]
        /\ halt' \in [Halts -> HaltPC] /\ patch' \in [Patches -> PatchPC]
    BY <1>34 DEF Crash
  <2>2. /\ open' \in [Requests -> Inputs \cup {None}]
        /\ crashes' \in Nat
    BY <1>34 DEF Crash
  <2> QED BY <1>34, <2>1, <2>2 DEF Crash
<1>35. ASSUME UNCHANGED vars PROVE TypeOK'
  BY <1>35 DEF vars
<1> QED BY <1>1, <1>2, <1>3, <1>4, <1>5, <1>6, <1>7, <1>8, <1>9, <1>10, <1>11, <1>12, <1>13,
     <1>14, <1>15, <1>16, <1>17, <1>18, <1>19, <1>20, <1>21, <1>22, <1>23, <1>24, <1>25, <1>26,
     <1>27, <1>28, <1>29, <1>30, <1>31, <1>32, <1>33, <1>34, <1>35 DEF Next, Submission, TurnTask,
     AgentEvent, Halting, Patching


(* Every variable keeps its type; in particular the status stays one of the  *)
(* three the database accepts (update_status, ship_inputs).                  *)
THEOREM TypeCorrect == Spec => []TypeOK
BY TypeInit, TypeNext, PTL DEF Spec

-----------------------------------------------------------------------------
(* Who holds turn_lock, who owns the slot, and when a batch waits.           *)

LockInv ==
    /\ \A s \in Inputs : sub[s] \in {"enqueued", "shipping"} => turnLock = <<"submit", s>>
    /\ \A t \in Inputs : turn[t] \in {"handover", "idling"} => turnLock = <<"turn", t>>
    /\ \A p \in Patches : patch[p] \in {"named", "written"} => turnLock = <<"patch", p>>

SlotInv ==
    /\ \A t \in Inputs : Live(t) => IF turn[t] \in {"handover", "idling"}
                                    THEN slot = None ELSE slot = t
    /\ \A s \in Inputs : sub[s] = "shipping" => \A t \in Inputs : ~Live(t)

BatchInv ==
    batch # None <=> \/ \E s \in Inputs : sub[s] = "shipping"
                     \/ \E t \in Inputs : turn[t] = "handover"

TurnInv == LockInv /\ SlotInv /\ BatchInv

(* The names of two holders of turn_lock differ.                             *)
LEMMA HoldersDiffer ==
    \A x, y :
        /\ Free \notin {<<"submit", x>>, <<"turn", x>>, <<"patch", x>>}
        /\ <<"submit", x>> # <<"turn", y>> /\ <<"submit", x>> # <<"patch", y>>
        /\ <<"turn", x>> # <<"patch", y>>
        /\ <<"submit", x>> = <<"submit", y>> => x = y
        /\ <<"turn", x>> = <<"turn", y>> => x = y
        /\ <<"patch", x>> = <<"patch", y>> => x = y
BY DEF Free

(* While turn_lock is free no coroutine is between taking and releasing it.  *)
LEMMA NobodyHolds ==
    ASSUME LockInv, turnLock = Free
    PROVE  /\ \A s \in Inputs : sub[s] \notin {"enqueued", "shipping"}
           /\ \A t \in Inputs : turn[t] \notin {"handover", "idling"}
           /\ \A p \in Patches : patch[p] \notin {"named", "written"}
BY HoldersDiffer DEF LockInv

(* The lock, the slot and the batch agree at first.                          *)
LEMMA TurnInvInit == Init => TurnInv
BY ConstantsAssumption DEF Init, TurnInv, LockInv, SlotInv, BatchInv, Live

(* Every step keeps them in agreement.                                       *)
LEMMA TurnInvNext == TypeOK /\ TypeOK' /\ TurnInv /\ [Next]_vars => TurnInv'
<1> SUFFICES ASSUME TypeOK, TypeOK', TurnInv, [Next]_vars PROVE TurnInv'
  OBVIOUS
<1> USE ConstantsAssumption, HoldersDiffer DEF TurnInv, LockInv, SlotInv, BatchInv, Live,
     Busy, InAgent, Goto,
    StartBatch, rows, tasks, calls, halts, agent, ghost
<1>1. ASSUME NEW s \in Inputs, Enqueue(s) PROVE TurnInv'
  <2>1. CASE exists
    BY <1>1, <2>1, NobodyHolds DEF TypeOK, Enqueue
  <2>2. CASE ~exists
    BY <1>1, <2>2 DEF TypeOK, Enqueue
  <2> QED BY <2>1, <2>2
<1>2. ASSUME NEW s \in Inputs, SubmitToIdle(s) PROVE TurnInv'
  BY <1>2 DEF TypeOK, SubmitToIdle, ShipInputs
<1>3. ASSUME NEW s \in Inputs, SubmitToBusy(s) PROVE TurnInv'
  BY <1>3 DEF TypeOK, SubmitToBusy
<1>4. ASSUME NEW s \in Inputs, Shipped(s) PROVE TurnInv'
  BY <1>4 DEF TypeOK, Shipped
<1>5. ASSUME NEW s \in Inputs, CancelSubmit(s) PROVE TurnInv'
  BY <1>5 DEF TypeOK, CancelSubmit
<1>6. ASSUME NEW t \in Inputs, BeginTurn(t) PROVE TurnInv'
  BY <1>6 DEF TypeOK, BeginTurn
<1>7. ASSUME NEW t \in Inputs, RecordEvent(t) PROVE TurnInv'
  BY <1>7 DEF TypeOK, RecordEvent
<1>8. ASSUME NEW t \in Inputs, RecordAutoApproved(t) PROVE TurnInv'
  BY <1>8 DEF TypeOK, RecordAutoApproved
<1>9. ASSUME NEW t \in Inputs, AutoApprove(t) PROVE TurnInv'
  BY <1>9 DEF TypeOK, AutoApprove
<1>10. ASSUME NEW t \in Inputs, NextEvent(t) PROVE TurnInv'
  BY <1>10 DEF TypeOK, NextEvent
<1>11. ASSUME NEW t \in Inputs, AgentEnds(t) PROVE TurnInv'
  BY <1>11 DEF TypeOK, AgentEnds
<1>12. ASSUME NEW t \in Inputs, FailsOutside(t) PROVE TurnInv'
  BY <1>12 DEF TypeOK, FailsOutside
<1>13. ASSUME NEW t \in Inputs, LateClose(t) PROVE TurnInv'
  BY <1>13 DEF TypeOK, LateClose
<1>14. ASSUME NEW t \in Inputs, HandOver(t) PROVE TurnInv'
  <2>1. slot = t /\ \A u \in Inputs : Live(u) => u = t
    BY <1>14, NobodyHolds DEF TypeOK, HandOver
  <2>2. batch' \in Inputs
    BY <1>14, ShipTypes DEF TypeOK, HandOver
  <2> QED BY <1>14, <2>1, <2>2, NobodyHolds DEF TypeOK, HandOver
<1>15. ASSUME NEW t \in Inputs, HandedOver(t) PROVE TurnInv'
  <2>1. batch # None /\ \A u \in Inputs : Live(u) => u = t
    BY <1>15 DEF TypeOK, HandedOver
  <2>2. \A s \in Inputs : sub[s] \notin {"enqueued", "shipping"}
    BY <1>15 DEF HandedOver
  <2>3. \A p \in Patches : patch[p] \notin {"named", "written"}
    BY <1>15 DEF HandedOver
  <2> QED BY <1>15, <2>1, <2>2, <2>3, SMTT(60) DEF TypeOK, HandedOver
<1>16. ASSUME NEW t \in Inputs, GoIdle(t) PROVE TurnInv'
  <2>1. turn[t] = "closing" /\ turnLock = Free
    BY <1>16 DEF GoIdle, ReleaseSlot
  <2>2. slot = t /\ \A u \in Inputs : Live(u) => u = t
    BY <2>1, NobodyHolds DEF TypeOK
  <2> QED BY <1>16, <2>1, <2>2, NobodyHolds DEF TypeOK, GoIdle, ReleaseSlot
<1>17. ASSUME NEW t \in Inputs, WentIdle(t) PROVE TurnInv'
  BY <1>17 DEF TypeOK, WentIdle
<1>18. ASSUME NEW t \in Inputs, CancelTurn(t) PROVE TurnInv'
  BY <1>18 DEF TypeOK, CancelTurn
<1>19. ASSUME NEW t \in Inputs, NEW r \in Requests, RecordRequest(t, r) PROVE TurnInv'
  BY <1>19 DEF TypeOK, RecordRequest
<1>20. ASSUME NEW r \in Requests, Answer(r) PROVE TurnInv'
  BY <1>20 DEF TypeOK, Answer
<1>21. ASSUME NEW r \in Requests, Withdraw(r) PROVE TurnInv'
  BY <1>21 DEF TypeOK, Withdraw
<1>22. ASSUME NEW h \in Halts, HaltArrives(h) PROVE TurnInv'
  BY <1>22 DEF TypeOK, HaltArrives
<1>23. ASSUME NEW h \in Halts, TakeStopLock(h) PROVE TurnInv'
  BY <1>23 DEF TypeOK, TakeStopLock
<1>24. ASSUME NEW h \in Halts, MarkStopping(h) PROVE TurnInv'
  BY <1>24 DEF TypeOK, MarkStopping
<1>25. ASSUME NEW h \in Halts, AdapterClears(h) PROVE TurnInv'
  BY <1>25 DEF TypeOK, AdapterClears
<1>26. ASSUME NEW h \in Halts, AdapterStopped(h) PROVE TurnInv'
  BY <1>26 DEF TypeOK, AdapterStopped
<1>27. ASSUME NEW h \in Halts, StopCommits(h) PROVE TurnInv'
  BY <1>27 DEF TypeOK, StopCommits
<1>28. ASSUME NEW h \in Halts, DeleteCommits(h) PROVE TurnInv'
  BY <1>28 DEF TypeOK, DeleteCommits
<1>29. ASSUME NEW h \in Halts, HaltFinishes(h) PROVE TurnInv'
  BY <1>29 DEF TypeOK, HaltFinishes
<1>30. ASSUME NEW h \in Halts, UnmarkStopping(h) PROVE TurnInv'
  BY <1>30 DEF TypeOK, UnmarkStopping
<1>31. ASSUME NEW p \in Patches, PatchChecks(p) PROVE TurnInv'
  <2>1. CASE exists /\ status = "idle" /\ ~Busy
    BY <1>31, <2>1, NobodyHolds DEF TypeOK, PatchChecks
  <2>2. CASE ~(exists /\ status = "idle" /\ ~Busy)
    BY <1>31, <2>2 DEF TypeOK, PatchChecks
  <2> QED BY <2>1, <2>2
<1>32. ASSUME NEW p \in Patches, PatchWrites(p) PROVE TurnInv'
  BY <1>32 DEF TypeOK, PatchWrites
<1>33. ASSUME NEW p \in Patches, PatchReturns(p) PROVE TurnInv'
  BY <1>33 DEF TypeOK, PatchReturns
<1>34. ASSUME Crash PROVE TurnInv'
  BY <1>34 DEF TypeOK, Crash
<1>35. ASSUME UNCHANGED vars PROVE TurnInv'
  BY <1>35 DEF TypeOK, vars
<1> QED BY <1>1, <1>2, <1>3, <1>4, <1>5, <1>6, <1>7, <1>8, <1>9, <1>10, <1>11, <1>12, <1>13,
     <1>14, <1>15, <1>16, <1>17, <1>18, <1>19, <1>20, <1>21, <1>22, <1>23, <1>24, <1>25, <1>26,
     <1>27, <1>28, <1>29, <1>30, <1>31, <1>32, <1>33, <1>34, <1>35 DEF Next, Submission, TurnTask,
     AgentEvent, Halting, Patching


(* turn_lock has one holder, the slot names the live task except while it    *)
(* hands over, and a batch waits exactly while its shipper holds the lock    *)
(* (begin_turn, ship_queued_turn, run_turn, update_session).                 *)
THEOREM TurnsExcluded == Spec => [](TypeOK /\ TurnInv)
<1>1. TypeOK /\ TurnInv /\ [Next]_vars => TypeOK' /\ TurnInv'
  BY TypeNext, TurnInvNext
<1> QED BY <1>1, TypeInit, TurnInvInit, PTL DEF Spec

(* At most one task runs turns of the session, and no second one is about to *)
(* be created: the slot, turn_lock and the claimed batch exclude each other  *)
(* (run_turn, ship_queued_turn).                                             *)
THEOREM OneTurnAtATime == Spec => []OneTurn
<1>1. TypeOK /\ TurnInv => OneTurn
  <2> SUFFICES ASSUME TypeOK, TurnInv PROVE OneTurn
    OBVIOUS
  <2>1. ASSUME NEW t \in Inputs, NEW u \in Inputs, Live(t), Live(u) PROVE t = u
    BY <2>1, ConstantsAssumption, HoldersDiffer DEF TurnInv, LockInv, SlotInv
  <2>2. ASSUME batch # None, NEW t \in Inputs, Live(t) PROVE turn[t] = "handover"
    BY <2>1, <2>2 DEF TurnInv, SlotInv, BatchInv, Live
  <2> QED BY <2>1, <2>2 DEF OneTurn
<1> QED BY <1>1, TurnsExcluded, PTL

-----------------------------------------------------------------------------
(* While PATCH holds turn_lock no task is live, and no batch can start one.  *)

SandboxInv ==
    /\ \A p \in Patches : patch[p] \in {"named", "written"} => \A t \in Inputs : ~Live(t)
    /\ SandboxFixed

(* PATCH and run_turn's first step exclude each other.                       *)
LEMMA SandboxInvNext ==
    TypeOK /\ TurnInv /\ TurnInv' /\ SandboxInv /\ [Next]_vars => SandboxInv'
<1> SUFFICES ASSUME TypeOK, TurnInv, TurnInv', SandboxInv, [Next]_vars PROVE SandboxInv'
  OBVIOUS
<1> USE ConstantsAssumption, HoldersDiffer DEF TypeOK, TurnInv, LockInv, SlotInv,
    SandboxInv, SandboxFixed, Live, Busy, InAgent, Goto, HaltGoto, StartBatch,
    rows, tasks, calls, halts, agent, ghost
<1>1. ASSUME NEW s \in Inputs, Enqueue(s) PROVE SandboxInv'
  BY <1>1 DEF Enqueue
<1>2. ASSUME NEW s \in Inputs, SubmitToIdle(s) PROVE SandboxInv'
  BY <1>2 DEF SubmitToIdle, ShipInputs
<1>3. ASSUME NEW s \in Inputs, SubmitToBusy(s) PROVE SandboxInv'
  BY <1>3 DEF SubmitToBusy
<1>4. ASSUME NEW s \in Inputs, Shipped(s) PROVE SandboxInv'
  BY <1>4 DEF Shipped
<1>5. ASSUME NEW s \in Inputs, CancelSubmit(s) PROVE SandboxInv'
  BY <1>5 DEF CancelSubmit
<1>6. ASSUME NEW t \in Inputs, BeginTurn(t) PROVE SandboxInv'
  BY <1>6 DEF BeginTurn
<1>7. ASSUME NEW t \in Inputs, RecordEvent(t) PROVE SandboxInv'
  BY <1>7 DEF RecordEvent
<1>8. ASSUME NEW t \in Inputs, RecordAutoApproved(t) PROVE SandboxInv'
  BY <1>8 DEF RecordAutoApproved
<1>9. ASSUME NEW t \in Inputs, AutoApprove(t) PROVE SandboxInv'
  BY <1>9 DEF AutoApprove
<1>10. ASSUME NEW t \in Inputs, NextEvent(t) PROVE SandboxInv'
  BY <1>10 DEF NextEvent
<1>11. ASSUME NEW t \in Inputs, AgentEnds(t) PROVE SandboxInv'
  BY <1>11 DEF AgentEnds
<1>12. ASSUME NEW t \in Inputs, FailsOutside(t) PROVE SandboxInv'
  BY <1>12 DEF FailsOutside
<1>13. ASSUME NEW t \in Inputs, LateClose(t) PROVE SandboxInv'
  BY <1>13 DEF LateClose
<1>14. ASSUME NEW t \in Inputs, HandOver(t) PROVE SandboxInv'
  BY <1>14 DEF HandOver, ShipInputs
<1>15. ASSUME NEW t \in Inputs, HandedOver(t) PROVE SandboxInv'
  BY <1>15, SMTT(60) DEF HandedOver
<1>16. ASSUME NEW t \in Inputs, GoIdle(t) PROVE SandboxInv'
  <2>1. /\ turn[t] = "closing" /\ UNCHANGED <<captured, sandbox, patch>>
        /\ \E pc \in {"idling", "done"} : turn' = [turn EXCEPT ![t] = pc]
    BY <1>16 DEF GoIdle, ReleaseSlot
  <2>2. /\ \A u \in Inputs : InAgent(u)' => InAgent(u)
        /\ \A p \in Patches : patch'[p] \notin {"named", "written"}
    BY <2>1
  <2> QED BY <2>1, <2>2
<1>17. ASSUME NEW t \in Inputs, WentIdle(t) PROVE SandboxInv'
  BY <1>17 DEF WentIdle
<1>18. ASSUME NEW t \in Inputs, CancelTurn(t) PROVE SandboxInv'
  BY <1>18 DEF CancelTurn
<1>19. ASSUME NEW t \in Inputs, NEW r \in Requests, RecordRequest(t, r) PROVE SandboxInv'
  BY <1>19 DEF RecordRequest
<1>20. ASSUME NEW r \in Requests, Answer(r) PROVE SandboxInv'
  BY <1>20 DEF Answer
<1>21. ASSUME NEW r \in Requests, Withdraw(r) PROVE SandboxInv'
  BY <1>21 DEF Withdraw
<1>22. ASSUME NEW h \in Halts, HaltArrives(h) PROVE SandboxInv'
  BY <1>22 DEF HaltArrives
<1>23. ASSUME NEW h \in Halts, TakeStopLock(h) PROVE SandboxInv'
  BY <1>23 DEF TakeStopLock
<1>24. ASSUME NEW h \in Halts, MarkStopping(h) PROVE SandboxInv'
  BY <1>24 DEF MarkStopping
<1>25. ASSUME NEW h \in Halts, AdapterClears(h) PROVE SandboxInv'
  BY <1>25 DEF AdapterClears
<1>26. ASSUME NEW h \in Halts, AdapterStopped(h) PROVE SandboxInv'
  BY <1>26 DEF AdapterStopped
<1>27. ASSUME NEW h \in Halts, StopCommits(h) PROVE SandboxInv'
  BY <1>27 DEF StopCommits
<1>28. ASSUME NEW h \in Halts, DeleteCommits(h) PROVE SandboxInv'
  BY <1>28 DEF DeleteCommits
<1>29. ASSUME NEW h \in Halts, HaltFinishes(h) PROVE SandboxInv'
  BY <1>29 DEF HaltFinishes
<1>30. ASSUME NEW h \in Halts, UnmarkStopping(h) PROVE SandboxInv'
  BY <1>30 DEF UnmarkStopping
<1>31. ASSUME NEW p \in Patches, PatchChecks(p) PROVE SandboxInv'
  BY <1>31 DEF PatchChecks
<1>32. ASSUME NEW p \in Patches, PatchWrites(p) PROVE SandboxInv'
  BY <1>32 DEF PatchWrites
<1>33. ASSUME NEW p \in Patches, PatchReturns(p) PROVE SandboxInv'
  BY <1>33 DEF PatchReturns
<1>34. ASSUME Crash PROVE SandboxInv'
  BY <1>34 DEF Crash
<1>35. ASSUME UNCHANGED vars PROVE SandboxInv'
  BY <1>35 DEF vars
<1> QED BY <1>1, <1>2, <1>3, <1>4, <1>5, <1>6, <1>7, <1>8, <1>9, <1>10, <1>11, <1>12, <1>13,
     <1>14, <1>15, <1>16, <1>17, <1>18, <1>19, <1>20, <1>21, <1>22, <1>23, <1>24, <1>25, <1>26,
     <1>27, <1>28, <1>29, <1>30, <1>31, <1>32, <1>33, <1>34, <1>35 DEF Next, Submission, TurnTask,
     AgentEvent, Halting, Patching

(* A turn runs under the sandbox setting the session shows: PATCH excludes    *)
(* the unlocked read of the row in run_turn's first step by looking for a     *)
(* live task under turn_lock (update_session, run_turn).                      *)
THEOREM SandboxIsFixed == Spec => []SandboxFixed
<1>1. Init => SandboxInv
  BY DEF Init, SandboxInv, SandboxFixed, Live, InAgent
<1>2. SandboxInv => SandboxFixed
  BY DEF SandboxInv
<1> QED BY <1>1, <1>2, SandboxInvNext, TurnsExcluded, PTL DEF Spec

-----------------------------------------------------------------------------
(* From the moment it marks the session, Stop or Delete is alone, nothing is *)
(* shipped, and the only task there can be is the one it has noted.          *)

Marked == {"clear", "kill", "join", "abort", "body", "release"}

HaltInv ==
    /\ \A h \in Halts : halt[h] \in Marked \cup {"begin"} => stopLock = h
    /\ \A h \in Halts : halt[h] \in Marked =>
           stopping /\ \A t \in Inputs : Live(t) => target[h] = t
    /\ stopping => batch = None
    /\ DeletedIsQuiet

(* Every step keeps Stop and Delete exclusive and the noted task the only one. *)
LEMMA HaltInvNext ==
    TypeOK /\ TurnInv /\ TurnInv' /\ HaltInv /\ [Next]_vars => HaltInv'
<1> SUFFICES ASSUME TypeOK, TurnInv, TurnInv', HaltInv, [Next]_vars PROVE HaltInv'
  OBVIOUS
<1> USE ConstantsAssumption, HoldersDiffer DEF TypeOK, TurnInv, LockInv, SlotInv,
    BatchInv, HaltInv, Marked, DeletedIsQuiet, Live, Busy, InAgent, Goto, HaltGoto,
    Joined, StartBatch, rows, tasks, calls, halts, agent, ghost
<1>1. ASSUME NEW s \in Inputs, Enqueue(s) PROVE HaltInv'
  BY <1>1 DEF Enqueue
<1>2. ASSUME NEW s \in Inputs, SubmitToIdle(s) PROVE HaltInv'
  BY <1>2 DEF SubmitToIdle, ShipInputs
<1>3. ASSUME NEW s \in Inputs, SubmitToBusy(s) PROVE HaltInv'
  BY <1>3 DEF SubmitToBusy
<1>4. ASSUME NEW s \in Inputs, Shipped(s) PROVE HaltInv'
  BY <1>4 DEF Shipped
<1>5. ASSUME NEW s \in Inputs, CancelSubmit(s) PROVE HaltInv'
  BY <1>5 DEF CancelSubmit
<1>6. ASSUME NEW t \in Inputs, BeginTurn(t) PROVE HaltInv'
  BY <1>6 DEF BeginTurn
<1>7. ASSUME NEW t \in Inputs, RecordEvent(t) PROVE HaltInv'
  BY <1>7 DEF RecordEvent
<1>8. ASSUME NEW t \in Inputs, RecordAutoApproved(t) PROVE HaltInv'
  BY <1>8 DEF RecordAutoApproved
<1>9. ASSUME NEW t \in Inputs, AutoApprove(t) PROVE HaltInv'
  BY <1>9 DEF AutoApprove
<1>10. ASSUME NEW t \in Inputs, NextEvent(t) PROVE HaltInv'
  BY <1>10 DEF NextEvent
<1>11. ASSUME NEW t \in Inputs, AgentEnds(t) PROVE HaltInv'
  BY <1>11 DEF AgentEnds
<1>12. ASSUME NEW t \in Inputs, FailsOutside(t) PROVE HaltInv'
  BY <1>12 DEF FailsOutside
<1>13. ASSUME NEW t \in Inputs, LateClose(t) PROVE HaltInv'
  BY <1>13 DEF LateClose
<1>14. ASSUME NEW t \in Inputs, HandOver(t) PROVE HaltInv'
  BY <1>14 DEF HandOver, ShipInputs
<1>15. ASSUME NEW t \in Inputs, HandedOver(t) PROVE HaltInv'
  BY <1>15 DEF HandedOver
<1>16. ASSUME NEW t \in Inputs, GoIdle(t) PROVE HaltInv'
  <2>1. /\ UNCHANGED <<exists, inbox, batch, halt, target, stopping, stopLock>>
        /\ turn' \in {[turn EXCEPT ![t] = "idling"], [turn EXCEPT ![t] = "done"]}
        /\ turn[t] = "closing"
    BY <1>16 DEF GoIdle, ReleaseSlot
  <2> QED BY <2>1
<1>17. ASSUME NEW t \in Inputs, WentIdle(t) PROVE HaltInv'
  BY <1>17 DEF WentIdle
<1>18. ASSUME NEW t \in Inputs, CancelTurn(t) PROVE HaltInv'
  BY <1>18 DEF CancelTurn
<1>19. ASSUME NEW t \in Inputs, NEW r \in Requests, RecordRequest(t, r) PROVE HaltInv'
  BY <1>19 DEF RecordRequest
<1>20. ASSUME NEW r \in Requests, Answer(r) PROVE HaltInv'
  BY <1>20 DEF Answer
<1>21. ASSUME NEW r \in Requests, Withdraw(r) PROVE HaltInv'
  BY <1>21 DEF Withdraw
<1>22. ASSUME NEW h \in Halts, HaltArrives(h) PROVE HaltInv'
  BY <1>22 DEF HaltArrives
<1>23. ASSUME NEW h \in Halts, TakeStopLock(h) PROVE HaltInv'
  BY <1>23 DEF TakeStopLock
<1>24. ASSUME NEW h \in Halts, MarkStopping(h) PROVE HaltInv'
  BY <1>24 DEF MarkStopping
<1>25. ASSUME NEW h \in Halts, AdapterClears(h) PROVE HaltInv'
  BY <1>25 DEF AdapterClears
<1>26. ASSUME NEW h \in Halts, AdapterStopped(h) PROVE HaltInv'
  BY <1>26 DEF AdapterStopped
<1>27. ASSUME NEW h \in Halts, StopCommits(h) PROVE HaltInv'
  BY <1>27 DEF StopCommits
<1>28. ASSUME NEW h \in Halts, DeleteCommits(h) PROVE HaltInv'
  BY <1>28 DEF DeleteCommits
<1>29. ASSUME NEW h \in Halts, HaltFinishes(h) PROVE HaltInv'
  BY <1>29 DEF HaltFinishes
<1>30. ASSUME NEW h \in Halts, UnmarkStopping(h) PROVE HaltInv'
  BY <1>30 DEF UnmarkStopping
<1>31. ASSUME NEW p \in Patches, PatchChecks(p) PROVE HaltInv'
  BY <1>31 DEF PatchChecks
<1>32. ASSUME NEW p \in Patches, PatchWrites(p) PROVE HaltInv'
  BY <1>32 DEF PatchWrites
<1>33. ASSUME NEW p \in Patches, PatchReturns(p) PROVE HaltInv'
  BY <1>33 DEF PatchReturns
<1>34. ASSUME Crash PROVE HaltInv'
  BY <1>34 DEF Crash
<1>35. ASSUME UNCHANGED vars PROVE HaltInv'
  BY <1>35 DEF vars
<1> QED BY <1>1, <1>2, <1>3, <1>4, <1>5, <1>6, <1>7, <1>8, <1>9, <1>10, <1>11, <1>12, <1>13,
     <1>14, <1>15, <1>16, <1>17, <1>18, <1>19, <1>20, <1>21, <1>22, <1>23, <1>24, <1>25, <1>26,
     <1>27, <1>28, <1>29, <1>30, <1>31, <1>32, <1>33, <1>34, <1>35 DEF Next, Submission, TurnTask,
     AgentEvent, Halting, Patching

(* The invariants of turns and of Stop and Delete, together (halted_session). *)
THEOREM HaltsExcluded == Spec => [](TypeOK /\ TurnInv /\ HaltInv)
<1>1. Init => HaltInv
  BY ConstantsAssumption DEF Init, HaltInv, Marked, DeletedIsQuiet, Live
<1> QED BY <1>1, HaltInvNext, TurnsExcluded, PTL DEF Spec

(* A deleted session has no task, no batch on its way and no queue, and none *)
(* comes later (teardown_session under halted_session).                      *)
THEOREM DeletedStaysQuiet == Spec => []DeletedIsQuiet
<1>1. HaltInv => DeletedIsQuiet
  BY DEF HaltInv
<1> QED BY <1>1, HaltsExcluded, PTL



(* From the moment Stop or Delete marks the session until it is released,    *)
(* nothing is shipped and no turn starts (halted_session).                   *)
LEMMA HaltedStep ==
    TypeOK /\ TurnInv /\ HaltInv /\ [Next]_vars /\ stopping /\ stopping'
        => /\ batch' \in {batch, None}
           /\ \A t \in Inputs : Live(t)' => Live(t)
<1> DEFINE StartsNothing == /\ batch' \in {batch, None}
                            /\ \A t \in Inputs : Live(t)' => Live(t)
<1> SUFFICES ASSUME TypeOK, TurnInv, HaltInv, [Next]_vars, stopping, stopping'
             PROVE  StartsNothing
  OBVIOUS
<1> USE ConstantsAssumption DEF TypeOK, TurnInv, BatchInv, HaltInv, Live, InAgent,
    Goto, HaltGoto, StartBatch, rows, tasks, calls, halts, agent, ghost
<1>1. ASSUME NEW s \in Inputs, Enqueue(s) PROVE StartsNothing
  BY <1>1 DEF Enqueue
<1>2. ASSUME NEW s \in Inputs, SubmitToIdle(s) PROVE StartsNothing
  BY <1>2 DEF SubmitToIdle, ShipInputs
<1>3. ASSUME NEW s \in Inputs, SubmitToBusy(s) PROVE StartsNothing
  BY <1>3 DEF SubmitToBusy
<1>4. ASSUME NEW s \in Inputs, Shipped(s) PROVE StartsNothing
  BY <1>4 DEF Shipped
<1>5. ASSUME NEW s \in Inputs, CancelSubmit(s) PROVE StartsNothing
  BY <1>5 DEF CancelSubmit
<1>6. ASSUME NEW t \in Inputs, BeginTurn(t) PROVE StartsNothing
  BY <1>6 DEF BeginTurn
<1>7. ASSUME NEW t \in Inputs, RecordEvent(t) PROVE StartsNothing
  BY <1>7 DEF RecordEvent
<1>8. ASSUME NEW t \in Inputs, RecordAutoApproved(t) PROVE StartsNothing
  BY <1>8 DEF RecordAutoApproved
<1>9. ASSUME NEW t \in Inputs, AutoApprove(t) PROVE StartsNothing
  BY <1>9 DEF AutoApprove
<1>10. ASSUME NEW t \in Inputs, NextEvent(t) PROVE StartsNothing
  BY <1>10 DEF NextEvent
<1>11. ASSUME NEW t \in Inputs, AgentEnds(t) PROVE StartsNothing
  BY <1>11 DEF AgentEnds
<1>12. ASSUME NEW t \in Inputs, FailsOutside(t) PROVE StartsNothing
  BY <1>12 DEF FailsOutside
<1>13. ASSUME NEW t \in Inputs, LateClose(t) PROVE StartsNothing
  BY <1>13 DEF LateClose
<1>14. ASSUME NEW t \in Inputs, HandOver(t) PROVE StartsNothing
  BY <1>14 DEF HandOver, ShipInputs
<1>15. ASSUME NEW t \in Inputs, HandedOver(t) PROVE StartsNothing
  BY <1>15 DEF HandedOver
<1>16. ASSUME NEW t \in Inputs, GoIdle(t) PROVE StartsNothing
  BY <1>16 DEF GoIdle, ReleaseSlot
<1>17. ASSUME NEW t \in Inputs, WentIdle(t) PROVE StartsNothing
  BY <1>17 DEF WentIdle
<1>18. ASSUME NEW t \in Inputs, CancelTurn(t) PROVE StartsNothing
  BY <1>18 DEF CancelTurn
<1>19. ASSUME NEW t \in Inputs, NEW r \in Requests, RecordRequest(t, r) PROVE StartsNothing
  BY <1>19 DEF RecordRequest
<1>20. ASSUME NEW r \in Requests, Answer(r) PROVE StartsNothing
  BY <1>20 DEF Answer
<1>21. ASSUME NEW r \in Requests, Withdraw(r) PROVE StartsNothing
  BY <1>21 DEF Withdraw
<1>22. ASSUME NEW h \in Halts, HaltArrives(h) PROVE StartsNothing
  BY <1>22 DEF HaltArrives
<1>23. ASSUME NEW h \in Halts, TakeStopLock(h) PROVE StartsNothing
  BY <1>23 DEF TakeStopLock
<1>24. ASSUME NEW h \in Halts, MarkStopping(h) PROVE StartsNothing
  BY <1>24 DEF MarkStopping
<1>25. ASSUME NEW h \in Halts, AdapterClears(h) PROVE StartsNothing
  BY <1>25 DEF AdapterClears
<1>26. ASSUME NEW h \in Halts, AdapterStopped(h) PROVE StartsNothing
  BY <1>26 DEF AdapterStopped
<1>27. ASSUME NEW h \in Halts, StopCommits(h) PROVE StartsNothing
  BY <1>27 DEF StopCommits
<1>28. ASSUME NEW h \in Halts, DeleteCommits(h) PROVE StartsNothing
  BY <1>28 DEF DeleteCommits
<1>29. ASSUME NEW h \in Halts, HaltFinishes(h) PROVE StartsNothing
  BY <1>29 DEF HaltFinishes
<1>30. ASSUME NEW h \in Halts, UnmarkStopping(h) PROVE StartsNothing
  BY <1>30 DEF UnmarkStopping
<1>31. ASSUME NEW p \in Patches, PatchChecks(p) PROVE StartsNothing
  BY <1>31 DEF PatchChecks
<1>32. ASSUME NEW p \in Patches, PatchWrites(p) PROVE StartsNothing
  BY <1>32 DEF PatchWrites
<1>33. ASSUME NEW p \in Patches, PatchReturns(p) PROVE StartsNothing
  BY <1>33 DEF PatchReturns
<1>34. ASSUME Crash PROVE StartsNothing
  BY <1>34 DEF Crash
<1>35. ASSUME UNCHANGED vars PROVE StartsNothing
  BY <1>35 DEF vars
<1> QED BY <1>1, <1>2, <1>3, <1>4, <1>5, <1>6, <1>7, <1>8, <1>9, <1>10, <1>11, <1>12, <1>13,
     <1>14, <1>15, <1>16, <1>17, <1>18, <1>19, <1>20, <1>21, <1>22, <1>23, <1>24, <1>25, <1>26,
     <1>27, <1>28, <1>29, <1>30, <1>31, <1>32, <1>33, <1>34, <1>35 DEF Next, Submission, TurnTask,
     AgentEvent, Halting, Patching

(* No batch is shipped and no turn starts while Stop or Delete has the       *)
(* session marked (halted_session, ship_queued_turn's two callers).          *)
THEOREM HaltedStaysQuiet == Spec => HaltedStartsNothing
BY HaltedStep, HaltsExcluded, PTL DEF Spec, HaltedStartsNothing

-----------------------------------------------------------------------------
(* Acceptance and the end of a turn.  A message is accepted in three steps   *)
(* that only turn_lock makes one, and Stop, which changes the status without *)
(* that lock, marks the inbox retained.                                      *)

WakeupInv ==
    /\ (\A s \in Inputs : sub[s] # "enqueued") =>
           (exists /\ status = "idle" /\ inbox # <<>> /\ ~stopping => retained)
    /\ \A s \in Inputs : sub[s] = "enqueued" => s \in sawIdle \/ status # "idle" \/ retained
    /\ status = "idle" => batch = None /\ \A t \in Inputs : Live(t) => turn[t] = "idling"
    /\ \A h \in Halts : halt[h] \in {"body", "release"} /\ exists => retained
    /\ \A h \in Halts : halt[h] # "abort"

(* Every step keeps the wakeup of an accepted message.                       *)
LEMMA WakeupInvNext ==
    ASSUME Cancellable = {}, StopMayFail = FALSE
    PROVE  TypeOK /\ TypeOK' /\ TurnInv /\ TurnInv' /\ HaltInv /\ HaltInv' /\ WakeupInv /\ [Next]_vars
               => WakeupInv'
<1> SUFFICES ASSUME TypeOK, TypeOK', TurnInv, TurnInv', HaltInv, HaltInv', WakeupInv, [Next]_vars
             PROVE  WakeupInv'
  OBVIOUS
<1> USE ConstantsAssumption, HoldersDiffer DEF TypeOK, TurnInv, LockInv, SlotInv,
    BatchInv, HaltInv, Marked, WakeupInv, Live, Busy, InAgent, Goto, HaltGoto,
    Joined, StartBatch, rows, tasks, calls, halts, agent, ghost
<1>1. ASSUME NEW s \in Inputs, Enqueue(s) PROVE WakeupInv'
  BY <1>1 DEF Enqueue
<1>2. ASSUME NEW s \in Inputs, SubmitToIdle(s) PROVE WakeupInv'
  BY <1>2 DEF SubmitToIdle, ShipInputs
<1>3. ASSUME NEW s \in Inputs, SubmitToBusy(s) PROVE WakeupInv'
  BY <1>3 DEF SubmitToBusy
<1>4. ASSUME NEW s \in Inputs, Shipped(s) PROVE WakeupInv'
  BY <1>4 DEF Shipped
<1>5. ASSUME NEW s \in Inputs, CancelSubmit(s) PROVE WakeupInv'
  BY <1>5 DEF CancelSubmit
<1>6. ASSUME NEW t \in Inputs, BeginTurn(t) PROVE WakeupInv'
  BY <1>6 DEF BeginTurn
<1>7. ASSUME NEW t \in Inputs, RecordEvent(t) PROVE WakeupInv'
  BY <1>7 DEF RecordEvent
<1>8. ASSUME NEW t \in Inputs, RecordAutoApproved(t) PROVE WakeupInv'
  BY <1>8 DEF RecordAutoApproved
<1>9. ASSUME NEW t \in Inputs, AutoApprove(t) PROVE WakeupInv'
  BY <1>9 DEF AutoApprove
<1>10. ASSUME NEW t \in Inputs, NextEvent(t) PROVE WakeupInv'
  BY <1>10 DEF NextEvent
<1>11. ASSUME NEW t \in Inputs, AgentEnds(t) PROVE WakeupInv'
  BY <1>11 DEF AgentEnds
<1>12. ASSUME NEW t \in Inputs, FailsOutside(t) PROVE WakeupInv'
  BY <1>12 DEF FailsOutside
<1>13. ASSUME NEW t \in Inputs, LateClose(t) PROVE WakeupInv'
  BY <1>13 DEF LateClose
<1>14. ASSUME NEW t \in Inputs, HandOver(t) PROVE WakeupInv'
  BY <1>14 DEF HandOver, ShipInputs
<1>15. ASSUME NEW t \in Inputs, HandedOver(t) PROVE WakeupInv'
  BY <1>15 DEF HandedOver
<1>16. ASSUME NEW t \in Inputs, GoIdle(t) PROVE WakeupInv'
  <2>1. turn[t] = "closing" /\ slot = t
    BY <1>16 DEF GoIdle, ReleaseSlot
  <2>2. /\ turnLock = Free /\ turnLock' = <<"turn", t>> /\ status' = "idle"
        /\ turn' = [turn EXCEPT ![t] = "idling"]
        /\ retained' = IF t \in completed /\ ~stopping THEN retained ELSE TRUE
        /\ t \notin completed \/ stopping \/ inbox = <<>>
        /\ t \notin cancelled
        /\ UNCHANGED <<exists, inbox, batch, sub, sawIdle, halt, target,
                       stopping, cancelled>>
    BY <1>16, <2>1 DEF GoIdle, ReleaseSlot
  <2>3. batch = None /\ \A u \in Inputs : Live(u) => u = t
    BY <2>1, <2>2, NobodyHolds
  <2> QED BY <2>1, <2>2, <2>3
<1>17. ASSUME NEW t \in Inputs, WentIdle(t) PROVE WakeupInv'
  BY <1>17 DEF WentIdle
<1>18. ASSUME NEW t \in Inputs, CancelTurn(t) PROVE WakeupInv'
  BY <1>18 DEF CancelTurn
<1>19. ASSUME NEW t \in Inputs, NEW r \in Requests, RecordRequest(t, r) PROVE WakeupInv'
  BY <1>19 DEF RecordRequest
<1>20. ASSUME NEW r \in Requests, Answer(r) PROVE WakeupInv'
  BY <1>20 DEF Answer
<1>21. ASSUME NEW r \in Requests, Withdraw(r) PROVE WakeupInv'
  BY <1>21 DEF Withdraw
<1>22. ASSUME NEW h \in Halts, HaltArrives(h) PROVE WakeupInv'
  BY <1>22 DEF HaltArrives
<1>23. ASSUME NEW h \in Halts, TakeStopLock(h) PROVE WakeupInv'
  BY <1>23 DEF TakeStopLock
<1>24. ASSUME NEW h \in Halts, MarkStopping(h) PROVE WakeupInv'
  BY <1>24 DEF MarkStopping
<1>25. ASSUME NEW h \in Halts, AdapterClears(h) PROVE WakeupInv'
  BY <1>25 DEF AdapterClears
<1>26. ASSUME NEW h \in Halts, AdapterStopped(h) PROVE WakeupInv'
  BY <1>26 DEF AdapterStopped
<1>27. ASSUME NEW h \in Halts, StopCommits(h) PROVE WakeupInv'
  BY <1>27 DEF StopCommits
<1>28. ASSUME NEW h \in Halts, DeleteCommits(h) PROVE WakeupInv'
  BY <1>28 DEF DeleteCommits
<1>29. ASSUME NEW h \in Halts, HaltFinishes(h) PROVE WakeupInv'
  BY <1>29 DEF HaltFinishes
<1>30. ASSUME NEW h \in Halts, UnmarkStopping(h) PROVE WakeupInv'
  BY <1>30 DEF UnmarkStopping
<1>31. ASSUME NEW p \in Patches, PatchChecks(p) PROVE WakeupInv'
  BY <1>31 DEF PatchChecks
<1>32. ASSUME NEW p \in Patches, PatchWrites(p) PROVE WakeupInv'
  BY <1>32 DEF PatchWrites
<1>33. ASSUME NEW p \in Patches, PatchReturns(p) PROVE WakeupInv'
  BY <1>33 DEF PatchReturns
<1>34. ASSUME Crash PROVE WakeupInv'
  BY <1>34 DEF Crash
<1>35. ASSUME UNCHANGED vars PROVE WakeupInv'
  BY <1>35 DEF vars
<1> QED BY <1>1, <1>2, <1>3, <1>4, <1>5, <1>6, <1>7, <1>8, <1>9, <1>10, <1>11, <1>12, <1>13,
     <1>14, <1>15, <1>16, <1>17, <1>18, <1>19, <1>20, <1>21, <1>22, <1>23, <1>24, <1>25, <1>26,
     <1>27, <1>28, <1>29, <1>30, <1>31, <1>32, <1>33, <1>34, <1>35 DEF Next, Submission, TurnTask,
     AgentEvent, Halting, Patching

(* An accepted message waits in an idle session only if Stop, a failed turn  *)
(* or a restart left it there, provided no task that awaits begin_turn is    *)
(* cancelled and adapter.stop does not raise (begin_turn, run_turn).         *)
THEOREM NoWakeupIsLost ==
    ASSUME Cancellable = {}, StopMayFail = FALSE
    PROVE  Spec => []NoLostWakeup
<1>1. Init => WakeupInv
  BY DEF Init, WakeupInv, Live
<1>2. TurnInv /\ WakeupInv => NoLostWakeup
  BY NobodyHolds DEF TurnInv, WakeupInv, NoLostWakeup
<1> QED BY <1>1, <1>2, WakeupInvNext, HaltsExcluded, PTL DEF Spec

-----------------------------------------------------------------------------
(* A task under cancellation is the one a Stop or Delete is joining, so its  *)
(* end, wherever the cancellation strikes, is followed by a commit.          *)

OwnerInv ==
    /\ \A t \in cancelled : Live(t) /\ \E h \in Halts : halt[h] = "join" /\ target[h] = t
    /\ \A t \in Inputs : turn[t] = "idling" => status = "idle"
    /\ BusyHasOwner

(* Every step leaves a session that is not idle with someone to end it.      *)
LEMMA OwnerInvNext ==
    ASSUME Cancellable = {}, LateAnswers = FALSE, StopMayFail = FALSE
    PROVE  TypeOK /\ TypeOK' /\ TurnInv /\ TurnInv' /\ HaltInv /\ OwnerInv /\ [Next]_vars
               => OwnerInv'
<1> SUFFICES ASSUME TypeOK, TypeOK', TurnInv, TurnInv', HaltInv, OwnerInv, [Next]_vars
             PROVE  OwnerInv'
  OBVIOUS
<1> USE ConstantsAssumption, HoldersDiffer DEF TypeOK, TurnInv, LockInv, SlotInv,
    BatchInv, HaltInv, Marked, OwnerInv, BusyHasOwner, Live, Busy, InAgent, Goto,
    HaltGoto, Joined, StartBatch, rows, tasks, calls, halts, agent, ghost
<1>1. ASSUME NEW s \in Inputs, Enqueue(s) PROVE OwnerInv'
  BY <1>1 DEF Enqueue
<1>2. ASSUME NEW s \in Inputs, SubmitToIdle(s) PROVE OwnerInv'
  BY <1>2 DEF SubmitToIdle, ShipInputs
<1>3. ASSUME NEW s \in Inputs, SubmitToBusy(s) PROVE OwnerInv'
  BY <1>3 DEF SubmitToBusy
<1>4. ASSUME NEW s \in Inputs, Shipped(s) PROVE OwnerInv'
  BY <1>4 DEF Shipped
<1>5. ASSUME NEW s \in Inputs, CancelSubmit(s) PROVE OwnerInv'
  BY <1>5 DEF CancelSubmit
<1>6. ASSUME NEW t \in Inputs, BeginTurn(t) PROVE OwnerInv'
  BY <1>6 DEF BeginTurn
<1>7. ASSUME NEW t \in Inputs, RecordEvent(t) PROVE OwnerInv'
  BY <1>7 DEF RecordEvent
<1>8. ASSUME NEW t \in Inputs, RecordAutoApproved(t) PROVE OwnerInv'
  BY <1>8 DEF RecordAutoApproved
<1>9. ASSUME NEW t \in Inputs, AutoApprove(t) PROVE OwnerInv'
  <2>1. \A u \in Inputs : Live(u) => u = t
    BY <1>9, NobodyHolds DEF AutoApprove
  <2>2. Live(t)'
    BY <1>9 DEF AutoApprove
  <2>3. \A u \in cancelled' : Live(u)' /\ \E h \in Halts : halt'[h] = "join" /\ target'[h] = u
    BY <1>9 DEF AutoApprove
  <2> QED BY <1>9, <2>1, <2>2, <2>3 DEF AutoApprove
<1>10. ASSUME NEW t \in Inputs, NextEvent(t) PROVE OwnerInv'
  BY <1>10 DEF NextEvent
<1>11. ASSUME NEW t \in Inputs, AgentEnds(t) PROVE OwnerInv'
  BY <1>11 DEF AgentEnds
<1>12. ASSUME NEW t \in Inputs, FailsOutside(t) PROVE OwnerInv'
  BY <1>12 DEF FailsOutside
<1>13. ASSUME NEW t \in Inputs, LateClose(t) PROVE OwnerInv'
  BY <1>13 DEF LateClose
<1>14. ASSUME NEW t \in Inputs, HandOver(t) PROVE OwnerInv'
  BY <1>14 DEF HandOver, ShipInputs
<1>15. ASSUME NEW t \in Inputs, HandedOver(t) PROVE OwnerInv'
  BY <1>15 DEF HandedOver
<1>16. ASSUME NEW t \in Inputs, GoIdle(t) PROVE OwnerInv'
  <2>1. turn[t] = "closing" /\ slot = t
    BY <1>16 DEF GoIdle, ReleaseSlot
  <2>2. /\ turnLock = Free /\ turnLock' = <<"turn", t>> /\ status' = "idle"
        /\ turn' = [turn EXCEPT ![t] = "idling"]
        /\ retained' = IF t \in completed /\ ~stopping THEN retained ELSE TRUE
        /\ t \notin completed \/ stopping \/ inbox = <<>>
        /\ t \notin cancelled
        /\ UNCHANGED <<exists, inbox, batch, sub, sawIdle, halt, target,
                       stopping, cancelled>>
    BY <1>16, <2>1 DEF GoIdle, ReleaseSlot
  <2>3. \A u \in Inputs : Live(u) => u = t
    BY <2>1, <2>2, NobodyHolds
  <2> QED BY <2>1, <2>2, <2>3
<1>17. ASSUME NEW t \in Inputs, WentIdle(t) PROVE OwnerInv'
  BY <1>17 DEF WentIdle
<1>18. ASSUME NEW t \in Inputs, CancelTurn(t) PROVE OwnerInv'
  BY <1>18 DEF CancelTurn
<1>19. ASSUME NEW t \in Inputs, NEW r \in Requests, RecordRequest(t, r) PROVE OwnerInv'
  <2>1. \A u \in Inputs : Live(u) => u = t
    BY <1>19, NobodyHolds DEF RecordRequest
  <2>2. Live(t)'
    BY <1>19 DEF RecordRequest
  <2>3. \A u \in cancelled' : Live(u)' /\ \E h \in Halts : halt'[h] = "join" /\ target'[h] = u
    BY <1>19 DEF RecordRequest
  <2> QED BY <1>19, <2>1, <2>2, <2>3 DEF RecordRequest
<1>20. ASSUME NEW r \in Requests, Answer(r) PROVE OwnerInv'
  BY <1>20 DEF Answer
<1>21. ASSUME NEW r \in Requests, Withdraw(r) PROVE OwnerInv'
  BY <1>21 DEF Withdraw
<1>22. ASSUME NEW h \in Halts, HaltArrives(h) PROVE OwnerInv'
  BY <1>22 DEF HaltArrives
<1>23. ASSUME NEW h \in Halts, TakeStopLock(h) PROVE OwnerInv'
  BY <1>23 DEF TakeStopLock
<1>24. ASSUME NEW h \in Halts, MarkStopping(h) PROVE OwnerInv'
  BY <1>24 DEF MarkStopping
<1>25. ASSUME NEW h \in Halts, AdapterClears(h) PROVE OwnerInv'
  BY <1>25 DEF AdapterClears
<1>26. ASSUME NEW h \in Halts, AdapterStopped(h) PROVE OwnerInv'
  BY <1>26 DEF AdapterStopped
<1>27. ASSUME NEW h \in Halts, StopCommits(h) PROVE OwnerInv'
  BY <1>27 DEF StopCommits
<1>28. ASSUME NEW h \in Halts, DeleteCommits(h) PROVE OwnerInv'
  BY <1>28 DEF DeleteCommits
<1>29. ASSUME NEW h \in Halts, HaltFinishes(h) PROVE OwnerInv'
  BY <1>29 DEF HaltFinishes
<1>30. ASSUME NEW h \in Halts, UnmarkStopping(h) PROVE OwnerInv'
  BY <1>30 DEF UnmarkStopping
<1>31. ASSUME NEW p \in Patches, PatchChecks(p) PROVE OwnerInv'
  BY <1>31 DEF PatchChecks
<1>32. ASSUME NEW p \in Patches, PatchWrites(p) PROVE OwnerInv'
  BY <1>32 DEF PatchWrites
<1>33. ASSUME NEW p \in Patches, PatchReturns(p) PROVE OwnerInv'
  BY <1>33 DEF PatchReturns
<1>34. ASSUME Crash PROVE OwnerInv'
  BY <1>34 DEF Crash
<1>35. ASSUME UNCHANGED vars PROVE OwnerInv'
  BY <1>35 DEF vars
<1> QED BY <1>1, <1>2, <1>3, <1>4, <1>5, <1>6, <1>7, <1>8, <1>9, <1>10, <1>11, <1>12, <1>13,
     <1>14, <1>15, <1>16, <1>17, <1>18, <1>19, <1>20, <1>21, <1>22, <1>23, <1>24, <1>25, <1>26,
     <1>27, <1>28, <1>29, <1>30, <1>31, <1>32, <1>33, <1>34, <1>35 DEF Next, Submission, TurnTask,
     AgentEvent, Halting, Patching

(* A session that is not idle has a task, a batch about to get one, or a Stop *)
(* about to set it idle, provided no task that awaits begin_turn is cancelled, *)
(* adapter.stop does not raise and no answer reaches an abandoned agent       *)
(* (begin_turn, run_turn's finally, stop_session).                            *)
THEOREM BusyIsOwned ==
    ASSUME Cancellable = {}, LateAnswers = FALSE, StopMayFail = FALSE
    PROVE  Spec => []BusyHasOwner
<1>1. Init => OwnerInv
  BY DEF Init, OwnerInv, BusyHasOwner
<1>2. OwnerInv => BusyHasOwner
  BY DEF OwnerInv
<1> QED BY <1>1, <1>2, OwnerInvNext, HaltsExcluded, PTL DEF Spec



-----------------------------------------------------------------------------
(* A retained inbox: no task is at work that could hand over, and a message  *)
(* being accepted is in the inbox.                                           *)

In(m, q) == \E i \in 1..Len(q) : q[i] = m

RetainInv ==
    /\ retained => batch = None /\ \A t \in Inputs : Live(t) => turn[t] = "idling"
    /\ \A s \in Inputs : sub[s] = "enqueued" /\ exists => In(s, inbox)

(* A message appended to a queue is in it.                                   *)
LEMMA AppendIn ==
    ASSUME NEW S, NEW q \in Seq(S), NEW m \in S PROVE In(m, Append(q, m))
<1>1. /\ Len(Append(q, m)) = Len(q) + 1 /\ Append(q, m)[Len(q) + 1] = m
      /\ Len(q) \in Nat
  OBVIOUS
<1>2. Len(q) + 1 \in 1..Len(Append(q, m))
  BY <1>1
<1> QED BY <1>1, <1>2 DEF In

(* Every step keeps a retained inbox without a task that could hand over.    *)
LEMMA RetainInvNext ==
    TypeOK /\ TypeOK' /\ TurnInv /\ TurnInv' /\ HaltInv /\ RetainInv /\ [Next]_vars
        => RetainInv'
<1> SUFFICES ASSUME TypeOK, TypeOK', TurnInv, TurnInv', HaltInv, RetainInv, [Next]_vars
             PROVE  RetainInv'
  OBVIOUS
<1> USE ConstantsAssumption, HoldersDiffer DEF TypeOK, TurnInv, LockInv, SlotInv,
    BatchInv, HaltInv, Marked, RetainInv, Live, Busy, InAgent, Goto, HaltGoto,
    Joined, StartBatch, rows, tasks, calls, halts, agent, ghost
<1>1. ASSUME NEW s \in Inputs, Enqueue(s) PROVE RetainInv'
  <2>1. CASE exists
    <3>1. \A u \in Inputs : sub[u] # "enqueued"
      BY <1>1, <2>1, NobodyHolds DEF Enqueue
    <3>2. In(s, inbox')
      <4>1. inbox' = Append(inbox, s)
        BY <1>1, <2>1 DEF Enqueue
      <4>2. inbox \in Seq(Inputs)
        OBVIOUS
      <4>3. In(s, Append(inbox, s))
        BY <4>2, AppendIn
      <4> QED BY <4>1, <4>3
    <3> QED BY <1>1, <2>1, <3>1, <3>2 DEF Enqueue
  <2>2. CASE ~exists
    BY <1>1, <2>2 DEF Enqueue
  <2> QED BY <2>1, <2>2
<1>2. ASSUME NEW s \in Inputs, SubmitToIdle(s) PROVE RetainInv'
  BY <1>2 DEF SubmitToIdle, ShipInputs
<1>3. ASSUME NEW s \in Inputs, SubmitToBusy(s) PROVE RetainInv'
  BY <1>3 DEF SubmitToBusy
<1>4. ASSUME NEW s \in Inputs, Shipped(s) PROVE RetainInv'
  BY <1>4 DEF Shipped
<1>5. ASSUME NEW s \in Inputs, CancelSubmit(s) PROVE RetainInv'
  BY <1>5 DEF CancelSubmit
<1>6. ASSUME NEW t \in Inputs, BeginTurn(t) PROVE RetainInv'
  BY <1>6 DEF BeginTurn
<1>7. ASSUME NEW t \in Inputs, RecordEvent(t) PROVE RetainInv'
  BY <1>7 DEF RecordEvent
<1>8. ASSUME NEW t \in Inputs, RecordAutoApproved(t) PROVE RetainInv'
  BY <1>8 DEF RecordAutoApproved
<1>9. ASSUME NEW t \in Inputs, AutoApprove(t) PROVE RetainInv'
  BY <1>9 DEF AutoApprove
<1>10. ASSUME NEW t \in Inputs, NextEvent(t) PROVE RetainInv'
  BY <1>10 DEF NextEvent
<1>11. ASSUME NEW t \in Inputs, AgentEnds(t) PROVE RetainInv'
  BY <1>11 DEF AgentEnds
<1>12. ASSUME NEW t \in Inputs, FailsOutside(t) PROVE RetainInv'
  BY <1>12 DEF FailsOutside
<1>13. ASSUME NEW t \in Inputs, LateClose(t) PROVE RetainInv'
  BY <1>13 DEF LateClose
<1>14. ASSUME NEW t \in Inputs, HandOver(t) PROVE RetainInv'
  BY <1>14 DEF HandOver, ShipInputs
<1>15. ASSUME NEW t \in Inputs, HandedOver(t) PROVE RetainInv'
  BY <1>15 DEF HandedOver
<1>16. ASSUME NEW t \in Inputs, GoIdle(t) PROVE RetainInv'
  <2>1. turn[t] = "closing" /\ slot = t
    BY <1>16 DEF GoIdle, ReleaseSlot
  <2>2. /\ turnLock = Free /\ turn' = [turn EXCEPT ![t] = "idling"]
        /\ UNCHANGED <<exists, inbox, batch, sub>>
    BY <1>16, <2>1 DEF GoIdle, ReleaseSlot
  <2>3. batch = None /\ \A u \in Inputs : Live(u) => u = t
    BY <2>1, <2>2, NobodyHolds
  <2> QED BY <2>1, <2>2, <2>3
<1>17. ASSUME NEW t \in Inputs, WentIdle(t) PROVE RetainInv'
  BY <1>17 DEF WentIdle
<1>18. ASSUME NEW t \in Inputs, CancelTurn(t) PROVE RetainInv'
  BY <1>18 DEF CancelTurn
<1>19. ASSUME NEW t \in Inputs, NEW r \in Requests, RecordRequest(t, r) PROVE RetainInv'
  BY <1>19 DEF RecordRequest
<1>20. ASSUME NEW r \in Requests, Answer(r) PROVE RetainInv'
  BY <1>20 DEF Answer
<1>21. ASSUME NEW r \in Requests, Withdraw(r) PROVE RetainInv'
  BY <1>21 DEF Withdraw
<1>22. ASSUME NEW h \in Halts, HaltArrives(h) PROVE RetainInv'
  BY <1>22 DEF HaltArrives
<1>23. ASSUME NEW h \in Halts, TakeStopLock(h) PROVE RetainInv'
  BY <1>23 DEF TakeStopLock
<1>24. ASSUME NEW h \in Halts, MarkStopping(h) PROVE RetainInv'
  BY <1>24 DEF MarkStopping
<1>25. ASSUME NEW h \in Halts, AdapterClears(h) PROVE RetainInv'
  BY <1>25 DEF AdapterClears
<1>26. ASSUME NEW h \in Halts, AdapterStopped(h) PROVE RetainInv'
  BY <1>26 DEF AdapterStopped
<1>27. ASSUME NEW h \in Halts, StopCommits(h) PROVE RetainInv'
  BY <1>27 DEF StopCommits
<1>28. ASSUME NEW h \in Halts, DeleteCommits(h) PROVE RetainInv'
  BY <1>28 DEF DeleteCommits
<1>29. ASSUME NEW h \in Halts, HaltFinishes(h) PROVE RetainInv'
  BY <1>29 DEF HaltFinishes
<1>30. ASSUME NEW h \in Halts, UnmarkStopping(h) PROVE RetainInv'
  BY <1>30 DEF UnmarkStopping
<1>31. ASSUME NEW p \in Patches, PatchChecks(p) PROVE RetainInv'
  BY <1>31 DEF PatchChecks
<1>32. ASSUME NEW p \in Patches, PatchWrites(p) PROVE RetainInv'
  BY <1>32 DEF PatchWrites
<1>33. ASSUME NEW p \in Patches, PatchReturns(p) PROVE RetainInv'
  BY <1>33 DEF PatchReturns
<1>34. ASSUME Crash PROVE RetainInv'
  BY <1>34 DEF Crash
<1>35. ASSUME UNCHANGED vars PROVE RetainInv'
  BY <1>35 DEF vars
<1> QED BY <1>1, <1>2, <1>3, <1>4, <1>5, <1>6, <1>7, <1>8, <1>9, <1>10, <1>11, <1>12, <1>13,
     <1>14, <1>15, <1>16, <1>17, <1>18, <1>19, <1>20, <1>21, <1>22, <1>23, <1>24, <1>25, <1>26,
     <1>27, <1>28, <1>29, <1>30, <1>31, <1>32, <1>33, <1>34, <1>35 DEF Next, Submission, TurnTask,
     AgentEvent, Halting, Patching

(* What Stop, a failure or a restart retained is shipped only by a new       *)
(* submission to the idle session, and together with it (ship_queued_turn's  *)
(* two callers).                                                             *)
LEMMA RetainedStep ==
    TypeOK /\ TurnInv /\ RetainInv /\ [Next]_vars /\ retained /\ shipped' # shipped /\ exists'
        => \E s \in Inputs : /\ sub[s] = "enqueued" /\ sub'[s] = "shipping"
                             /\ shipped' = shipped \o inbox
                             /\ \E i \in 1..Len(inbox) : inbox[i] = s
<1> DEFINE ByMessage(s) == /\ sub[s] = "enqueued" /\ sub'[s] = "shipping"
                           /\ shipped' = shipped \o inbox
                           /\ \E i \in 1..Len(inbox) : inbox[i] = s
<1> DEFINE BySubmission == \E s \in Inputs : ByMessage(s)
<1> SUFFICES ASSUME TypeOK, TurnInv, RetainInv, [Next]_vars, retained, shipped' # shipped, exists'
             PROVE  BySubmission
  OBVIOUS
<1> USE ConstantsAssumption DEF Live, InAgent, RetainInv, Goto, HaltGoto, StartBatch,
    rows, tasks, calls, halts, agent, ghost
<1>1. ASSUME NEW s \in Inputs, Enqueue(s) PROVE BySubmission
  BY <1>1 DEF Enqueue
<1>2. ASSUME NEW s \in Inputs, SubmitToIdle(s) PROVE BySubmission
  <2>1. exists /\ In(s, inbox)
    BY <1>2 DEF SubmitToIdle, ShipInputs
  <2>2. sub[s] = "enqueued" /\ sub'[s] = "shipping" /\ shipped' = shipped \o inbox
    BY <1>2 DEF SubmitToIdle, ShipInputs, TypeOK
  <2>3. ByMessage(s)
    BY <2>1, <2>2 DEF In
  <2> QED BY <2>3
<1>3. ASSUME NEW s \in Inputs, SubmitToBusy(s) PROVE BySubmission
  BY <1>3 DEF SubmitToBusy
<1>4. ASSUME NEW s \in Inputs, Shipped(s) PROVE BySubmission
  BY <1>4 DEF Shipped
<1>5. ASSUME NEW s \in Inputs, CancelSubmit(s) PROVE BySubmission
  BY <1>5 DEF CancelSubmit
<1>6. ASSUME NEW t \in Inputs, BeginTurn(t) PROVE BySubmission
  BY <1>6 DEF BeginTurn
<1>7. ASSUME NEW t \in Inputs, RecordEvent(t) PROVE BySubmission
  BY <1>7 DEF RecordEvent
<1>8. ASSUME NEW t \in Inputs, RecordAutoApproved(t) PROVE BySubmission
  BY <1>8 DEF RecordAutoApproved
<1>9. ASSUME NEW t \in Inputs, AutoApprove(t) PROVE BySubmission
  BY <1>9 DEF AutoApprove
<1>10. ASSUME NEW t \in Inputs, NextEvent(t) PROVE BySubmission
  BY <1>10 DEF NextEvent
<1>11. ASSUME NEW t \in Inputs, AgentEnds(t) PROVE BySubmission
  BY <1>11 DEF AgentEnds
<1>12. ASSUME NEW t \in Inputs, FailsOutside(t) PROVE BySubmission
  BY <1>12 DEF FailsOutside
<1>13. ASSUME NEW t \in Inputs, LateClose(t) PROVE BySubmission
  BY <1>13 DEF LateClose
<1>14. ASSUME NEW t \in Inputs, HandOver(t) PROVE BySubmission
  BY <1>14 DEF HandOver, ShipInputs
<1>15. ASSUME NEW t \in Inputs, HandedOver(t) PROVE BySubmission
  BY <1>15 DEF HandedOver
<1>16. ASSUME NEW t \in Inputs, GoIdle(t) PROVE BySubmission
  BY <1>16 DEF GoIdle, ReleaseSlot
<1>17. ASSUME NEW t \in Inputs, WentIdle(t) PROVE BySubmission
  BY <1>17 DEF WentIdle
<1>18. ASSUME NEW t \in Inputs, CancelTurn(t) PROVE BySubmission
  BY <1>18 DEF CancelTurn
<1>19. ASSUME NEW t \in Inputs, NEW r \in Requests, RecordRequest(t, r) PROVE BySubmission
  BY <1>19 DEF RecordRequest
<1>20. ASSUME NEW r \in Requests, Answer(r) PROVE BySubmission
  BY <1>20 DEF Answer
<1>21. ASSUME NEW r \in Requests, Withdraw(r) PROVE BySubmission
  BY <1>21 DEF Withdraw
<1>22. ASSUME NEW h \in Halts, HaltArrives(h) PROVE BySubmission
  BY <1>22 DEF HaltArrives
<1>23. ASSUME NEW h \in Halts, TakeStopLock(h) PROVE BySubmission
  BY <1>23 DEF TakeStopLock
<1>24. ASSUME NEW h \in Halts, MarkStopping(h) PROVE BySubmission
  BY <1>24 DEF MarkStopping
<1>25. ASSUME NEW h \in Halts, AdapterClears(h) PROVE BySubmission
  BY <1>25 DEF AdapterClears
<1>26. ASSUME NEW h \in Halts, AdapterStopped(h) PROVE BySubmission
  BY <1>26 DEF AdapterStopped
<1>27. ASSUME NEW h \in Halts, StopCommits(h) PROVE BySubmission
  BY <1>27 DEF StopCommits
<1>28. ASSUME NEW h \in Halts, DeleteCommits(h) PROVE BySubmission
  BY <1>28 DEF DeleteCommits
<1>29. ASSUME NEW h \in Halts, HaltFinishes(h) PROVE BySubmission
  BY <1>29 DEF HaltFinishes
<1>30. ASSUME NEW h \in Halts, UnmarkStopping(h) PROVE BySubmission
  BY <1>30 DEF UnmarkStopping
<1>31. ASSUME NEW p \in Patches, PatchChecks(p) PROVE BySubmission
  BY <1>31 DEF PatchChecks
<1>32. ASSUME NEW p \in Patches, PatchWrites(p) PROVE BySubmission
  BY <1>32 DEF PatchWrites
<1>33. ASSUME NEW p \in Patches, PatchReturns(p) PROVE BySubmission
  BY <1>33 DEF PatchReturns
<1>34. ASSUME Crash PROVE BySubmission
  BY <1>34 DEF Crash
<1>35. ASSUME UNCHANGED vars PROVE BySubmission
  BY <1>35 DEF vars
<1> QED BY <1>1, <1>2, <1>3, <1>4, <1>5, <1>6, <1>7, <1>8, <1>9, <1>10, <1>11, <1>12, <1>13,
     <1>14, <1>15, <1>16, <1>17, <1>18, <1>19, <1>20, <1>21, <1>22, <1>23, <1>24, <1>25, <1>26,
     <1>27, <1>28, <1>29, <1>30, <1>31, <1>32, <1>33, <1>34, <1>35 DEF Next, Submission, TurnTask,
     AgentEvent, Halting, Patching

(* Nothing resumes a retained inbox by itself: Stop, a failure and a restart *)
(* leave it to the next submission, which takes it whole.                    *)
THEOREM RetainedWaits == Spec => RetainedUntilSubmission
<1>1. Init => RetainInv
  BY DEF Init, RetainInv
<1> QED BY <1>1, RetainInvNext, RetainedStep, HaltsExcluded, PTL DEF Spec,
     RetainedUntilSubmission

-----------------------------------------------------------------------------
(* The turn life cycle implements the contract of the message queue: every *)
(* step is a step of TurnQueue or leaves it alone.                         *)

\* A message is new until its begin_turn accepts it; a turn bears the name of a
\* message that had no turn before.
NamesInv ==
    /\ \A s \in Inputs : sub[s] = "new" =>
           turn[s] = "none" /\ s # batch /\ ~In(s, inbox) /\ ~In(s, shipped)
    /\ \A s \in Inputs : In(s, inbox) => turn[s] = "none" /\ s # batch
    /\ batch # None => turn[batch] = "none"
    /\ \A t \in completed : turn[t] \in {"closing", "handover", "idling", "done"}
    /\ ~exists => inbox = <<>> /\ shipped = <<>>

\* A task is cancelled by the Stop or Delete that waits for it.
CancelInv ==
    \A t \in cancelled :
        /\ turn[t] # "none"
        /\ Live(t) => \E h \in Halts : halt[h] \in {"join", "abort"} /\ target[h] = t

IInv == TypeOK /\ TurnInv /\ HaltInv /\ NamesInv /\ CancelInv

-----------------------------------------------------------------------------
(* Members of a queue *)

\* Appending adds one member.
LEMMA InAppend ==
    ASSUME NEW S, NEW q \in Seq(S), NEW m \in S, NEW x
    PROVE  In(x, Append(q, m)) <=> In(x, q) \/ x = m
<1>1. /\ Len(Append(q, m)) = Len(q) + 1 /\ Append(q, m)[Len(q) + 1] = m /\ Len(q) \in Nat
      /\ \A i \in 1..Len(q) : Append(q, m)[i] = q[i]
  OBVIOUS
<1>2. 1..(Len(q) + 1) = 1..Len(q) \cup {Len(q) + 1}
  BY <1>1
<1>3. QED
  BY <1>1, <1>2 DEF In

\* A concatenation has the members of both.
LEMMA InConcat ==
    ASSUME NEW S, NEW p \in Seq(S), NEW q \in Seq(S), NEW x
    PROVE  In(x, p \o q) <=> In(x, p) \/ In(x, q)
<1>1. /\ Len(p \o q) = Len(p) + Len(q) /\ Len(p) \in Nat /\ Len(q) \in Nat
      /\ \A i \in 1..Len(p) : (p \o q)[i] = p[i]
      /\ \A i \in 1..Len(q) : (p \o q)[Len(p) + i] = q[i]
  OBVIOUS
<1>2. ASSUME In(x, p) PROVE In(x, p \o q)
  BY <1>1, <1>2 DEF In
<1>3. ASSUME In(x, q) PROVE In(x, p \o q)
  <2>1. PICK i \in 1..Len(q) : q[i] = x
    BY <1>3 DEF In
  <2>2. Len(p) + i \in 1..Len(p \o q) /\ (p \o q)[Len(p) + i] = x
    BY <1>1, <2>1
  <2>3. QED
    BY <2>2 DEF In
<1>4. ASSUME In(x, p \o q) PROVE In(x, p) \/ In(x, q)
  <2>1. PICK i \in 1..Len(p \o q) : (p \o q)[i] = x
    BY <1>4 DEF In
  <2>2. CASE i \in 1..Len(p)
    BY <1>1, <2>1, <2>2 DEF In
  <2>3. CASE i \notin 1..Len(p)
    <3>1. i - Len(p) \in 1..Len(q) /\ i = Len(p) + (i - Len(p))
      BY <1>1, <2>1, <2>3
    <3>2. q[i - Len(p)] = x
      BY <1>1, <2>1, <3>1
    <3>3. QED
      BY <3>1, <3>2 DEF In
  <2>4. QED
    BY <2>2, <2>3
<1>5. QED
  BY <1>2, <1>3, <1>4

\* What a shipment makes of the names.
ShipNames ==
    /\ batch' \in Inputs /\ In(batch', inbox)
    /\ \A m \in Inputs : ~In(m, inbox')
    /\ \A m \in Inputs : In(m, shipped') <=> In(m, shipped) \/ In(m, inbox)

\* The inbox goes to the transcript and its head names the batch.
LEMMA ShippedNames ==
    ASSUME inbox \in Seq(Inputs), shipped \in Seq(Inputs), ShipInputs
    PROVE  ShipNames
<1>1. inbox # <<>> /\ batch' = Head(inbox) /\ inbox' = <<>> /\ shipped' = shipped \o inbox
  BY DEF ShipInputs
<1>2. 1 \in 1..Len(inbox) /\ Head(inbox) = inbox[1] /\ Head(inbox) \in Inputs
  BY <1>1
<1>3. In(batch', inbox)
  BY <1>1, <1>2 DEF In
<1>4. \A m \in Inputs : ~In(m, inbox')
  BY <1>1 DEF In
<1>5. \A m \in Inputs : In(m, shipped') <=> In(m, shipped) \/ In(m, inbox)
  BY <1>1, InConcat
<1>6. QED
  BY <1>1, <1>2, <1>3, <1>4, <1>5 DEF ShipNames

-----------------------------------------------------------------------------
(* The invariant *)

\* Every step keeps the names of messages and turns apart.
LEMMA NamesStep ==
    ASSUME TypeOK, TypeOK', TurnInv, HaltInv, NamesInv, [Next]_vars
    PROVE  NamesInv'
<1> USE ConstantsAssumption, HoldersDiffer DEF TypeOK, TurnInv, LockInv, SlotInv, BatchInv,
    HaltInv, DeletedIsQuiet, NamesInv, Live, InAgent, Goto, HaltGoto, StartBatch, rows, tasks,
    calls, halts, agent, ghost
<1>1. ASSUME NEW s \in Inputs, Enqueue(s) PROVE NamesInv'
  <2>1. CASE exists
    <3>1. inbox' = Append(inbox, s) /\ sub' = [sub EXCEPT ![s] = "enqueued"] /\ sub[s] = "new"
      BY <1>1, <2>1 DEF Enqueue
    <3>2. \A m \in Inputs : In(m, inbox') <=> In(m, inbox) \/ m = s
      BY <3>1, InAppend
    <3>3. QED
      BY <1>1, <2>1, <3>1, <3>2 DEF Enqueue
  <2>2. CASE ~exists
    BY <1>1, <2>2 DEF Enqueue
  <2>3. QED
    BY <2>1, <2>2
<1>2. ASSUME NEW s \in Inputs, SubmitToIdle(s) PROVE NamesInv'
  <2>1. ShipInputs /\ sub[s] = "enqueued"
    BY <1>2 DEF SubmitToIdle
  <2>2. ShipNames
    BY <2>1, ShippedNames DEF NamesInv
  <2>3. QED
    BY <1>2, <2>1, <2>2 DEF SubmitToIdle, ShipNames, ShipInputs
<1>3. ASSUME NEW s \in Inputs, SubmitToBusy(s) PROVE NamesInv'
  BY <1>3 DEF SubmitToBusy
<1>4. ASSUME NEW s \in Inputs, Shipped(s) PROVE NamesInv'
  BY <1>4 DEF Shipped, StartBatch
<1>5. ASSUME NEW s \in Inputs, CancelSubmit(s) PROVE NamesInv'
  BY <1>5 DEF CancelSubmit
<1>6. ASSUME NEW t \in Inputs, BeginTurn(t) PROVE NamesInv'
  BY <1>6 DEF BeginTurn
<1>7. ASSUME NEW t \in Inputs, RecordEvent(t) PROVE NamesInv'
  BY <1>7 DEF RecordEvent
<1>8. ASSUME NEW t \in Inputs, RecordAutoApproved(t) PROVE NamesInv'
  BY <1>8 DEF RecordAutoApproved
<1>9. ASSUME NEW t \in Inputs, AutoApprove(t) PROVE NamesInv'
  BY <1>9 DEF AutoApprove
<1>10. ASSUME NEW t \in Inputs, NextEvent(t) PROVE NamesInv'
  BY <1>10 DEF NextEvent
<1>11. ASSUME NEW t \in Inputs, AgentEnds(t) PROVE NamesInv'
  BY <1>11 DEF AgentEnds
<1>12. ASSUME NEW t \in Inputs, FailsOutside(t) PROVE NamesInv'
  BY <1>12 DEF FailsOutside
<1>13. ASSUME NEW t \in Inputs, LateClose(t) PROVE NamesInv'
  BY <1>13 DEF LateClose
<1>14. ASSUME NEW t \in Inputs, HandOver(t) PROVE NamesInv'
  <2>1. ShipInputs
    BY <1>14 DEF HandOver
  <2>2. ShipNames
    BY <2>1, ShippedNames DEF NamesInv
  <2>3. QED
    BY <1>14, <2>1, <2>2 DEF HandOver, ShipNames, ShipInputs
<1>15. ASSUME NEW t \in Inputs, HandedOver(t) PROVE NamesInv'
  BY <1>15 DEF HandedOver, StartBatch
<1>16. ASSUME NEW t \in Inputs, GoIdle(t) PROVE NamesInv'
  <2>1. turn[t] = "closing" /\ slot = t
    BY <1>16 DEF GoIdle, ReleaseSlot
  <2>2. /\ turn' = [turn EXCEPT ![t] = "idling"]
        /\ UNCHANGED <<exists, inbox, shipped, batch, completed, cancelled, sub, halt, target>>
    BY <1>16, <2>1 DEF GoIdle, ReleaseSlot
  <2>3. QED
    BY <2>1, <2>2
<1>17. ASSUME NEW t \in Inputs, WentIdle(t) PROVE NamesInv'
  BY <1>17 DEF WentIdle
<1>18. ASSUME NEW t \in Inputs, CancelTurn(t) PROVE NamesInv'
  BY <1>18 DEF CancelTurn
<1>19. ASSUME NEW t \in Inputs, NEW r \in Requests, RecordRequest(t, r) PROVE NamesInv'
  BY <1>19 DEF RecordRequest
<1>20. ASSUME NEW r \in Requests, Answer(r) PROVE NamesInv'
  BY <1>20 DEF Answer
<1>21. ASSUME NEW r \in Requests, Withdraw(r) PROVE NamesInv'
  BY <1>21 DEF Withdraw
<1>22. ASSUME NEW h \in Halts, HaltArrives(h) PROVE NamesInv'
  BY <1>22 DEF HaltArrives
<1>23. ASSUME NEW h \in Halts, TakeStopLock(h) PROVE NamesInv'
  BY <1>23 DEF TakeStopLock
<1>24. ASSUME NEW h \in Halts, MarkStopping(h) PROVE NamesInv'
  BY <1>24 DEF MarkStopping
<1>25. ASSUME NEW h \in Halts, AdapterClears(h) PROVE NamesInv'
  BY <1>25 DEF AdapterClears
<1>26. ASSUME NEW h \in Halts, AdapterStopped(h) PROVE NamesInv'
  BY <1>26 DEF AdapterStopped
<1>27. ASSUME NEW h \in Halts, StopCommits(h) PROVE NamesInv'
  BY <1>27 DEF StopCommits
<1>28. ASSUME NEW h \in Halts, DeleteCommits(h) PROVE NamesInv'
  <2>1. \A m \in Inputs : ~In(m, inbox') /\ ~In(m, shipped')
    BY <1>28 DEF DeleteCommits, In
  <2>2. QED
    BY <1>28, <2>1 DEF DeleteCommits
<1>29. ASSUME NEW h \in Halts, HaltFinishes(h) PROVE NamesInv'
  BY <1>29 DEF HaltFinishes
<1>30. ASSUME NEW h \in Halts, UnmarkStopping(h) PROVE NamesInv'
  BY <1>30 DEF UnmarkStopping
<1>31. ASSUME NEW p \in Patches, PatchChecks(p) PROVE NamesInv'
  BY <1>31 DEF PatchChecks
<1>32. ASSUME NEW p \in Patches, PatchWrites(p) PROVE NamesInv'
  BY <1>32 DEF PatchWrites
<1>33. ASSUME NEW p \in Patches, PatchReturns(p) PROVE NamesInv'
  BY <1>33 DEF PatchReturns
<1>34. ASSUME Crash PROVE NamesInv'
  BY <1>34 DEF Crash
<1>35. ASSUME UNCHANGED vars PROVE NamesInv'
  BY <1>35 DEF vars
<1>36. QED
  BY <1>1, <1>2, <1>3, <1>4, <1>5, <1>6, <1>7, <1>8, <1>9, <1>10, <1>11, <1>12, <1>13, <1>14,
       <1>15, <1>16, <1>17, <1>18, <1>19, <1>20, <1>21, <1>22, <1>23, <1>24, <1>25, <1>26, <1>27,
       <1>28, <1>29, <1>30, <1>31, <1>32, <1>33, <1>34, <1>35 DEF Next, Submission, TurnTask,
       AgentEvent, Halting, Patching

\* Every step keeps a cancelled task's Stop or Delete waiting for it.
LEMMA CancelStep ==
    ASSUME TypeOK, TypeOK', TurnInv, HaltInv, NamesInv, CancelInv, [Next]_vars
    PROVE  CancelInv'
<1> USE ConstantsAssumption, HoldersDiffer DEF TypeOK, TurnInv, LockInv, SlotInv, BatchInv,
    CancelInv, NamesInv, HaltInv, Marked, Live, InAgent, Goto, HaltGoto, Joined, StartBatch,
    rows, tasks, calls, halts, agent, ghost
<1>1. ASSUME NEW s \in Inputs, Enqueue(s) PROVE CancelInv'
  BY <1>1 DEF Enqueue
<1>2. ASSUME NEW s \in Inputs, SubmitToIdle(s) PROVE CancelInv'
  BY <1>2 DEF SubmitToIdle, ShipInputs
<1>3. ASSUME NEW s \in Inputs, SubmitToBusy(s) PROVE CancelInv'
  BY <1>3 DEF SubmitToBusy
<1>4. ASSUME NEW s \in Inputs, Shipped(s) PROVE CancelInv'
  <2>1. /\ batch \in Inputs /\ turn[batch] = "none"
        /\ turn' = [turn EXCEPT ![batch] = "created"]
        /\ UNCHANGED <<cancelled, halt, target>>
    BY <1>4 DEF Shipped
  <2>2. batch \notin cancelled
    BY <2>1
  <2>3. QED
    BY <2>1, <2>2
<1>5. ASSUME NEW s \in Inputs, CancelSubmit(s) PROVE CancelInv'
  BY <1>5 DEF CancelSubmit
<1>6. ASSUME NEW t \in Inputs, BeginTurn(t) PROVE CancelInv'
  BY <1>6 DEF BeginTurn
<1>7. ASSUME NEW t \in Inputs, RecordEvent(t) PROVE CancelInv'
  BY <1>7 DEF RecordEvent
<1>8. ASSUME NEW t \in Inputs, RecordAutoApproved(t) PROVE CancelInv'
  BY <1>8 DEF RecordAutoApproved
<1>9. ASSUME NEW t \in Inputs, AutoApprove(t) PROVE CancelInv'
  BY <1>9 DEF AutoApprove
<1>10. ASSUME NEW t \in Inputs, NextEvent(t) PROVE CancelInv'
  BY <1>10 DEF NextEvent
<1>11. ASSUME NEW t \in Inputs, AgentEnds(t) PROVE CancelInv'
  BY <1>11 DEF AgentEnds
<1>12. ASSUME NEW t \in Inputs, FailsOutside(t) PROVE CancelInv'
  BY <1>12 DEF FailsOutside
<1>13. ASSUME NEW t \in Inputs, LateClose(t) PROVE CancelInv'
  BY <1>13 DEF LateClose
<1>14. ASSUME NEW t \in Inputs, HandOver(t) PROVE CancelInv'
  BY <1>14 DEF HandOver, ShipInputs
<1>15. ASSUME NEW t \in Inputs, HandedOver(t) PROVE CancelInv'
  <2>1. /\ batch \in Inputs /\ turn[batch] = "none"
        /\ turn' = [[turn EXCEPT ![t] = "done"] EXCEPT ![batch] = "created"]
        /\ UNCHANGED <<cancelled, halt, target>>
    BY <1>15 DEF HandedOver
  <2>2. batch \notin cancelled
    BY <2>1
  <2>3. QED
    BY <2>1, <2>2
<1>16. ASSUME NEW t \in Inputs, GoIdle(t) PROVE CancelInv'
  <2>1. turn[t] = "closing" /\ slot = t
    BY <1>16 DEF GoIdle, ReleaseSlot
  <2>2. /\ turn' = [turn EXCEPT ![t] = "idling"]
        /\ UNCHANGED <<exists, inbox, shipped, batch, completed, cancelled, sub, halt, target>>
    BY <1>16, <2>1 DEF GoIdle, ReleaseSlot
  <2>3. QED
    BY <2>1, <2>2
<1>17. ASSUME NEW t \in Inputs, WentIdle(t) PROVE CancelInv'
  BY <1>17 DEF WentIdle
<1>18. ASSUME NEW t \in Inputs, CancelTurn(t) PROVE CancelInv'
  BY <1>18 DEF CancelTurn
<1>19. ASSUME NEW t \in Inputs, NEW r \in Requests, RecordRequest(t, r) PROVE CancelInv'
  BY <1>19 DEF RecordRequest
<1>20. ASSUME NEW r \in Requests, Answer(r) PROVE CancelInv'
  BY <1>20 DEF Answer
<1>21. ASSUME NEW r \in Requests, Withdraw(r) PROVE CancelInv'
  BY <1>21 DEF Withdraw
<1>22. ASSUME NEW h \in Halts, HaltArrives(h) PROVE CancelInv'
  BY <1>22 DEF HaltArrives
<1>23. ASSUME NEW h \in Halts, TakeStopLock(h) PROVE CancelInv'
  BY <1>23 DEF TakeStopLock
<1>24. ASSUME NEW h \in Halts, MarkStopping(h) PROVE CancelInv'
  BY <1>24 DEF MarkStopping
<1>25. ASSUME NEW h \in Halts, AdapterClears(h) PROVE CancelInv'
  BY <1>25 DEF AdapterClears
<1>26. ASSUME NEW h \in Halts, AdapterStopped(h) PROVE CancelInv'
  BY <1>26 DEF AdapterStopped
<1>27. ASSUME NEW h \in Halts, StopCommits(h) PROVE CancelInv'
  BY <1>27 DEF StopCommits
<1>28. ASSUME NEW h \in Halts, DeleteCommits(h) PROVE CancelInv'
  BY <1>28 DEF DeleteCommits
<1>29. ASSUME NEW h \in Halts, HaltFinishes(h) PROVE CancelInv'
  BY <1>29 DEF HaltFinishes
<1>30. ASSUME NEW h \in Halts, UnmarkStopping(h) PROVE CancelInv'
  BY <1>30 DEF UnmarkStopping
<1>31. ASSUME NEW p \in Patches, PatchChecks(p) PROVE CancelInv'
  BY <1>31 DEF PatchChecks
<1>32. ASSUME NEW p \in Patches, PatchWrites(p) PROVE CancelInv'
  BY <1>32 DEF PatchWrites
<1>33. ASSUME NEW p \in Patches, PatchReturns(p) PROVE CancelInv'
  BY <1>33 DEF PatchReturns
<1>34. ASSUME Crash PROVE CancelInv'
  BY <1>34 DEF Crash
<1>35. ASSUME UNCHANGED vars PROVE CancelInv'
  BY <1>35 DEF vars
<1>36. QED
  BY <1>1, <1>2, <1>3, <1>4, <1>5, <1>6, <1>7, <1>8, <1>9, <1>10, <1>11, <1>12, <1>13, <1>14,
       <1>15, <1>16, <1>17, <1>18, <1>19, <1>20, <1>21, <1>22, <1>23, <1>24, <1>25, <1>26, <1>27,
       <1>28, <1>29, <1>30, <1>31, <1>32, <1>33, <1>34, <1>35 DEF Next, Submission, TurnTask,
       AgentEvent, Halting, Patching

\* A task is only cancelled in a session that is being stopped.
LEMMA CancelledStops ==
    ASSUME HaltInv, CancelInv, NEW t \in cancelled, Live(t)
    PROVE  stopping
  BY DEF HaltInv, Marked, CancelInv

\* The invariant holds in every behaviour.
THEOREM QueueInvariant == Spec => []IInv
<1>1. Init => NamesInv /\ CancelInv
  BY ConstantsAssumption DEF Init, NamesInv, CancelInv, In
<1>2. TypeOK /\ TypeOK' /\ TurnInv /\ HaltInv /\ NamesInv /\ CancelInv /\ [Next]_vars
        => NamesInv' /\ CancelInv'
  BY NamesStep, CancelStep
<1>3. QED
  BY <1>1, <1>2, HaltsExcluded, PTL DEF Spec, IInv

-----------------------------------------------------------------------------
(* The mapping *)

QueueStep == [TQ!Next]_(TQ!vars)

\* At most one task is live.
LEMMA OneLive ==
    ASSUME TypeOK, TurnInv, NEW t \in Inputs, NEW u \in Inputs, Live(t), Live(u)
    PROVE  t = u
  BY ConstantsAssumption, HoldersDiffer DEF TurnInv, LockInv, SlotInv

\* The turn a client would see.
LEMMA TurnValue ==
    ASSUME TypeOK, TurnInv
    PROVE  /\ batch # None => AbstractTurn = "running"
           /\ batch = None /\ (\A t \in Inputs : ~Live(t)) => AbstractTurn = "none"
           /\ \A t \in Inputs : batch = None /\ Live(t) =>
                AbstractTurn = IF t \in completed THEN "completed" ELSE "running"
  BY OneLive DEF TypeOK, AbstractTurn

\* And the one it would see next.
LEMMA TurnValueNext ==
    ASSUME TypeOK', TurnInv'
    PROVE  /\ batch' # None => AbstractTurn' = "running"
           /\ batch' = None /\ (\A t \in Inputs : ~Live(t)') => AbstractTurn' = "none"
           /\ \A t \in Inputs : batch' = None /\ Live(t)' =>
                AbstractTurn' = IF t \in completed' THEN "completed" ELSE "running"
<1>1. \A t, u \in Inputs : Live(t)' /\ Live(u)' => t = u
  BY ConstantsAssumption, HoldersDiffer DEF TurnInv, LockInv, SlotInv
<1>2. QED
  BY <1>1 DEF TypeOK, AbstractTurn

\* Freshness is a truth value.
LEMMA FreshBoolean == AbstractFresh' \in BOOLEAN
  BY DEF AbstractFresh

\* Nothing a client would see, or only that a message stops being fresh.
LEMMA RestStep ==
    ASSUME AbstractTurn' = AbstractTurn, ~AbstractFresh' \/ (AbstractFresh' <=> AbstractFresh),
           UNCHANGED <<inbox, shipped, exists>>
    PROVE  QueueStep
<1>1. CASE AbstractFresh' <=> AbstractFresh
  BY <1>1 DEF QueueStep, TQ!vars, AbstractFresh
<1>2. CASE AbstractFresh /\ ~AbstractFresh'
  BY <1>2 DEF QueueStep, TQ!Next, TQ!Forget, AbstractFresh
<1>3. QED
  BY <1>1, <1>2

SameView ==
    /\ UNCHANGED <<batch, completed, stopping, sub, sawIdle, slot, inbox, shipped, exists>>
    /\ \A t \in Inputs : Live(t)' <=> Live(t)

\* Steps that touch nothing the mapping reads.
LEMMA SameStep ==
    ASSUME TypeOK, SameView
    PROVE  QueueStep
<1>1. AbstractTurn' = AbstractTurn
  BY DEF SameView, TypeOK, AbstractTurn
<1>2. AbstractFresh' <=> AbstractFresh
  BY DEF SameView, TypeOK, AbstractFresh, Busy
<1>3. QED
  BY <1>1, <1>2, RestStep DEF SameView

\* Steps made while turn_lock is free that touch neither messages nor turns.
LEMMA LockedStep ==
    ASSUME TurnInv, turnLock = Free, \A s \in sawIdle' : s \in Inputs,
           UNCHANGED <<exists, inbox, shipped, batch, turn, completed, sub>>
    PROVE  QueueStep
<1>1. ~AbstractFresh'
  BY NobodyHolds DEF AbstractFresh, TurnInv
<1>2. AbstractTurn' = AbstractTurn
  BY DEF AbstractTurn, Live
<1>3. QED
  BY <1>1, <1>2, RestStep

\* A whole inbox is shipped.
LEMMA ShipStep ==
    ASSUME IInv, TypeOK', TurnInv', ShipInputs, ~AbstractFresh',
           \/ AbstractTurn = "none" /\ AbstractFresh
           \/ AbstractTurn = "completed"
    PROVE  QueueStep
<1>1. inbox # <<>> /\ inbox' = <<>> /\ shipped' = shipped \o inbox /\ exists' = exists
  BY DEF ShipInputs
<1>2. exists
  BY <1>1 DEF IInv, NamesInv
<1>3. batch' # None
  <2>1. ShipNames
    BY ShippedNames DEF IInv, TypeOK
  <2>2. QED
    BY <2>1, ConstantsAssumption DEF ShipNames
<1>4. AbstractTurn' = "running"
  BY <1>3, TurnValueNext
<1>5. AbstractFresh' = FALSE
  BY FreshBoolean
<1>6. TQ!Ship
  BY <1>1, <1>2, <1>4, <1>5 DEF TQ!Ship
<1>7. QED
  BY <1>6 DEF QueueStep, TQ!Next

\* The task of a batch is created in place of the claim.
LEMMA StartStep ==
    ASSUME TypeOK, TurnInv, TypeOK', TurnInv', batch # None, batch \notin completed,
           turn'[batch] = "created", batch' = None, ~AbstractFresh, ~AbstractFresh',
           UNCHANGED <<exists, inbox, shipped, completed>>
    PROVE  QueueStep
<1>1. AbstractTurn = "running"
  BY TurnValue
<1>2. \E u \in Inputs : u \notin completed' /\ Live(u)'
  BY DEF TypeOK, Live
<1>3. AbstractTurn' = "running"
  BY <1>2, TurnValueNext
<1>4. QED
  BY <1>1, <1>3, RestStep

\* A turn ends, and no turn follows.
LEMMA EndStep ==
    ASSUME AbstractTurn # "none", AbstractTurn' = "none", ~AbstractFresh, ~AbstractFresh',
           UNCHANGED <<exists, inbox, shipped>>
    PROVE  QueueStep
  BY DEF QueueStep, TQ!Next, TQ!End, AbstractFresh

\* The last task is done.
LEMMA DoneStep ==
    ASSUME TypeOK, TurnInv, TypeOK', TurnInv', NEW t \in Inputs, Live(t), batch = None,
           \A u \in Inputs : Live(u) => u = t, turn' = [turn EXCEPT ![t] = "done"],
           ~AbstractFresh, ~AbstractFresh',
           UNCHANGED <<exists, inbox, shipped, batch>>
    PROVE  QueueStep
<1>1. \A u \in Inputs : ~Live(u)'
  BY DEF TypeOK, Live
<1>2. AbstractTurn # "none" /\ AbstractTurn' = "none"
  BY <1>1, TurnValue, TurnValueNext
<1>3. QED
  BY <1>2, EndStep

\* An agent ends, with an error or without.
LEMMA CompleteStep ==
    ASSUME AbstractTurn = "running", AbstractTurn' \in {"running", "completed"},
           AbstractFresh' <=> AbstractFresh, UNCHANGED <<exists, inbox, shipped>>
    PROVE  QueueStep
<1>1. CASE AbstractTurn' = "running"
  BY <1>1, RestStep
<1>2. CASE AbstractTurn' = "completed"
  <2>1. AbstractFresh' = AbstractFresh
    BY DEF AbstractFresh
  <2>2. TQ!Complete
    BY <1>2, <2>1 DEF TQ!Complete
  <2>3. QED
    BY <2>2 DEF QueueStep, TQ!Next
<1>3. QED
  BY <1>1, <1>2

\* Every step of the server is a step of the contract, or none.
LEMMA QueueNext ==
    ASSUME IInv, TypeOK', TurnInv', [Next]_vars
    PROVE  QueueStep
<1> USE ConstantsAssumption, HoldersDiffer DEF IInv, TypeOK, TurnInv, LockInv, SlotInv,
     BatchInv,
    HaltInv, Marked, DeletedIsQuiet, Live, Busy, InAgent, Goto, HaltGoto, Joined, rows, tasks,
    calls, halts, agent, ghost
<1>1. ASSUME NEW s \in Inputs, Enqueue(s) PROVE QueueStep
  <2>1. CASE ~exists
    <3>1. /\ sub' = [sub EXCEPT ![s] = "rejected"] /\ turnLock = Free /\ sawIdle' = sawIdle
          /\ UNCHANGED <<exists, inbox, shipped, batch, turn, completed>>
      BY <1>1, <2>1 DEF Enqueue
    <3>2. ~AbstractFresh'
      BY <3>1, NobodyHolds DEF AbstractFresh
    <3>3. AbstractTurn' = AbstractTurn
      BY <3>1 DEF AbstractTurn
    <3>4. QED
      BY <3>1, <3>2, <3>3, RestStep
  <2>2. CASE exists
    <3>1. /\ inbox' = Append(inbox, s) /\ sub[s] = "new" /\ turnLock = Free
          /\ UNCHANGED <<exists, shipped, batch, slot, turn, completed, stopping>>
      BY <1>1, <2>2 DEF Enqueue
    <3>2. ~AbstractFresh /\ batch = None
      BY <3>1, NobodyHolds DEF AbstractFresh
    <3>3. AbstractTurn' = AbstractTurn
      BY <3>1 DEF AbstractTurn
    <3>4. AbstractFresh' => AbstractTurn = "none"
      <4>1. ~Busy => \A t \in Inputs : ~Live(t)
        BY <3>1, NobodyHolds
      <4>2. Busy' <=> Busy
        BY <3>1
      <4>3. QED
        BY <3>2, <4>1, <4>2, TurnValue DEF AbstractFresh
    <3>5. ~TQ!Known(s)
      <4>1. ~In(s, inbox) /\ ~In(s, shipped)
        BY <3>1 DEF NamesInv
      <4>2. ~In(s, shipped \o inbox)
        BY <4>1, InConcat
      <4>3. QED
        BY <4>2 DEF TQ!Known, In
    <3>6. AbstractFresh' \in {FALSE, AbstractTurn = "none"}
      BY <3>4, FreshBoolean
    <3>7. TQ!Accept(s)
      BY <2>2, <3>1, <3>3, <3>5, <3>6 DEF TQ!Accept
    <3>8. QED
      BY <3>7 DEF TQ!Next, QueueStep
  <2>3. QED
    BY <2>1, <2>2
<1>2. ASSUME NEW s \in Inputs, SubmitToIdle(s) PROVE QueueStep
  <2>1. /\ sub[s] = "enqueued" /\ turnLock = <<"submit", s>>
        /\ s \in sawIdle /\ ~Busy /\ ~stopping /\ ShipInputs
        /\ sub' = [sub EXCEPT ![s] = "shipping"]
        /\ UNCHANGED <<turn, slot, sawIdle>>
    BY <1>2 DEF SubmitToIdle
  <2>2. AbstractFresh
    BY <2>1 DEF AbstractFresh
  <2>3. \A t \in Inputs : ~Live(t)
    BY <2>1
  <2>4. \A u \in Inputs : sub[u] # "shipping"
    BY <2>1
  <2>5. batch = None
    BY <2>3, <2>4
  <2>6. AbstractTurn = "none"
    BY <2>3, <2>5, TurnValue
  <2>7. ~AbstractFresh'
    BY <2>1 DEF AbstractFresh
  <2>8. QED
    BY <2>1, <2>2, <2>6, <2>7, ShipStep
<1>3. ASSUME NEW s \in Inputs, SubmitToBusy(s) PROVE QueueStep
  <2>1. /\ sub[s] = "enqueued" /\ turnLock = <<"submit", s>>
        /\ s \notin sawIdle \/ Busy \/ stopping \/ inbox = <<>>
        /\ sub' = [sub EXCEPT ![s] = "returned"]
        /\ UNCHANGED <<exists, inbox, shipped, batch, turn, completed>>
    BY <1>3 DEF SubmitToBusy
  <2>2. ~AbstractFresh'
    BY <2>1 DEF AbstractFresh
  <2>3. AbstractTurn' = AbstractTurn
    BY <2>1 DEF AbstractTurn
  <2>4. QED
    BY <2>1, <2>2, <2>3, RestStep
<1>4. ASSUME NEW s \in Inputs, Shipped(s) PROVE QueueStep
  <2>1. /\ sub[s] = "shipping" /\ turnLock = <<"submit", s>> /\ batch # None
        /\ sub' = [sub EXCEPT ![s] = "returned"] /\ turn' = [turn EXCEPT ![batch] = "created"]
        /\ batch' = None /\ UNCHANGED <<exists, inbox, shipped, completed>>
    BY <1>4 DEF Shipped, StartBatch
  <2>2. ~AbstractFresh /\ ~AbstractFresh'
    BY <2>1 DEF AbstractFresh
  <2>3. batch \notin completed
    BY <2>1 DEF NamesInv
  <2>4. QED
    BY <2>1, <2>2, <2>3, StartStep
<1>5. ASSUME NEW s \in Inputs, CancelSubmit(s) PROVE QueueStep
  <2>1. /\ sub[s] \in {"enqueued", "shipping"} /\ turnLock = <<"submit", s>>
        /\ sub' = [sub EXCEPT ![s] = "cancelled"] /\ batch' = None
        /\ UNCHANGED <<exists, inbox, shipped, turn, completed>>
    BY <1>5 DEF CancelSubmit
  <2>2. ~AbstractFresh'
    BY <2>1 DEF AbstractFresh
  <2>3. CASE batch = None
    <3>1. AbstractTurn' = AbstractTurn
      BY <2>1, <2>3 DEF AbstractTurn
    <3>2. QED
      BY <2>1, <2>2, <3>1, RestStep
  <2>4. CASE batch # None
    <3>1. sub[s] = "shipping"
      BY <2>1, <2>4
    <3>2. \A t \in Inputs : ~Live(t)
      BY <3>1
    <3>3. AbstractTurn = "running" /\ AbstractTurn' = "none"
      BY <2>1, <2>4, <3>2, TurnValue, TurnValueNext
    <3>4. ~AbstractFresh
      BY <2>1, <3>1 DEF AbstractFresh
    <3>5. QED
      BY <2>1, <2>2, <3>3, <3>4, EndStep
  <2>5. QED
    BY <2>3, <2>4
<1>6. ASSUME NEW t \in Inputs, BeginTurn(t) PROVE QueueStep
  <2>1. SameView
    BY <1>6 DEF BeginTurn, SameView
  <2>2. QED
    BY <2>1, SameStep
<1>7. ASSUME NEW t \in Inputs, RecordEvent(t) PROVE QueueStep
  <2>1. SameView
    BY <1>7 DEF RecordEvent, SameView
  <2>2. QED
    BY <2>1, SameStep
<1>8. ASSUME NEW t \in Inputs, RecordAutoApproved(t) PROVE QueueStep
  <2>1. SameView
    BY <1>8 DEF RecordAutoApproved, SameView
  <2>2. QED
    BY <2>1, SameStep
<1>9. ASSUME NEW t \in Inputs, AutoApprove(t) PROVE QueueStep
  <2>1. SameView
    BY <1>9 DEF AutoApprove, SameView
  <2>2. QED
    BY <2>1, SameStep
<1>10. ASSUME NEW t \in Inputs, NextEvent(t) PROVE QueueStep
  <2>1. SameView
    BY <1>10 DEF NextEvent, SameView
  <2>2. QED
    BY <2>1, SameStep
<1>11. ASSUME NEW t \in Inputs, AgentEnds(t) PROVE QueueStep
  <2>1. /\ turn[t] = "body" /\ turn' = [turn EXCEPT ![t] = "closing"]
        /\ completed' \in {completed, completed \cup {t}}
        /\ UNCHANGED <<exists, inbox, shipped, batch, slot, sub, sawIdle, stopping>>
    BY <1>11 DEF AgentEnds
  <2>2. Live(t) /\ batch = None /\ t \notin completed /\ \A u \in Inputs : Live(u) => u = t
    BY <2>1 DEF NamesInv
  <2>3. AbstractTurn = "running"
    BY <2>2, TurnValue
  <2>4. AbstractFresh' <=> AbstractFresh
    BY <2>1, <2>2 DEF AbstractFresh
  <2>5. AbstractTurn' \in {"running", "completed"}
    BY <2>1, <2>2, TurnValueNext
  <2>6. QED
    BY <2>1, <2>3, <2>4, <2>5, CompleteStep
<1>12. ASSUME NEW t \in Inputs, FailsOutside(t) PROVE QueueStep
  <2>1. SameView
    BY <1>12 DEF FailsOutside, SameView
  <2>2. QED
    BY <2>1, SameStep
<1>13. ASSUME NEW t \in Inputs, LateClose(t) PROVE QueueStep
  <2>1. SameView
    BY <1>13 DEF LateClose, SameView
  <2>2. QED
    BY <2>1, SameStep
<1>14. ASSUME NEW t \in Inputs, HandOver(t) PROVE QueueStep
  <2>1. /\ turnLock = Free /\ turn[t] = "closing" /\ t \in completed /\ ShipInputs
        /\ sub' = sub
    BY <1>14 DEF HandOver
  <2>2. ~AbstractFresh /\ ~AbstractFresh'
    BY <2>1, NobodyHolds DEF AbstractFresh
  <2>3. Live(t) /\ batch = None
    BY <2>1, NobodyHolds
  <2>4. AbstractTurn = "completed"
    BY <2>1, <2>3, TurnValue
  <2>5. QED
    BY <2>1, <2>2, <2>4, ShipStep
<1>15. ASSUME NEW t \in Inputs, HandedOver(t) PROVE QueueStep
  <2>1. /\ turn[t] = "handover" /\ turnLock = <<"turn", t>> /\ batch # None
        /\ turn' = [[turn EXCEPT ![t] = "done"] EXCEPT ![batch] = "created"]
        /\ batch' = None /\ UNCHANGED <<exists, inbox, shipped, completed, sub>>
    BY <1>15 DEF HandedOver, StartBatch
  <2>2. ~AbstractFresh /\ ~AbstractFresh'
    BY <2>1 DEF AbstractFresh
  <2>3. batch \notin completed
    BY <2>1 DEF NamesInv
  <2>4. turn'[batch] = "created"
    BY <2>1
  <2>5. QED
    BY <2>1, <2>2, <2>3, <2>4, StartStep
<1>16. ASSUME NEW t \in Inputs, GoIdle(t) PROVE QueueStep
  <2>1. turn[t] = "closing" /\ slot = t /\ turnLock = Free
    BY <1>16 DEF GoIdle, ReleaseSlot
  <2>2. /\ turn' = [turn EXCEPT ![t] = "idling"]
        /\ UNCHANGED <<exists, inbox, shipped, batch, completed, sub>>
    BY <1>16, <2>1 DEF GoIdle, ReleaseSlot
  <2>3. ~AbstractFresh /\ ~AbstractFresh'
    BY <2>1, <2>2, NobodyHolds DEF AbstractFresh
  <2>4. \A u \in Inputs : Live(u)' <=> Live(u)
    BY <2>1, <2>2
  <2>5. AbstractTurn' = AbstractTurn
    BY <2>2, <2>4 DEF AbstractTurn
  <2>6. QED
    BY <2>2, <2>3, <2>5, RestStep
<1>17. ASSUME NEW t \in Inputs, WentIdle(t) PROVE QueueStep
  <2>1. /\ turn[t] = "idling" /\ turnLock = <<"turn", t>>
        /\ turn' = [turn EXCEPT ![t] = "done"]
        /\ UNCHANGED <<exists, inbox, shipped, batch, completed, sub>>
    BY <1>17 DEF WentIdle
  <2>2. ~AbstractFresh /\ ~AbstractFresh'
    BY <2>1 DEF AbstractFresh
  <2>3. Live(t) /\ batch = None /\ \A u \in Inputs : Live(u) => u = t
    BY <2>1
  <2>4. QED
    BY <2>1, <2>2, <2>3, DoneStep
<1>18. ASSUME NEW t \in Inputs, CancelTurn(t) PROVE QueueStep
  <2>1. /\ Live(t) /\ t \in cancelled
        /\ turn' = [turn EXCEPT ![t] = IF InAgent(t) THEN "closing" ELSE "done"]
        /\ UNCHANGED <<exists, inbox, shipped, slot, completed, sub, sawIdle, stopping>>
    BY <1>18 DEF CancelTurn
  <2>2. ~AbstractFresh /\ ~AbstractFresh'
    BY <2>1, CancelledStops DEF AbstractFresh
  <2>3. CASE InAgent(t)
    <3>1. batch' = batch
      BY <1>18, <2>3 DEF CancelTurn
    <3>2. \A u \in Inputs : Live(u)' <=> Live(u)
      BY <2>1, <2>3
    <3>3. AbstractTurn' = AbstractTurn
      BY <2>1, <3>1, <3>2 DEF AbstractTurn
    <3>4. QED
      BY <2>1, <2>2, <3>3, RestStep
  <2>4. CASE ~InAgent(t)
    <3>1. \A u \in Inputs : Live(u) => u = t
      BY <2>1, OneLive
    <3>2. batch' = None
      BY <1>18, <2>1, <2>4 DEF CancelTurn
    <3>3. turn' = [turn EXCEPT ![t] = "done"]
      BY <2>1, <2>4
    <3>4. \A u \in Inputs : ~Live(u)'
      BY <3>1, <3>3
    <3>5. AbstractTurn # "none" /\ AbstractTurn' = "none"
      BY <2>1, <3>2, <3>4, TurnValue, TurnValueNext
    <3>6. QED
      BY <2>1, <2>2, <3>5, EndStep
  <2>5. QED
    BY <2>3, <2>4
<1>19. ASSUME NEW t \in Inputs, NEW r \in Requests, RecordRequest(t, r) PROVE QueueStep
  <2>1. SameView
    BY <1>19 DEF RecordRequest, SameView
  <2>2. QED
    BY <2>1, SameStep
<1>20. ASSUME NEW r \in Requests, Answer(r) PROVE QueueStep
  <2>1. SameView
    BY <1>20 DEF Answer, SameView
  <2>2. QED
    BY <2>1, SameStep
<1>21. ASSUME NEW r \in Requests, Withdraw(r) PROVE QueueStep
  <2>1. SameView
    BY <1>21 DEF Withdraw, SameView
  <2>2. QED
    BY <2>1, SameStep
<1>22. ASSUME NEW h \in Halts, HaltArrives(h) PROVE QueueStep
  <2>1. SameView
    BY <1>22 DEF HaltArrives, SameView
  <2>2. QED
    BY <2>1, SameStep
<1>23. ASSUME NEW h \in Halts, TakeStopLock(h) PROVE QueueStep
  <2>1. SameView
    BY <1>23 DEF TakeStopLock, SameView
  <2>2. QED
    BY <2>1, SameStep
<1>24. ASSUME NEW h \in Halts, MarkStopping(h) PROVE QueueStep
  <2>1. turnLock = Free /\ UNCHANGED <<exists, inbox, shipped, batch, turn, completed, sub>>
    BY <1>24 DEF MarkStopping
  <2>2. QED
    BY <2>1, LockedStep
<1>25. ASSUME NEW h \in Halts, AdapterClears(h) PROVE QueueStep
  <2>1. SameView
    BY <1>25 DEF AdapterClears, SameView
  <2>2. QED
    BY <2>1, SameStep
<1>26. ASSUME NEW h \in Halts, AdapterStopped(h) PROVE QueueStep
  <2>1. SameView
    BY <1>26 DEF AdapterStopped, SameView
  <2>2. QED
    BY <2>1, SameStep
<1>27. ASSUME NEW h \in Halts, StopCommits(h) PROVE QueueStep
  <2>1. SameView
    BY <1>27 DEF StopCommits, SameView
  <2>2. QED
    BY <2>1, SameStep
<1>28. ASSUME NEW h \in Halts, DeleteCommits(h) PROVE QueueStep
  <2>1. /\ halt[h] = "join" /\ Joined(h) /\ exists' = FALSE /\ inbox' = <<>> /\ shipped' = <<>>
        /\ UNCHANGED <<batch, turn, completed, stopping, sub, sawIdle, slot>>
    BY <1>28 DEF DeleteCommits
  <2>2. stopping /\ batch = None /\ \A t \in Inputs : ~Live(t)
    BY <2>1
  <2>3. AbstractTurn = "none" /\ AbstractTurn' = "none"
    BY <2>1, <2>2, TurnValue, TurnValueNext
  <2>4. ~AbstractFresh /\ ~AbstractFresh'
    BY <2>1, <2>2 DEF AbstractFresh
  <2>5. CASE exists
    <3>1. AbstractTurn' = AbstractTurn /\ AbstractFresh' = AbstractFresh
      BY <2>3, <2>4, FreshBoolean DEF AbstractFresh
    <3>2. TQ!Delete
      BY <2>1, <2>3, <2>5, <3>1 DEF TQ!Delete
    <3>3. QED
      BY <3>2 DEF TQ!Next, QueueStep
  <2>6. CASE ~exists
    <3>1. inbox = <<>> /\ shipped = <<>>
      BY <2>6 DEF NamesInv
    <3>2. QED
      BY <2>1, <2>3, <2>4, <2>6, <3>1, RestStep
  <2>7. QED
    BY <2>5, <2>6
<1>29. ASSUME NEW h \in Halts, HaltFinishes(h) PROVE QueueStep
  <2>1. SameView
    BY <1>29 DEF HaltFinishes, SameView
  <2>2. QED
    BY <2>1, SameStep
<1>30. ASSUME NEW h \in Halts, UnmarkStopping(h) PROVE QueueStep
  <2>1. turnLock = Free /\ UNCHANGED <<exists, inbox, shipped, batch, turn, completed, sub>>
    BY <1>30 DEF UnmarkStopping
  <2>2. QED
    BY <2>1, LockedStep
<1>31. ASSUME NEW p \in Patches, PatchChecks(p) PROVE QueueStep
  <2>1. SameView
    BY <1>31 DEF PatchChecks, SameView
  <2>2. QED
    BY <2>1, SameStep
<1>32. ASSUME NEW p \in Patches, PatchWrites(p) PROVE QueueStep
  <2>1. SameView
    BY <1>32 DEF PatchWrites, SameView
  <2>2. QED
    BY <2>1, SameStep
<1>33. ASSUME NEW p \in Patches, PatchReturns(p) PROVE QueueStep
  <2>1. SameView
    BY <1>33 DEF PatchReturns, SameView
  <2>2. QED
    BY <2>1, SameStep
<1>34. ASSUME Crash PROVE QueueStep
  <2>1. /\ sawIdle' = {} /\ batch' = None /\ completed' = completed
        /\ turn' = [u \in Inputs |-> IF Live(u) THEN "done" ELSE turn[u]]
        /\ UNCHANGED <<exists, inbox, shipped>>
    BY <1>34 DEF Crash
  <2>2. ~AbstractFresh' /\ AbstractTurn' = "none"
    <3>1. \A u \in Inputs : ~Live(u)'
      BY <2>1
    <3>2. QED
      BY <2>1, <3>1, TurnValueNext DEF AbstractFresh
  <2>3. CASE AbstractTurn = "none"
    BY <2>1, <2>2, <2>3, RestStep
  <2>4. CASE AbstractTurn # "none"
    <3>1. ~AbstractFresh
      <4>1. SUFFICES ASSUME NEW s \in Inputs, sub[s] = "enqueued", ~Busy PROVE FALSE
        BY DEF AbstractFresh
      <4>2. turnLock = <<"submit", s>>
        BY <4>1
      <4>3. \A u \in Inputs : ~Live(u)
        BY <4>1, <4>2
      <4>4. \A u \in Inputs : sub[u] # "shipping"
        BY <4>1, <4>2
      <4>5. batch = None
        BY <4>3, <4>4
      <4>6. QED
        BY <2>4, <4>3, <4>5, TurnValue
    <3>2. QED
      BY <2>1, <2>2, <2>4, <3>1, EndStep
  <2>5. QED
    BY <2>3, <2>4
<1>35. ASSUME UNCHANGED vars PROVE QueueStep
  <2>1. SameView
    BY <1>35 DEF vars, SameView
  <2>2. QED
    BY <2>1, SameStep
<1>36. QED
  BY <1>1, <1>2, <1>3, <1>4, <1>5, <1>6, <1>7, <1>8, <1>9, <1>10, <1>11, <1>12, <1>13, <1>14,
       <1>15, <1>16, <1>17, <1>18, <1>19, <1>20, <1>21, <1>22, <1>23, <1>24, <1>25, <1>26, <1>27,
       <1>28, <1>29, <1>30, <1>31, <1>32, <1>33, <1>34, <1>35 DEF Next, Submission, TurnTask,
       AgentEvent, Halting, Patching

\* At first there is nothing to see.
LEMMA QueueInit == Init => TQ!Init
<1>1. Init => AbstractTurn = "none" /\ AbstractFresh = FALSE
  BY DEF Init, AbstractTurn, AbstractFresh, Live
<1>2. QED
  BY <1>1 DEF Init, TQ!Init

\* Every behaviour of the server keeps the promise of the message queue: whole
\* inboxes, each message once and in order, one turn at a time, hand-over after
\* completion only, and no resumption of a retained inbox except by a message
\* accepted in an idle session (begin_turn, ship_queued_turn, run_turn).
THEOREM ImplementsQueue == Spec => QueueContract
<1>1. IInv /\ IInv' /\ [Next]_vars => QueueStep
  BY QueueNext DEF IInv
<1>2. QED
  BY <1>1, QueueInvariant, QueueInit, PTL DEF Spec, QueueContract, TQ!Spec, QueueStep
=============================================================================
