---------------------------- MODULE SessionTurns ----------------------------
(***************************************************************************)
(* The turn life cycle of one session: the message queue, the task that    *)
(* runs the agent, Stop and Delete, PATCH of the sandbox setting, answers  *)
(* to approval requests, and a restart of the server (main.py, with the    *)
(* rows db.py keeps and the little of agent.py that main.py depends on).   *)
(*                                                                         *)
(* The server is one asyncio thread, so a step of this module is what a    *)
(* coroutine does between two awaits that may really suspend.  Taking a    *)
(* free asyncio.Lock does not suspend.  commit_stream suspends only after  *)
(* its mutation and its publication, while it tears down the subscribers   *)
(* whose queue overflowed; every commit that publishes a frame is          *)
(* therefore a step of its own, followed by a continuation step.           *)
(*                                                                         *)
(* A message bears the name of the begin_turn call that submits it, and a  *)
(* turn the name of the first message of its batch.                        *)
(***************************************************************************)
EXTENDS Naturals, Sequences, FiniteSets

CONSTANTS
    Inputs,        \* calls of begin_turn; each one submits one message
    Cancellable,   \* those made by a WebSocket receiver or by a server tool,
                   \* whose task may be cancelled while the call is suspended
    Stops,         \* calls of POST /sessions/{id}/stop
    Deletes,       \* calls of DELETE /sessions/{id}
    Patches,       \* calls of PATCH /sessions/{id} that change the sandbox
    Requests,      \* approval requests and questions that can be open at once
    MaxCrashes,    \* bound on the restarts of the server
    LateAnswers,   \* may an answer reach a request of an abandoned agent?
    StopMayFail,   \* may adapter.stop raise?
    None

Halts == Stops \cup Deletes

ASSUME ConstantsAssumption ==
    /\ Cancellable \subseteq Inputs
    /\ Stops \cap Deletes = {}
    /\ MaxCrashes \in Nat
    /\ LateAnswers \in BOOLEAN
    /\ StopMayFail \in BOOLEAN
    /\ None \notin Inputs \cup Halts

VARIABLES
    (* rows of the database, which survive a restart *)
    exists,        \* the session's row
    status,        \* its status
    sandbox,       \* its sandbox setting
    inbox,         \* its pending_inputs, in order of acceptance
    shipped,       \* the inputs_shipped rows of its scrollback, concatenated
    (* memory of the server *)
    turnLock,      \* the holder of turn_lock
    stopLock,      \* the holder of stop_locks[session]
    stopping,      \* session \in stopping_sessions
    slot,          \* running_tasks[session]
    batch,         \* the batch ship_queued_turn has claimed and not yet started
    gens,          \* turns whose start_turn generator has not run its finally
    open,          \* the registered requests, each with the turn it blocks
    (* where each coroutine stands *)
    sub,           \* begin_turn
    sawIdle,       \* the calls of begin_turn that read the status as idle
    turn,          \* run_turn
    completed,     \* turns whose agent finished without an error
    cancelled,     \* turn tasks with a cancellation under way
    captured,      \* the sandbox setting a turn read from the session's row
    halt,          \* halted_session and the Stop or Delete around it
    target,        \* the task halted_session found in the slot
    patch,         \* update_session
    (* history *)
    retained,      \* the inbox was left alone by Stop, a failure or a restart
    crashes

rows  == <<exists, status, sandbox, inbox, shipped>>
tasks == <<turn, completed, cancelled, captured>>
calls == <<sub, sawIdle>>
halts == <<halt, target, stopping, stopLock>>
agent == <<gens, open>>
ghost == <<retained, crashes>>
vars  == <<rows, batch, turnLock, slot, agent, calls, tasks, halts, patch, ghost>>

-----------------------------------------------------------------------------
(* Types and helpers *)

Statuses == {"idle", "running", "awaiting_approval"}

SubPC   == {"new", "enqueued", "shipping", "returned", "rejected", "cancelled"}
TurnPC  == {"none", "created", "body", "commit", "approve", "closing",
            "handover", "idling", "done"}
HaltPC  == {"new", "queued", "begin", "clear", "kill", "join", "abort",
            "body", "release", "done"}
PatchPC == {"new", "named", "written", "returned", "rejected"}

Free    == <<"free">>
Holders == ({"submit", "turn"} \X Inputs) \cup ({"patch"} \X Patches)

\* task is not None and not task.done()
Live(t) == turn[t] \notin {"none", "done"}
Busy    == slot # None /\ Live(slot)

\* Turns inside run_turn's try block, with an agent at work.
InAgent(t) == turn[t] \in {"body", "commit", "approve"}

NoRequest == [r \in Requests |-> None]

-----------------------------------------------------------------------------
Init ==
    /\ exists = TRUE /\ status = "idle" /\ sandbox \in BOOLEAN
    /\ inbox = <<>> /\ shipped = <<>> /\ batch = None
    /\ turnLock = Free /\ stopLock = None /\ stopping = FALSE
    /\ slot = None /\ gens = {} /\ open = NoRequest
    /\ sub = [s \in Inputs |-> "new"] /\ sawIdle = {}
    /\ turn = [t \in Inputs |-> "none"]
    /\ completed = {} /\ cancelled = {}
    /\ captured = [t \in Inputs |-> sandbox]
    /\ halt = [h \in Halts |-> "new"] /\ target = [h \in Halts |-> None]
    /\ patch = [p \in Patches |-> "new"]
    /\ retained = FALSE /\ crashes = 0

-----------------------------------------------------------------------------
(* begin_turn and ship_queued_turn *)

\* Mutant: only the oldest message is claimed.
ShipOldest ==
    /\ inbox # <<>>
    /\ shipped' = Append(shipped, Head(inbox))
    /\ batch' = Head(inbox)
    /\ inbox' = Tail(inbox)
    /\ status' = "running"
    /\ retained' = FALSE
    /\ UNCHANGED <<exists, sandbox, crashes>>

\* db.ship_inputs: the whole inbox becomes one batch and the session runs.
ShipInputs ==
    /\ inbox # <<>>
    /\ shipped' = shipped \o inbox
    /\ batch' = Head(inbox)
    /\ inbox' = <<>>
    /\ status' = "running"
    /\ retained' = FALSE
    /\ UNCHANGED <<exists, sandbox, crashes>>

\* Under turn_lock: require the session, read its status, append to the inbox.
Enqueue(s) ==
    /\ sub[s] = "new" /\ turnLock = Free
    /\ IF exists
       THEN /\ sub' = [sub EXCEPT ![s] = "enqueued"]
            /\ sawIdle' = IF status = "idle" THEN sawIdle \cup {s} ELSE sawIdle
            /\ inbox' = Append(inbox, s)
            /\ turnLock' = <<"submit", s>>
       ELSE /\ sub' = [sub EXCEPT ![s] = "rejected"]
            /\ UNCHANGED <<sawIdle, inbox, turnLock>>
    /\ UNCHANGED <<exists, status, sandbox, shipped, batch, slot, agent,
                   tasks, halts, patch, ghost>>

\* Mutant: neither the status read nor the task in the slot is looked at.
SubmitRegardless(s) ==
    /\ sub[s] = "enqueued" /\ ~stopping
    /\ ShipInputs
    /\ sub' = [sub EXCEPT ![s] = "shipping"]
    /\ UNCHANGED <<turnLock, sawIdle, slot, agent, tasks, halts, patch>>

\* The acceptance is committed: ship it if the session was idle, has no live
\* task and is not being stopped.
SubmitToIdle(s) ==
    /\ sub[s] = "enqueued"
    /\ s \in sawIdle /\ ~Busy /\ ~stopping
    /\ ShipInputs
    /\ sub' = [sub EXCEPT ![s] = "shipping"]
    /\ UNCHANGED <<turnLock, sawIdle, slot, agent, tasks, halts, patch>>

SubmitToBusy(s) ==
    /\ sub[s] = "enqueued"
    /\ s \notin sawIdle \/ Busy \/ stopping \/ inbox = <<>>
    /\ sub' = [sub EXCEPT ![s] = "returned"]
    /\ turnLock' = Free
    /\ UNCHANGED <<rows, batch, sawIdle, slot, agent, tasks, halts, patch, ghost>>

\* running_tasks[session] = asyncio.create_task(run_turn(...)), for the batch.
StartBatch(turnNow) ==
    /\ slot' = batch
    /\ turn' = [turnNow EXCEPT ![batch] = "created"]
    /\ batch' = None
    /\ turnLock' = Free

Shipped(s) ==
    /\ sub[s] = "shipping"
    /\ StartBatch(turn)
    /\ sub' = [sub EXCEPT ![s] = "returned"]
    /\ UNCHANGED <<rows, sawIdle, agent, completed, cancelled, captured, halts,
                   patch, ghost>>

\* The task that awaits begin_turn is cancelled while a commit is suspended:
\* the lock is released, and nothing else of begin_turn runs.
CancelSubmit(s) ==
    /\ s \in Cancellable
    /\ sub[s] \in {"enqueued", "shipping"}
    /\ sub' = [sub EXCEPT ![s] = "cancelled"]
    /\ turnLock' = Free
    /\ batch' = None
    /\ UNCHANGED <<rows, sawIdle, slot, agent, tasks, halts, patch, ghost>>

-----------------------------------------------------------------------------
(* run_turn *)

\* Move task t from one await to the next; nothing else about tasks changes.
Goto(t, from, to) ==
    /\ turn[t] \in from /\ t \notin cancelled
    /\ turn' = [turn EXCEPT ![t] = to]

\* The first step reads the session's row and enters adapter.start_turn.
BeginTurn(t) ==
    /\ exists
    /\ Goto(t, {"created"}, "body")
    /\ captured' = [captured EXCEPT ![t] = sandbox]
    /\ gens' = gens \cup {t}
    /\ UNCHANGED <<rows, batch, turnLock, slot, open, calls, completed,
                   cancelled, halts, patch, ghost>>

\* An event with no bearing on the status is recorded and published.
RecordEvent(t) ==
    /\ Goto(t, {"body"}, "commit")
    /\ UNCHANGED <<rows, batch, turnLock, slot, agent, calls, completed,
                   cancelled, captured, halts, patch, ghost>>

\* A question, or an approval request with no auto-approval, is recorded.
\* The agent may have withdrawn the request while its event was queued.
RecordRequest(t, r) ==
    /\ open[r] = None
    /\ Goto(t, {"body"}, "commit")
    /\ status' = "awaiting_approval"
    /\ open' \in {open, [open EXCEPT ![r] = t]}
    /\ UNCHANGED <<exists, sandbox, inbox, shipped, batch, turnLock, slot, gens,
                   calls, completed, cancelled, captured, halts, patch, ghost>>

\* An approval request that is auto-approved is recorded with its marker ...
RecordAutoApproved(t) ==
    /\ Goto(t, {"body"}, "approve")
    /\ UNCHANGED <<rows, batch, turnLock, slot, agent, calls, completed,
                   cancelled, captured, halts, patch, ghost>>

\* ... and answered by run_turn itself, through handle_approval.
AutoApprove(t) ==
    /\ Goto(t, {"approve"}, "commit")
    /\ status' = "running"
    /\ UNCHANGED <<exists, sandbox, inbox, shipped, batch, turnLock, slot, agent,
                   calls, completed, cancelled, captured, halts, patch, ghost>>

NextEvent(t) ==
    /\ Goto(t, {"commit"}, "body")
    /\ UNCHANGED <<rows, batch, turnLock, slot, agent, calls, completed,
                   cancelled, captured, halts, patch, ghost>>

\* The generator is exhausted or raises: its finally has run, which withdraws
\* every request of the session.
AgentEnds(t) ==
    /\ Goto(t, {"body"}, "closing")
    /\ completed' \in {completed, completed \cup {t}}
    /\ gens' = gens \ {t}
    /\ open' = NoRequest
    /\ UNCHANGED <<rows, batch, turnLock, slot, calls, cancelled, captured,
                   halts, patch, ghost>>

\* run_turn's own code raises between two events (handle_approval finds the
\* request withdrawn, a draft event is refused): the generator is left open.
FailsOutside(t) ==
    /\ Goto(t, {"body", "approve"}, "closing")
    /\ UNCHANGED <<rows, batch, turnLock, slot, agent, calls, completed,
                   cancelled, captured, halts, patch, ghost>>

\* An abandoned generator is finalised by the event loop, in a task of its own.
LateClose(t) ==
    /\ t \in gens /\ turn[t] \in {"closing", "handover", "idling", "done"}
    /\ gens' = gens \ {t}
    /\ open' = NoRequest
    /\ UNCHANGED <<rows, batch, turnLock, slot, calls, tasks, halts, patch, ghost>>

\* Mutant: a turn that failed hands over too.
HandOverFailed(t) ==
    /\ turnLock = Free /\ slot \in {None, t} /\ ~stopping
    /\ ShipInputs
    /\ Goto(t, {"closing"}, "handover")
    /\ turnLock' = <<"turn", t>> /\ slot' = None
    /\ UNCHANGED <<agent, calls, completed, cancelled, captured, halts, patch>>

\* Mutant: a turn that completes while the session is stopped hands over.
HandOverStopped(t) ==
    /\ turnLock = Free /\ slot \in {None, t} /\ t \in completed
    /\ ShipInputs
    /\ Goto(t, {"closing"}, "handover")
    /\ turnLock' = <<"turn", t>> /\ slot' = None
    /\ UNCHANGED <<agent, calls, completed, cancelled, captured, halts, patch>>

\* The finally of run_turn, under turn_lock, when a next batch is shipped.
HandOver(t) ==
    /\ turnLock = Free /\ slot \in {None, t}
    /\ t \in completed /\ ~stopping
    /\ ShipInputs
    /\ Goto(t, {"closing"}, "handover")
    /\ turnLock' = <<"turn", t>> /\ slot' = None
    /\ UNCHANGED <<agent, calls, completed, cancelled, captured, halts, patch>>

HandedOver(t) ==
    /\ turn[t] = "handover" /\ t \notin cancelled
    /\ StartBatch([turn EXCEPT ![t] = "done"])
    /\ UNCHANGED <<rows, agent, calls, completed, cancelled, captured, halts,
                   patch, ghost>>

\* The finally of run_turn when nothing is shipped: the task that owns the slot
\* frees it and sets the session idle; any other leaves both alone.
ReleaseSlot(t) ==
    /\ turnLock = Free
    /\ IF slot \in {None, t}
       THEN /\ exists
            /\ Goto(t, {"closing"}, "idling")
            /\ turnLock' = <<"turn", t>> /\ slot' = None
            /\ status' = "idle"
            /\ retained' = IF t \in completed /\ ~stopping THEN retained ELSE TRUE
       ELSE /\ Goto(t, {"closing"}, "done")
            /\ UNCHANGED <<turnLock, slot, status, retained>>
    /\ UNCHANGED <<exists, sandbox, inbox, shipped, batch, agent, calls,
                   completed, cancelled, captured, halts, patch, crashes>>

\* Mutant: the slot is freed and the status left as it was.
GoIdleSilently(t) ==
    /\ turnLock = Free
    /\ t \notin completed \/ stopping \/ inbox = <<>>
    /\ Goto(t, {"closing"}, "idling")
    /\ turnLock' = <<"turn", t>> /\ slot' = None
    /\ UNCHANGED <<rows, batch, agent, calls, completed, cancelled, captured,
                   halts, patch, ghost>>

GoIdle(t) ==
    /\ t \notin completed \/ stopping \/ inbox = <<>> \/ slot \notin {None, t}
    /\ ReleaseSlot(t)

WentIdle(t) ==
    /\ Goto(t, {"idling"}, "done")
    /\ turnLock' = Free
    /\ UNCHANGED <<rows, batch, slot, agent, calls, completed, cancelled,
                   captured, halts, patch, ghost>>

\* Mutant: a task cancelled in its finally keeps turn_lock.
CancelKeepsLock(t) ==
    /\ t \in cancelled /\ Live(t)
    /\ cancelled' = cancelled \ {t}
    /\ turn' = [turn EXCEPT ![t] = IF InAgent(t) THEN "closing" ELSE "done"]
    /\ UNCHANGED <<rows, batch, turnLock, slot, agent, calls, completed, captured,
                   halts, patch, ghost>>

(* A cancellation is delivered at the await where the task stands.  A task  *)
(* that has not taken its first step never runs.  In the body it goes to    *)
(* the finally; the generator closes with it only if that is where it was   *)
(* waiting.  In the finally the rest is skipped, the lock being released.   *)
CancelTurn(t) ==
    /\ t \in cancelled /\ Live(t)
    /\ cancelled' = cancelled \ {t}
    /\ turn' = [turn EXCEPT ![t] =
                  IF InAgent(t) THEN "closing" ELSE "done"]
    /\ IF turn[t] = "body"
       THEN gens' = gens \ {t} /\ open' = NoRequest
       ELSE UNCHANGED agent
    /\ IF turn[t] \in {"handover", "idling"}
       THEN turnLock' = Free /\ batch' = None
       ELSE UNCHANGED <<turnLock, batch>>
    /\ UNCHANGED <<rows, slot, calls, completed, captured, halts, patch, ghost>>

-----------------------------------------------------------------------------
(* Answers to requests, and requests the agent withdraws *)

\* handle_approval and handle_question_answer: resolve the request, record
\* the answer, set the status.
Answer(r) ==
    /\ open[r] # None /\ exists
    /\ LateAnswers \/ InAgent(open[r])
    /\ open' = [open EXCEPT ![r] = None]
    /\ status' = "running"
    /\ UNCHANGED <<exists, sandbox, inbox, shipped, batch, turnLock, slot, gens,
                   calls, tasks, halts, patch, ghost>>

\* control_cancel_request or host_cancel: the waiter is cancelled and drops
\* its registration; no status follows.
Withdraw(r) ==
    /\ open[r] # None
    /\ open' = [open EXCEPT ![r] = None]
    /\ UNCHANGED <<rows, batch, turnLock, slot, gens, calls, tasks, halts, patch, ghost>>

-----------------------------------------------------------------------------
(* stop_session, delete_session and halted_session *)

HaltGoto(h, from, to) == halt[h] = from /\ halt' = [halt EXCEPT ![h] = to]

HaltArrives(h) ==
    /\ HaltGoto(h, "new", IF exists THEN "queued" ELSE "done")
    /\ UNCHANGED <<rows, batch, turnLock, slot, agent, calls, tasks, target,
                   stopping, stopLock, patch, ghost>>

TakeStopLock(h) ==
    /\ stopLock = None
    /\ HaltGoto(h, "queued", "begin")
    /\ stopLock' = h
    /\ UNCHANGED <<rows, batch, turnLock, slot, agent, calls, tasks, target,
                   stopping, patch, ghost>>

\* Under turn_lock: submissions are queued from now on; note the current task.
MarkStopping(h) ==
    /\ turnLock = Free
    /\ HaltGoto(h, "begin", "clear")
    /\ stopping' = TRUE
    /\ target' = [target EXCEPT ![h] = slot]
    /\ UNCHANGED <<rows, batch, turnLock, slot, agent, calls, tasks, stopLock,
                   patch, ghost>>

\* adapter.stop withdraws the session's requests ...
AdapterClears(h) ==
    /\ HaltGoto(h, "clear", "kill")
    /\ open' = NoRequest
    /\ UNCHANGED <<rows, batch, turnLock, slot, gens, calls, tasks, target,
                   stopping, stopLock, patch, ghost>>

\* ... and ends the process.  Whether it returns or raises, the task found at
\* the start is cancelled.
AdapterStopped(h) ==
    /\ HaltGoto(h, "kill", "join") \/ (StopMayFail /\ HaltGoto(h, "kill", "abort"))
    /\ cancelled' = IF target[h] # None /\ Live(target[h])
                    THEN cancelled \cup {target[h]} ELSE cancelled
    /\ UNCHANGED <<rows, batch, turnLock, slot, agent, calls, turn, completed,
                   captured, target, stopping, stopLock, patch, ghost>>

Joined(h) == target[h] # None => ~Live(target[h])

\* The task has ended: Stop commits the idle status; an error if the row is gone.
StopCommits(h) ==
    /\ h \in Stops /\ Joined(h)
    /\ IF exists
       THEN HaltGoto(h, "join", "body") /\ status' = "idle" /\ retained' = TRUE
       ELSE HaltGoto(h, "join", "release") /\ UNCHANGED <<status, retained>>
    /\ UNCHANGED <<exists, sandbox, inbox, shipped, batch, turnLock, slot, agent,
                   calls, tasks, target, stopping, stopLock, patch, crashes>>

\* Mutant: the row is deleted without waiting for the task.
DeleteUnjoined(h) ==
    /\ h \in Deletes
    /\ HaltGoto(h, "join", "body")
    /\ exists' = FALSE /\ inbox' = <<>> /\ shipped' = <<>>
    /\ UNCHANGED <<status, sandbox, batch, turnLock, slot, agent, calls, tasks,
                   target, stopping, stopLock, patch, ghost>>

\* teardown_session deletes the row, and the queue with it.
DeleteCommits(h) ==
    /\ h \in Deletes /\ Joined(h)
    /\ HaltGoto(h, "join", "body")
    /\ exists' = FALSE /\ inbox' = <<>> /\ shipped' = <<>>
    /\ UNCHANGED <<status, sandbox, batch, turnLock, slot, agent, calls, tasks,
                   target, stopping, stopLock, patch, ghost>>

\* The body's commit is published, or adapter.stop's exception is propagating
\* once the task it cancelled has ended.
HaltFinishes(h) ==
    /\ HaltGoto(h, "body", "release") \/ (Joined(h) /\ HaltGoto(h, "abort", "release"))
    /\ UNCHANGED <<rows, batch, turnLock, slot, agent, calls, tasks, target,
                   stopping, stopLock, patch, ghost>>

UnmarkStopping(h) ==
    /\ turnLock = Free
    /\ HaltGoto(h, "release", "done")
    /\ stopping' = FALSE /\ stopLock' = None
    /\ UNCHANGED <<rows, batch, turnLock, slot, agent, calls, tasks, target, patch, ghost>>

-----------------------------------------------------------------------------
(* update_session: a PATCH that changes the sandbox, perhaps with a new name *)

\* Mutant: the check is made without taking turn_lock.
PatchUnlocked(p) ==
    /\ patch[p] = "new" /\ exists /\ status = "idle" /\ ~Busy
    /\ patch' = [patch EXCEPT ![p] = "named"]
    /\ UNCHANGED <<rows, batch, turnLock, slot, agent, calls, tasks, halts, ghost>>

PatchChecks(p) ==
    /\ patch[p] = "new" /\ turnLock = Free
    /\ IF exists /\ status = "idle" /\ ~Busy
       THEN /\ patch' = [patch EXCEPT ![p] = "named"]
            /\ turnLock' = <<"patch", p>>
       ELSE /\ patch' = [patch EXCEPT ![p] = "rejected"]
            /\ UNCHANGED turnLock
    /\ UNCHANGED <<rows, batch, slot, agent, calls, tasks, halts, ghost>>

PatchWrites(p) ==
    /\ patch[p] = "named"
    /\ IF exists
       THEN /\ sandbox' = ~sandbox
            /\ patch' = [patch EXCEPT ![p] = "written"]
            /\ UNCHANGED turnLock
       ELSE /\ patch' = [patch EXCEPT ![p] = "rejected"]
            /\ turnLock' = Free
            /\ UNCHANGED sandbox
    /\ UNCHANGED <<exists, status, inbox, shipped, batch, slot, agent, calls,
                   tasks, halts, ghost>>

PatchReturns(p) ==
    /\ patch[p] = "written"
    /\ patch' = [patch EXCEPT ![p] = "returned"]
    /\ turnLock' = Free
    /\ UNCHANGED <<rows, batch, slot, agent, calls, tasks, halts, ghost>>

-----------------------------------------------------------------------------
(* A restart: the memory is lost, the rows stay, and startup resets the      *)
(* status.  Calls in flight fail; an agent that outlives the server has lost *)
(* its pipes and nobody can answer it.                                       *)
Crash ==
    /\ crashes < MaxCrashes
    /\ crashes' = crashes + 1
    /\ status' = "idle" /\ retained' = TRUE
    /\ turnLock' = Free /\ stopLock' = None /\ stopping' = FALSE
    /\ slot' = None /\ batch' = None /\ gens' = {} /\ open' = NoRequest
    /\ sub' = [s \in Inputs |-> IF sub[s] \in {"enqueued", "shipping"}
                                THEN "cancelled" ELSE sub[s]]
    /\ sawIdle' = {}
    /\ turn' = [t \in Inputs |-> IF Live(t) THEN "done" ELSE turn[t]]
    /\ cancelled' = {}
    /\ halt' = [h \in Halts |-> IF halt[h] = "new" THEN "new" ELSE "done"]
    /\ patch' = [p \in Patches |-> IF patch[p] \in {"named", "written"}
                                   THEN "rejected" ELSE patch[p]]
    /\ UNCHANGED <<exists, sandbox, inbox, shipped, completed, captured, target>>

-----------------------------------------------------------------------------
Submission(s) == Enqueue(s) \/ SubmitToIdle(s) \/ SubmitToBusy(s) \/ Shipped(s)

AgentEvent(t) ==
    \/ RecordEvent(t) \/ RecordAutoApproved(t) \/ AutoApprove(t)
    \/ \E r \in Requests : RecordRequest(t, r)

TurnTask(t) ==
    \/ BeginTurn(t) \/ NextEvent(t) \/ HandOver(t) \/ HandedOver(t)
    \/ GoIdle(t) \/ WentIdle(t) \/ CancelTurn(t) \/ LateClose(t)

Halting(h) ==
    \/ TakeStopLock(h) \/ MarkStopping(h) \/ AdapterClears(h)
    \/ AdapterStopped(h) \/ StopCommits(h) \/ DeleteCommits(h)
    \/ HaltFinishes(h) \/ UnmarkStopping(h)

Patching(p) == PatchChecks(p) \/ PatchWrites(p) \/ PatchReturns(p)

Next ==
    \/ \E s \in Inputs : Submission(s) \/ CancelSubmit(s)
    \/ \E t \in Inputs : TurnTask(t) \/ AgentEvent(t) \/ AgentEnds(t) \/ FailsOutside(t)
    \/ \E r \in Requests : Answer(r) \/ Withdraw(r)
    \/ \E h \in Halts : HaltArrives(h) \/ Halting(h)
    \/ \E p \in Patches : Patching(p)
    \/ Crash

Spec == Init /\ [][Next]_vars

(* Weak fairness of what a coroutine does once it may run; strong fairness   *)
(* of taking a lock, since asyncio.Lock serves its waiters in order.  No      *)
(* fairness of clients, of the agent, or of a cancellation from outside.      *)
Fairness ==
    /\ \A s \in Inputs : WF_vars(SubmitToIdle(s) \/ SubmitToBusy(s) \/ Shipped(s))
    /\ \A t \in Inputs : WF_vars(TurnTask(t)) /\ WF_vars(CancelTurn(t))
    /\ \A t \in Inputs : SF_vars(HandOver(t) \/ GoIdle(t))
    /\ \A h \in Halts : WF_vars(Halting(h)) /\ SF_vars(TakeStopLock(h))
    /\ \A h \in Halts : SF_vars(MarkStopping(h) \/ UnmarkStopping(h))
    /\ \A p \in Patches : WF_vars(PatchWrites(p) \/ PatchReturns(p))

FairSpec == Spec /\ Fairness

\* An agent that does not work for ever on one batch: the environment's part.
AgentsFinish == \A t \in Inputs : SF_vars(AgentEnds(t)) /\ WF_vars(AutoApprove(t))

FairAgentSpec == FairSpec /\ AgentsFinish

-----------------------------------------------------------------------------
(* Properties *)

TypeOK ==
    /\ exists \in BOOLEAN /\ status \in Statuses /\ sandbox \in BOOLEAN
    /\ inbox \in Seq(Inputs) /\ shipped \in Seq(Inputs)
    /\ batch \in Inputs \cup {None}
    /\ turnLock \in Holders \cup {Free} /\ stopLock \in Halts \cup {None}
    /\ stopping \in BOOLEAN /\ slot \in Inputs \cup {None}
    /\ gens \subseteq Inputs /\ open \in [Requests -> Inputs \cup {None}]
    /\ sub \in [Inputs -> SubPC] /\ sawIdle \subseteq Inputs
    /\ turn \in [Inputs -> TurnPC]
    /\ completed \subseteq Inputs /\ cancelled \subseteq Inputs
    /\ captured \in [Inputs -> BOOLEAN]
    /\ halt \in [Halts -> HaltPC] /\ target \in [Halts -> Inputs \cup {None}]
    /\ patch \in [Patches -> PatchPC]
    /\ retained \in BOOLEAN /\ crashes \in Nat

(* At most one task runs turns of the session at any time, and while a batch *)
(* waits for its task only the task handing over to it is still there: two   *)
(* agents never work in the session's directory (run_turn, ship_queued_turn, *)
(* halted_session).                                                          *)
OneTurn ==
    /\ \A t, u \in Inputs : Live(t) /\ Live(u) => t = u
    /\ batch # None => \A t \in Inputs : Live(t) => turn[t] = "handover"

(* A session that is not idle has a task, or one is about to be created, or  *)
(* a Stop is about to set it idle: it never shows "running" with nobody      *)
(* left to end it (begin_turn, run_turn's finally, stop_session).            *)
BusyHasOwner ==
    exists /\ status # "idle" =>
        \/ \E t \in Inputs : Live(t)
        \/ batch # None
        \/ \E h \in Halts : halt[h] = "join"

(* An accepted message waits in an idle session only if Stop, a failed turn  *)
(* or a restart left it there: no interleaving of acceptances with the end   *)
(* of a turn loses the wakeup (begin_turn against run_turn's finally).       *)
NoLostWakeup ==
    exists /\ status = "idle" /\ inbox # <<>> /\ turnLock = Free /\ ~stopping
        => retained

(* A turn runs under the sandbox setting the session shows: PATCH and the    *)
(* first step of run_turn, which reads the row without turn_lock, never      *)
(* cross (update_session, run_turn).                                         *)
SandboxFixed ==
    \A t \in Inputs : InAgent(t) => captured[t] = sandbox

(* A deleted session has no task, no batch on its way and no queue, and none *)
(* comes later: nothing writes to rows that are gone (teardown_session).     *)
DeletedIsQuiet ==
    ~exists => /\ \A t \in Inputs : ~Live(t)
               /\ batch = None /\ inbox = <<>>

(* What Stop, a failure or a restart retained is shipped only by a new       *)
(* submission to the idle session, and together with it: nothing resumes by  *)
(* itself (ship_queued_turn's two callers).                                  *)
RetainedUntilSubmission ==
    [][retained /\ shipped' # shipped /\ exists' =>
         \E s \in Inputs : /\ sub[s] = "enqueued" /\ sub'[s] = "shipping"
                           /\ shipped' = shipped \o inbox
                           /\ \E i \in 1..Len(inbox) : inbox[i] = s]_vars

(* From the moment Stop or Delete marks the session until it is released, no *)
(* batch is shipped and no turn starts, whatever completes or is submitted   *)
(* meanwhile (halted_session).                                               *)
HaltedStartsNothing ==
    [][stopping /\ stopping' => /\ batch' \in {batch, None}
                               /\ \A t \in Inputs : Live(t)' => Live(t)]_vars

(* Every Stop and Delete that is let in ends: the locks, the join of the     *)
(* turn task and the task's own need of turn_lock never wait on each other.  *)
HaltCompletes == \A h \in Halts : halt[h] = "queued" ~> halt[h] = "done"

(* An accepted message is shipped, unless the session is deleted or Stop, a  *)
(* failure or a restart retains the inbox.                                   *)
Queued(m) == \E i \in 1..Len(inbox) : inbox[i] = m
InputsDelivered == \A m \in Inputs : Queued(m) ~> (~Queued(m) \/ retained)

=============================================================================
