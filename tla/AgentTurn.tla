------------------------------ MODULE AgentTurn ------------------------------
(***************************************************************************)
(* One turn of an agent, from the process to the events run_turn consumes: *)
(* ClaudeCodeAdapter and PiAdapter (agent.py) and ServerTools              *)
(* (host_tools.py).  The agent asks for permissions and answers (natives)  *)
(* and calls tools of the server (calls), which run one at a time, some    *)
(* only after an approval.                                                 *)
(*                                                                         *)
(* Claude's native requests are answered by the generator itself, which    *)
(* waits; Pi's by tasks of their own.  A step is what a task does between  *)
(* two awaits that may suspend.                                            *)
(***************************************************************************)
EXTENDS Naturals, SequencesExt

CONSTANTS
    Natives,       \* permission requests and questions of the agent
    Calls,         \* calls of server tools
    Gated,         \* those that need an approval
    Buffer,        \* messages the agent can write before they are read
    None

ASSUME AgentTurnAssumption ==
    /\ Natives \cap Calls = {} /\ Gated \subseteq Calls /\ Buffer \in Nat
    /\ None \notin Natives \cup Calls \cup {"allow", "deny", "error"}

Asks == Natives \cup Calls

VARIABLES
    kind,          \* "claude" or "pi"
    \* the agent
    proc,          \* its process
    pipe,          \* its stdout
    sent, withdrawn,
    \* the adapter
    reader,        \* ServerTools._read, reader
    events,        \* ServerTools.events, queue
    call,          \* a task in ServerTools.calls, server_calls
    line,          \* who holds or waits for execution_lock, server_tool_lock
    pending,       \* pending_approvals and pending_questions
    decision,      \* their futures
    resolvers,     \* Pi's tasks resolve_approval and resolve_question
    replies,       \* written to the agent
    registered,    \* the process is in processes
    found,         \* adapter.stop has found it there
    \* the turn
    gen,           \* start_turn
    held,          \* the native request it waits for
    shown,         \* requests it has yielded
    stop           \* adapter.stop, and the cancellation of the turn after it

agentVars   == <<proc, pipe, sent, withdrawn>>
futureVars  == <<pending, decision, replies>>
turnVars    == <<gen, held, shown>>
vars == <<kind, agentVars, reader, events, call, line, futureVars, resolvers, registered,
          found, turnVars, stop>>

claude == kind = "claude"
pi == kind = "pi"

Init ==
    /\ kind \in {"claude", "pi"}
    /\ proc = "up" /\ pipe = <<>> /\ sent = {} /\ withdrawn = {}
    /\ reader = "on" /\ events = <<>>
    /\ call = [c \in Calls |-> "none"] /\ line = <<>>
    /\ pending = {} /\ decision = [x \in Asks |-> None] /\ replies = [x \in Asks |-> 0]
    /\ resolvers = {}
    /\ registered = TRUE /\ found = FALSE
    /\ gen = "starting" /\ held = None /\ shown = {} /\ stop = "none"

-----------------------------------------------------------------------------
(* The agent *)

\* What it writes once nobody reads it any more has no effect and is left out.
AgentSays(m) ==
    /\ proc = "up" /\ gen # "starting" /\ reader = "on" /\ Len(pipe) < Buffer
    /\ pipe' = Append(pipe, m)

AgentAsks(x) ==
    /\ x \notin sent /\ None \notin sent
    /\ AgentSays(<<IF x \in Calls THEN "call" ELSE "native", x>>)
    /\ sent' = sent \cup {x}
    /\ UNCHANGED <<kind, resolvers, proc, withdrawn, reader, events, call, line, futureVars,
                   registered, found, turnVars, stop>>

\* control_cancel_request, host_cancel.
AgentWithdraws(c) ==
    /\ c \in sent \ withdrawn
    /\ AgentSays(<<"cancel", c>>)
    /\ withdrawn' = withdrawn \cup {c}
    /\ UNCHANGED <<kind, resolvers, proc, sent, reader, events, call, line, futureVars,
                   registered, found, turnVars, stop>>

\* result, agent_settled: no request is open, and there will be none.
AgentSettles ==
    /\ None \notin sent /\ \A x \in sent : replies[x] > 0 \/ x \in withdrawn
    /\ AgentSays(<<"done", None>>)
    /\ sent' = sent \cup {None}
    /\ UNCHANGED <<kind, resolvers, proc, withdrawn, reader, events, call, line, futureVars,
                   registered, found, turnVars, stop>>

\* It exits, after its result or without one; what it has started may live on and
\* hold its output open.
AgentExits ==
    /\ proc # "dead" /\ proc' \in {"left", "dead"} \ {proc}
    /\ UNCHANGED <<kind, resolvers, pipe, sent, withdrawn, reader, events, call, line,
                   futureVars, registered, found, turnVars, stop>>

-----------------------------------------------------------------------------
(* Calls of server tools *)

InLine(c) == call[c] \in {"queued", "asking", "running", "cleaning"}
Live(c) == InLine(c) \/ call[c] \in {"created", "replying", "failing"}
LiveCalls == {c \in Calls : Live(c)}

Replied(x) == replies' = [replies EXCEPT ![x] = @ + 1]

\* Who is left of the line q when the calls S leave it.
Without(q, S) == FoldLeft(LAMBDA left, c : IF c \in S THEN left ELSE Append(left, c), <<>>, q)

\* What becomes of a call whose task is cancelled.  One that runs cleans up and
\* holds the lock meanwhile; one whose reply is on its way has given it.
Cancelled(c) ==
    IF call[c] \in {"running", "cleaning"} THEN "cleaning"
    ELSE IF call[c] = "replying" /\ pi THEN "late"
    ELSE IF call[c] \in {"replying", "failing"} THEN "replied" ELSE "dropped"

\* Pi's task tells the agent, also when it is cancelled while its result is written;
\* not when it has not begun or writes an error.
ToldOfCancel == {c \in Calls : pi /\ call[c] \in {"queued", "asking", "replying"}}

\* Mutant: a cancelled call stays in the line for the lock.
CancelLeavingLock(S) ==
    /\ call' = [c \in Calls |-> IF c \in S THEN Cancelled(c) ELSE call[c]]
    /\ pending' = pending \ S
    /\ UNCHANGED line
    /\ replies' = [x \in Asks |->
                    IF x \in S \cap ToldOfCancel THEN replies[x] + 1 ELSE replies[x]]

\* Mutant: a cancelled call of Claude is answered like Pi's.
CancelReplying(S) ==
    /\ call' = [c \in Calls |-> IF c \in S THEN Cancelled(c) ELSE call[c]]
    /\ pending' = pending \ S
    /\ line' = Without(line, {c \in S : Cancelled(c) = "dropped"})
    /\ replies' = [x \in Asks |-> IF x \in S THEN replies[x] + 1 ELSE replies[x]]

\* The tasks of the calls S are cancelled: those that wait leave the line and
\* withdraw their approval.
CancelCalls(S) ==
    /\ call' = [c \in Calls |-> IF c \in S THEN Cancelled(c) ELSE call[c]]
    /\ pending' = pending \ S
    /\ line' = Without(line, {c \in S : Cancelled(c) = "dropped"})
    /\ replies' = [x \in Asks |->
                    IF x \in S \cap ToldOfCancel THEN replies[x] + 1 ELSE replies[x]]

\* The first step of a task: it waits for the lock.
Enter(c) ==
    /\ call[c] = "created"
    /\ call' = [call EXCEPT ![c] = "queued"] /\ line' = Append(line, c)
    /\ UNCHANGED <<kind, resolvers, agentVars, reader, events, futureVars, registered,
                   found, turnVars, stop>>

\* Mutant: the approval is inherited, as that of a normal command is.
TakeLockApproved(c) ==
    /\ call[c] = "queued" /\ Head(line) = c
    /\ call' = [call EXCEPT ![c] = "running"]
    /\ UNCHANGED <<kind, resolvers, agentVars, reader, events, line, futureVars, registered,
                   found, turnVars, stop>>

\* _approve_server_action, approve_server_action; other calls need no approval.
TakeLock(c) ==
    /\ call[c] = "queued" /\ Head(line) = c
    /\ \/ /\ c \in Gated
          /\ call' = [call EXCEPT ![c] = "asking"]
          /\ pending' = pending \cup {c} /\ events' = Append(events, <<"approval", c>>)
       \/ /\ c \notin Gated
          /\ call' = [call EXCEPT ![c] = "running"] /\ UNCHANGED <<pending, events>>
    /\ UNCHANGED <<kind, resolvers, agentVars, reader, line, decision, replies, registered,
                   found, turnVars, stop>>

\* The lock is free again and the reply is written.
Answers(c, how) ==
    /\ call' = [call EXCEPT ![c] = how] /\ line' = Tail(line) /\ Replied(c)

\* execute_host_command: only an approval by the user runs the command.
Decided(c) ==
    /\ call[c] = "asking" /\ decision[c] # None
    /\ pending' = pending \ {c}
    /\ \/ /\ decision[c] = "allow"
          /\ call' = [call EXCEPT ![c] = "running"] /\ UNCHANGED <<line, replies>>
       \/ decision[c] = "deny" /\ Answers(c, "replying")
       \/ decision[c] = "error" /\ Answers(c, "failing")
    /\ UNCHANGED <<kind, resolvers, agentVars, reader, events, decision, registered, found,
                   turnVars, stop>>

\* With a result or an exception.
Executed(c) ==
    /\ call[c] = "running"
    /\ Answers(c, "replying") \/ Answers(c, "failing")
    /\ UNCHANGED <<kind, resolvers, agentVars, reader, events, pending, decision, registered,
                   found, turnVars, stop>>

\* A cancelled call has cleaned up.
Cleaned(c) ==
    /\ call[c] = "cleaning"
    /\ call' = [call EXCEPT ![c] = "dropped"] /\ line' = Tail(line)
    /\ IF pi THEN Replied(c) ELSE UNCHANGED replies
    /\ UNCHANGED <<kind, resolvers, agentVars, reader, events, pending, decision, registered,
                   found, turnVars, stop>>

\* The reply has left.
Drained(c) ==
    /\ call[c] \in {"replying", "failing"}
    /\ call' = [call EXCEPT ![c] = "replied"]
    /\ UNCHANGED <<kind, resolvers, agentVars, reader, events, line, futureVars, registered,
                   found, turnVars, stop>>

-----------------------------------------------------------------------------
(* The reader *)

Create(c) == call' = [call EXCEPT ![c] = "created"]

\* Mutant: Pi's buffered requests are served although Stop has revoked dispatch.
ReadCallRegardless(c) == Create(c) /\ UNCHANGED replies

\* Pi refuses a call of a process that is no longer registered.
ReadCall(c) ==
    IF pi /\ ~registered
    THEN call' = [call EXCEPT ![c] = "replied"] /\ Replied(c)
    ELSE Create(c) /\ UNCHANGED replies

\* _read, handle_message.  Claude's native requests go through to the generator,
\* Pi's are registered here and its result ends the queue.
Read ==
    /\ reader = "on" /\ pipe # <<>> /\ pipe' = Tail(pipe)
    /\ LET x == Head(pipe)[2] IN
       \/ /\ Head(pipe)[1] = "native" /\ claude
          /\ events' = Append(events, Head(pipe))
          /\ UNCHANGED <<call, line, pending, replies, resolvers>>
       \/ /\ Head(pipe)[1] = "native" /\ pi
          /\ events' = Append(events, <<"approval", x>>) /\ pending' = pending \cup {x}
          /\ resolvers' = resolvers \cup {x} /\ UNCHANGED <<call, line, replies>>
       \/ /\ Head(pipe)[1] = "call"
          /\ ReadCall(x) /\ UNCHANGED <<events, line, pending, resolvers>>
       \/ /\ Head(pipe)[1] = "cancel"
          /\ CancelCalls({x} \cap LiveCalls) /\ UNCHANGED <<events, resolvers>>
       \/ /\ Head(pipe)[1] = "done"
          /\ events' = events \o
                         (IF pi THEN <<Head(pipe), <<"eof", None>> >> ELSE <<Head(pipe)>>)
          /\ UNCHANGED <<call, line, pending, replies, resolvers>>
    /\ UNCHANGED <<kind, proc, sent, withdrawn, reader, decision, registered, found,
                   turnVars, stop>>

ReaderEnds == reader' = "done" /\ events' = Append(events, <<"eof", None>>)

ReadEOF ==
    /\ reader = "on" /\ pipe = <<>> /\ proc = "dead" /\ ReaderEnds
    /\ UNCHANGED <<kind, resolvers, agentVars, call, line, futureVars, registered, found,
                   turnVars, stop>>

\* A line that is too long or cannot be understood ends the reader, as Pi's
\* approval of a call it has not announced does.
ReadFails ==
    /\ reader = "on" /\ pipe # <<>> /\ pipe' = Tail(pipe) /\ ReaderEnds
    /\ UNCHANGED <<kind, resolvers, proc, sent, withdrawn, call, line, futureVars,
                   registered, found, turnVars, stop>>

-----------------------------------------------------------------------------
(* Requests *)

\* send_approval, send_answer.
Answer(x, behavior) ==
    /\ x \in shown \cap pending /\ decision[x] = None
    /\ decision' = [decision EXCEPT ![x] = behavior]
    /\ UNCHANGED <<kind, resolvers, agentVars, reader, events, call, line, pending, replies,
                   registered, found, turnVars, stop>>

\* resolve_approval, resolve_question: a cleared request is cancelled.
ResolveNative(n) ==
    /\ n \in resolvers /\ decision[n] # None
    /\ resolvers' = resolvers \ {n} /\ pending' = pending \ {n} /\ Replied(n)
    /\ decision' = [decision EXCEPT ![n] = None]
    /\ UNCHANGED <<kind, agentVars, reader, events, call, line, registered, found,
                   turnVars, stop>>

\* _clear_session_approvals
Clear ==
    /\ decision' = [x \in Asks |-> IF x \in pending /\ decision[x] = None THEN "error"
                                   ELSE decision[x]]
    /\ pending' = {}

-----------------------------------------------------------------------------
(* The generator start_turn *)

\* stop_process: the group of a process that has not exited.
Killed == IF proc = "up" THEN "dead" ELSE proc

\* Pi's process is terminated when it fails.
Handshake ==
    /\ gen = "starting"
    /\ \/ gen' = "running" /\ UNCHANGED proc
       \/ gen' = "closing" /\ proc' = IF pi THEN Killed ELSE proc
    /\ UNCHANGED <<kind, resolvers, pipe, sent, withdrawn, reader, events, call, line,
                   futureVars, registered, found, held, shown, stop>>

\* It takes the next event.  Claude's native request is registered and yielded,
\* and the generator waits for its answer.
Take ==
    /\ gen = "running" /\ events # <<>> /\ events' = Tail(events)
    /\ LET x == Head(events)[2] IN
       \/ /\ Head(events)[1] = "native"
          /\ pending' = pending \cup {x} /\ shown' = shown \cup {x}
          /\ gen' = "held" /\ held' = x
       \/ /\ Head(events)[1] = "approval"
          /\ shown' = shown \cup {x} /\ UNCHANGED <<pending, gen, held>>
       \/ Head(events)[1] = "done" /\ UNCHANGED <<pending, shown, gen, held>>
       \/ Head(events)[1] = "eof" /\ gen' = "exiting" /\ UNCHANGED <<pending, shown, held>>
    /\ UNCHANGED <<kind, resolvers, agentVars, reader, call, line, decision, replies,
                   registered, found, stop>>

\* The answer goes to the agent; a request that was cleared gives an error.
Resume ==
    /\ gen = "held" /\ decision[held] # None
    /\ pending' = pending \ {held}
    /\ IF decision[held] = "error" THEN UNCHANGED replies ELSE Replied(held)
    /\ gen' = "running" /\ held' = None /\ decision' = [decision EXCEPT ![held] = None]
    /\ UNCHANGED <<kind, resolvers, agentVars, reader, events, call, line, registered,
                   found, shown, stop>>

\* Claude is waited for, Pi terminated.
Exited ==
    /\ gen = "exiting" /\ (pi \/ proc = "dead")
    /\ gen' = "closing" /\ proc' = Killed
    /\ UNCHANGED <<kind, resolvers, pipe, sent, withdrawn, reader, events, call, line,
                   futureVars, registered, found, held, shown, stop>>

Awaiting == gen \in {"starting", "running", "held", "exiting"}

\* Mutant: a turn that waits for an answer is joined, not cancelled.
CancelUnlessHeld ==
    /\ Awaiting /\ gen # "held" /\ gen' = "closing" /\ held' = None
    /\ pending' = pending \ {held}
    /\ UNCHANGED <<kind, resolvers, agentVars, reader, events, call, line, decision, replies,
                   registered, found, shown, stop>>

\* halted_session and the shutdown cancel the task of the turn.
Cancel ==
    /\ Awaiting /\ gen' = "closing" /\ held' = None
    /\ pending' = pending \ {held}
    /\ UNCHANGED <<kind, resolvers, agentVars, reader, events, call, line, decision, replies,
                   registered, found, shown, stop>>

\* So they do when it is in its finally already: the rest of that is skipped, once
\* what it gathers has ended.
CancelFinally ==
    /\ gen \in {"reading", "joining", "stopping", "killed"}
    /\ gen = "joining" => LiveCalls = {}
    /\ gen' = "cut"
    /\ UNCHANGED <<kind, resolvers, agentVars, reader, events, call, line, futureVars,
                   registered, found, held, shown, stop>>

ReaderStops == IF reader = "on" THEN ReaderEnds ELSE UNCHANGED <<reader, events>>

\* ServerTools.close: the reader and the calls.
CloseTools == CancelCalls(LiveCalls) /\ ReaderStops

\* The finally begins.  Claude's tools are closed; Pi's reader is cancelled,
Close ==
    /\ gen = "closing"
    /\ IF claude THEN gen' = "joining" /\ CloseTools
       ELSE gen' = "reading" /\ ReaderStops /\ UNCHANGED <<call, line, pending, replies>>
    /\ UNCHANGED <<kind, resolvers, agentVars, decision, registered, found, held, shown, stop>>

\* and then its calls.
CloseCalls ==
    /\ gen = "reading" /\ gen' = "joining" /\ CancelCalls(LiveCalls)
    /\ UNCHANGED <<kind, resolvers, agentVars, reader, events, decision, registered, found,
                   held, shown, stop>>

\* Mutant: the calls are not waited for.
JoinNobody ==
    /\ gen = "joining"
    /\ gen' = "stopping"
    /\ IF pi THEN Clear /\ registered' = FALSE ELSE UNCHANGED <<pending, decision, registered>>
    /\ UNCHANGED <<kind, resolvers, agentVars, reader, events, call, line, replies, found, held,
                   shown, stop>>

\* Every call has ended.  Pi forgets its process before it terminates it.
Joined ==
    /\ gen = "joining" /\ LiveCalls = {}
    /\ gen' = "stopping"
    /\ IF pi THEN Clear /\ registered' = FALSE ELSE UNCHANGED <<pending, decision, registered>>
    /\ UNCHANGED <<kind, resolvers, agentVars, reader, events, call, line, replies, found, held,
                   shown, stop>>

Kill ==
    /\ gen = "stopping" /\ gen' = "killed" /\ proc' = Killed
    /\ UNCHANGED <<kind, resolvers, pipe, sent, withdrawn, reader, events, call, line,
                   futureVars, registered, found, held, shown, stop>>

\* Claude's process and requests are forgotten; Pi's resolvers cancelled.
Finish ==
    /\ gen = "killed" /\ gen' = "ended" /\ registered' = FALSE
    /\ IF claude THEN Clear /\ UNCHANGED resolvers
       ELSE resolvers' = {} /\ UNCHANGED <<pending, decision>>
    /\ UNCHANGED <<kind, agentVars, reader, events, call, line, replies, found, held, shown,
                   stop>>

-----------------------------------------------------------------------------
(* adapter.stop, then the cancellation *)

\* Claude closes the tools, Pi revokes dispatch and cancels the calls.
StopBegins ==
    /\ stop = "none" /\ gen # "ended" /\ stop' = "closing"
    /\ IF claude
       THEN CloseTools /\ UNCHANGED <<registered, found>>
       ELSE /\ CancelCalls(LiveCalls) /\ UNCHANGED <<reader, events>>
            /\ registered' = FALSE /\ found' = registered
    /\ UNCHANGED <<kind, resolvers, agentVars, decision, turnVars>>

\* The calls have ended.
StopClears ==
    /\ stop = "closing" /\ LiveCalls = {} /\ stop' = "cleared" /\ Clear
    /\ found' = IF claude THEN registered ELSE found
    /\ UNCHANGED <<kind, resolvers, agentVars, reader, events, call, line, replies, registered,
                   turnVars>>

StopKills ==
    /\ stop = "cleared" /\ stop' = "stopped"
    /\ IF found THEN proc' = Killed /\ registered' = FALSE ELSE UNCHANGED <<proc, registered>>
    /\ UNCHANGED <<kind, resolvers, pipe, sent, withdrawn, reader, events, call, line,
                   futureVars, found, turnVars>>

-----------------------------------------------------------------------------
Agent ==
    \/ \E x \in Asks : AgentAsks(x)
    \/ \E c \in Calls : AgentWithdraws(c)
    \/ AgentSettles \/ AgentExits

Call(c) ==
    Enter(c) \/ TakeLock(c) \/ Decided(c) \/ Executed(c) \/ Cleaned(c) \/ Drained(c)

Turn ==
    \/ Handshake \/ Take \/ Resume \/ Exited
    \/ Close \/ CloseCalls \/ Joined \/ Kill \/ Finish

Stop == StopBegins \/ StopClears \/ StopKills

Next ==
    \/ Agent \/ Read \/ ReadEOF \/ ReadFails \/ Turn \/ Cancel \/ CancelFinally \/ Stop
    \/ \E c \in Calls : Call(c)
    \/ \E n \in Natives : ResolveNative(n)
    \/ \E x \in Asks, b \in {"allow", "deny"} : Answer(x, b)

Spec == Init /\ [][Next]_vars

\* Tasks that can run do.  A handshake ends by its timeout and a command by its
\* own, and an agent that is up reads what is written to it; nothing obliges it
\* to exit, or the user to answer.
Fairness ==
    /\ WF_vars(Read \/ ReadEOF) /\ WF_vars(Turn) /\ WF_vars(StopClears \/ StopKills)
    /\ WF_vars(stop = "stopped" /\ Cancel)
    /\ \A c \in Calls : WF_vars(Call(c))
    /\ \A n \in Natives : WF_vars(ResolveNative(n))

FairSpec == Spec /\ Fairness

-----------------------------------------------------------------------------
(* Properties *)

Messages == {"native", "call", "cancel", "done", "approval", "eof"} \X (Asks \cup {None})

CallStates == {"none", "created", "queued", "asking", "running", "cleaning",
               "replying", "failing", "replied", "dropped", "late"}

\* Every variable has a value the code can give it.
TypeOK ==
    /\ kind \in {"claude", "pi"} /\ proc \in {"up", "left", "dead"}
    /\ pipe \in Seq(Messages) /\ events \in Seq(Messages)
    /\ sent \subseteq Asks \cup {None} /\ withdrawn \subseteq Calls
    /\ reader \in {"on", "done"}
    /\ call \in [Calls -> CallStates]
    /\ line \in Seq(Calls)
    /\ pending \subseteq Asks /\ resolvers \subseteq Natives
    /\ decision \in [Asks -> {None, "allow", "deny", "error"}]
    /\ replies \in [Asks -> Nat] /\ registered \in BOOLEAN /\ found \in BOOLEAN
    /\ gen \in {"starting", "running", "held", "exiting", "closing", "reading", "joining",
                "stopping", "killed", "ended", "cut"}
    /\ held \in Natives \cup {None} /\ (gen = "held" <=> held # None)
    /\ shown \subseteq Asks /\ stop \in {"none", "closing", "cleared", "stopped"}

\* The agent gets at most one reply to a request, save from a call of Pi's that is
\* cancelled while its reply is being written: that one tells of the cancellation
\* too.  A call whose reply was written whole has exactly that one, and Claude's
\* that was dropped has none.
OneReply ==
    /\ \A n \in Natives : replies[n] <= 1
    /\ \A c \in Calls :
         /\ replies[c] <= IF pi /\ call[c] = "late" THEN 2 ELSE 1
         /\ call[c] = "replied" => replies[c] = 1
         /\ claude /\ call[c] = "dropped" => replies[c] = 0

\* A command outside the sandbox runs by the user's decision only: not by the end
\* of the session, not by a cancellation, not by the agent's own permissions.
RunsByApproval == \A c \in Gated : call[c] = "running" => decision[c] = "allow"

\* The lock is held by a live call, also while that cleans up, and those that wait
\* are in line for it.
LockIsLive ==
    /\ Range(line) = {c \in Calls : InLine(c)}
    /\ \A c \in Calls : call[c] \in {"asking", "running", "cleaning"} => Head(line) = c

\* A turn that came to the end of its finally leaves no call, no request, no reader
\* and no process it could still signal.  Stop leaves no call and no process
\* either, whatever became of the turn; save Pi's, when the turn was about to
\* terminate that itself: a cancellation may yet keep it from doing so.
Reaped ==
    /\ gen = "ended" =>
         /\ LiveCalls = {} /\ pending = {} /\ resolvers = {}
         /\ reader = "done" /\ proc # "up" /\ ~registered
    /\ stop = "stopped" =>
         /\ LiveCalls = {} /\ ~registered
         /\ proc = "up" => pi /\ gen \in {"stopping", "cut"}

\* Once Stop has begun no call begins to ask or to run, whatever is buffered.
StopStartsNothing ==
    [][stop # "none" =>
         \A c \in Calls : call'[c] \in {"asking", "running"} => call'[c] = call[c]]_vars

\* Stop ends the turn, also one that meets a buffered request after the adapter
\* has cleared the requests; and when Pi's process and all it started have ended, or
\* its output is no longer read, its turn ends.  A turn ends with its finally or is
\* cut there.
TurnEnds ==
    stop # "none" \/ (pi /\ (proc = "dead" \/ reader = "done")) ~> gen \in {"ended", "cut"}

\* "A pending question blocks the turn the same way an approval does; unblock it
\* too so a stop / process exit doesn't hang" (_clear_session_approvals).
ExitEndsTurn == proc = "dead" ~> gen \in {"ended", "cut"}
=============================================================================
