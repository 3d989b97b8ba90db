# Verification of agent-ui-server

agent-ui-server runs coding agents (Claude Code, Pi) on behalf of clients that
talk to it over HTTP and WebSockets. It is one asyncio process with a SQLite
database. These TLA+ modules model what is concurrent and stateful in it, TLC
checks them on small instances, and TLAPS proves what it can for all instances.

Source paths below are relative to `src/agent_ui_server/` unless they begin
with `docs/`, `tests/` or `README.md`.

## 1. The system

### 1.1 Concurrency

There is one thread of Python code. A coroutine runs until an `await` that
really suspends, so what the modules interleave is what coroutines do between
two such awaits:

* Taking a free `asyncio.Lock` does not suspend; a contended one queues its
  waiters in order.
* `stream_locks[session]` is never held across a suspension. `commit_stream`
  runs its mutation and fills the subscribers' queues as one step. It suspends
  only afterwards, in `teardown_subscribers`, when a queue has overflowed.
* `turn_lock` (one for the whole server) is held across such commits.
* `create_task` runs nothing of the task; a task cancelled before its first step
  never runs, not even its `finally`.
* A REST handler runs to its end. The receiver of a WebSocket is cancelled when
  the socket closes (`session_websocket`), and a server tool when its agent
  withdraws the call: a `begin_turn` or `begin_bash` that they await is
  abandoned at the suspension where it stands.

### 1.2 Components

| Component | State | Operations | Talks to |
|---|---|---|---|
| Turns and message queue (`main.py`, `db.py`) | `sessions.status`, `sandbox`, `pending_inputs`, `inputs_shipped` rows; `running_tasks`, `stopping_sessions`, `stop_locks`, `turn_lock` | `begin_turn`, `ship_queued_turn`, `run_turn`, answers, Stop, Delete, PATCH, startup | adapters (generator of events), event stream |
| Shell commands (`main.py`, `shell.py`) | `bash_tasks`, process group | `begin_bash`, `run_bash`, `cancel_bash`, `run_command` | Stop and Delete, event stream |
| Event stream (`main.py`, `streaming.py`) | scrollback, `active_streams`, `subscribers`, their queues | `commit_stream`, `session_websocket`, `write_subscriber`, `DraftRegistry` | every component that commits |
| Agent adapters (`agent.py`) | processes, queue of events, pending approvals and questions | `start_turn`, `send_approval`, `send_answer`, `stop` | `run_turn`, server tools |
| Server tools (`host_tools.py`, `session_tools.py`, `asset_tools.py`) | table of calls, execution lock | read loop, call, cancel, close | adapters, `begin_turn` of other sessions |
| Native blocks (`streaming.py`) | open and finished blocks of provider output | start, update, finish, interrupt | `run_turn` |
| Projects, worktrees, sessions (`main.py`, `git.py`, `db.py`) | rows and directories | create, delete, list | git, turns |
| File tree service (`file_tree.py`, `main.py`) | shared trees, reservations, path budget, watches, snapshots | acquire, subscribe, release, scan, reconcile, rebuild, close | a WebSocket of its own |
| Scrollback pages (`db.py`) | none of its own | pages before and after a cursor | REST, WebSocket replay |
| Sandbox, network guard, usage, catalogue, assets, images, actions | settings tables, files | command lines, parsing, file serving | adapters, front end |

### 1.3 What is hard, and what makes each component correct

*Turns.* Submissions, the end of a turn, Stop, Delete, PATCH, answers and
restarts meet on four pieces of state (the status, the inbox, the task in the
slot, the stopping mark) of which two are persistent. Correct means: one turn at
a time; whole inboxes delivered once and in order; no message forgotten by a
wakeup that crosses the end of a turn; nothing resumed that Stop, a failure or a
restart retained; a session that is busy has somebody who will end it; Stop and
Delete terminate although the task they join needs the lock they use.

*Shell commands.* A command ends by itself, at its deadline, by Stop, by Delete,
with descendants that keep its pipes open or outlive it. Correct means: one command at
a time but for those a Stop has taken out of its slot, one result per command, no
process of a command that its deadline or a Stop has ended while it ran, nothing
written after the Stop. How far the code falls short of the first and the third is in
section 4.

*Event stream.* Replay and live frames must join exactly at the registration;
a slow client must be cut off rather than served a stream with a hole; a block
of output has one final row whatever interrupts it, unless an error in mid-turn cuts it
and it ends all the same (section 4).

*Projects and worktrees.* The handlers check, wait for git, and then write rows,
while others create, remove, start work or delete the project, and git may fail,
time out after its work, or be overtaken by a user. Correct means: no directory is
removed under a session whose turn or whose command in the slot works there, no session changes its directory, no worktree
is made and forgotten, and no request waits for ever for the lock.

*Agents and their tools.* A turn is a generator that reads a queue of events, a task
that reads the agent's output, tasks for the calls of server tools, which take turns
on a lock and may wait for the user, and, beside them, Stop, the agent's exit and the
withdrawal of calls. Correct means: a command outside the sandbox runs by the user's
decision only; nothing starts once Stop has begun, whatever is still buffered; no
request is answered twice, save by a call that is cancelled while it writes its answer;
the lock is never left to a dead call; a stopped turn ends, and unless it is cancelled in
its `finally` leaves no process it could signal, no task and no open request.

*File trees.* Clients share one tree and one inotify per directory. They come, go and
are cancelled around scans that run in threads, batches of events, rebuilds, losses
and the shutdown, under a budget of paths that all trees share; and the disk changes
between any two system calls of a scan. Correct means: a tree lives exactly as long as
somebody uses it or waits for it, unless a cancellation meets whoever should end it; reservations and the budget stay exact; a lost tree
is told, and before anything older; once nothing is left to read, a client shows the
disk and every directory it shows is watched.

## 2. Modules

| Module | Models | Checked by |
|---|---|---|
| `SessionTurns` | turns and message queue of one session | `turns_*` |
| `TurnQueue` | the contract of the message queue, abstractly | `turns_hostile` (refinement) |
| `SessionTurnsQueue` | the refinement mapping | `turns_hostile` |
| `SessionTurnsProofs` | theorems about `SessionTurns`; it implements `TurnQueue` | TLAPS |
| `ShellCommands` | shell commands of one session | `shell` |
| `SessionStream` | transcript, drafts and subscribers of one session | `stream` |
| `SessionStreamProofs` | theorems about `SessionStream` | TLAPS |
| `Worktrees` | projects, worktrees, sessions and git | `worktrees` |
| `WorktreesProofs` | theorems about `Worktrees` | TLAPS |
| `ShellCommandsProofs` | theorems about `ShellCommands` | TLAPS |
| `AgentTurn` | a turn of either adapter with its server tools | `agent` |
| `AgentTurnProofs` | theorems about `AgentTurn` | TLAPS |
| `FileTrees` | who shares which file tree, for how long | `filetrees*` |
| `FileTreesProofs` | theorems about `FileTrees` | TLAPS |
| `FoldLemmas` | folds over sets and sequences, for the proofs | TLAPS |
| `FileTreeSync` | how one tree follows the disk | `filesync*` |
| `FileTreeSyncProofs` | theorems about `FileTreeSync` | TLAPS |
| `MC...` | instances for TLC (symmetry only) | |

The properties of a module stand at its end; operators marked *Mutant* in a
comment are faulty variants of the definition that follows, used to check that
the properties notice such a fault.

### 2.1 SessionTurns

One session is enough: sessions share only `turn_lock`, and another session
holding it is the same as the lock being taken late. A message has the name of
the `begin_turn` call that submits it; a turn has the name of the first message
of its batch.

* `Enqueue` is `begin_turn` up to the commit of the acceptance; `SubmitToIdle`
  or `SubmitToBusy` is its decision afterwards, `Shipped` the creation of the
  task. `sawIdle` is the status `begin_turn` read *before* that commit.
* `BeginTurn` to `CancelTurn` are `run_turn`. The agent is what its generator may
  yield: events, requests, its end, an error. `gens` and `open` are the part of
  the adapters `main.py` depends on: whether the generator's `finally` has run,
  and which requests can still be answered.
* `HandOver` and `GoIdle` are the two ways through the `finally`.
* `TakeStopLock` to `UnmarkStopping` are `halted_session` with the body of
  `stop_session` or `teardown_session`.
* `Crash` is the end of the process and the next startup.

`Cancellable`, `LateAnswers` and `StopMayFail` switch on failures of the
environment: cancelled submissions, answers that reach a request whose turn has
failed, an adapter whose `stop` raises. `retained` is a history variable: Stop, a
failure or a restart left the inbox alone.

### 2.2 ShellCommands

`LogCommand` to `CancelBegin` are `begin_bash`; `Spawn` to `CancelCommitting` are
`run_bash` with `run_command` inside; `CancelBash`, `NothingToCancel` and
`HaltEnds` are `cancel_bash` with the commit of Stop or Delete that follows.

`group` says who is left of a command's process group: the shell with what it has
started, only descendants of it, or nobody. The shell may end at any time and leave
descendants; a normal end (`Exits`) signals nobody, so that they stay. SIGTERM may be
ignored, SIGKILL may not. `Spawn` and `Started` are the two sides of `await
create_subprocess_exec`, which suspends with the process made: a cancellation there
(`CancelStarting`) has asyncio kill the shell alone. `CancelLost` is a cancellation that
comes with the result. Nothing is assumed of the command.

`evicted` and `condemned` are history variables: tasks whose entry in `bash_tasks` the
`finally` of another has removed, and commands that passed their deadline or were stopped
while `run_command` waited for them.

### 2.3 SessionStream

Every action is one commit, one registration, one send or one loss. The client
(`Apply`) is external: it is what `docs/message_queue_client_handoff.md` and
`docs/model-streaming-client-handoff.md` ask of it. Because a queue is first in,
first out, `view` is computed when a frame is queued: it is what the client shows
once it has received its backlog. Frames of one commit are queued all or, if the
queue overflows, the subscriber is retired.

A turn (`turn`) opens its registry of drafts, may fail, and closes it. A block goes from
*new* to *draft* to *final*; an error or `done` event in mid-turn makes its draft *cut*,
of which the adapter knows nothing: it may still end the block, which then is *late*
(`FinishDraft` does not ask for a draft, as `record_event` does not), or send a delta,
which fails the turn (`DeltaFails`). `substantive` are the drafts that have content
an interruption keeps.

### 2.4 Worktrees

A worktree has the name of the POST that makes it, a session that of its own. The
project is registered, deleted and registered again at one path with new ids.

* `CheckPath` to `TakeBack` are `create_worktree`; git acts in `AddTree` and
  `TakeBack`, somewhere between the call and the handler's next step. An error may
  hide that git had finished when the timeout killed it.
* `CheckIdle` to `DeleteRow` are `delete_worktree`, which holds `turn_lock`.
* `ListSessions` to `ForgetFails` are `delete_project`. `HaltSession` and `TearDown` are
  one session's `teardown_session`, whose inner steps are in `SessionTurns` and
  `ShellCommands`: the first needs the lock to be free, ends the turn and takes the
  command out of its slot, the second waits for that command (`joined`) and drops the row.
* `turning` are the sessions with a turn, `work` the session in which a command runs, and
  `slot` is `bash_tasks`. `BeginCommand` looks at the slot only; `StopCommand` empties it
  while the command still runs, and `EndCommand`, the `finally` of `run_bash`, empties it
  whoever's entry is there. `session_is_busy` (`Busy`) sees a turn and a slot, and nothing
  else. `stopped` is a history variable: the sessions in which a Stop or Delete has found a
  command since the server started.
* `Crash` leaves a git process without its handler.

A directory is missing, empty or full; modified files are one reason for git to
refuse, which it may always do. `unclaimed` is a history variable: registrations the
server reported or abandoned.

### 2.5 AgentTurn

One turn, of Claude or of Pi (`kind`). `Natives` are the agent's own permission
requests and questions, `Calls` its calls of server tools, `Gated` those that need an
approval. `pipe` is the agent's output, `events` the queue between the reader and the
generator.

* `AgentAsks` to `AgentExits` are the agent: it may do these in any order, as far as
  `Buffer` messages ahead of the reader. Its process is up, has left descendants behind
  that hold its output open, or is dead with all of them: `stop_process` returns without
  a signal when the leader has exited, and the end of the output comes with the last of
  them.
* `Read`, `ReadEOF` and `ReadFails` are `ServerTools._read` for Claude and Pi's reader;
  `Enter`, `TakeLock`, `Decided`, `Executed` and `Drained` are the task of one call, from
  its first step over the lock to the reply and the `drain` of that, where it may be
  suspended. `CancelCalls` is the cancellation of call tasks, part of whoever does it, and
  `Cancelled` what it makes of each: a call that has not begun sends nothing, one that runs
  keeps the lock until it has cleaned up (`Cleaned`), one of Pi that waits, or writes its
  reply, tells of the cancellation.
* `Handshake` to `Exited` are the generator; `Close` to `Finish` its `finally`, step by
  step where it awaits, in the order of each adapter; `Cancel` is the cancellation of the
  turn, and `CancelFinally` the same when the turn is in its `finally` already: what it
  gathers has ended, and the rest is skipped (`cut`).
* `StopBegins` to `StopKills` are `adapter.stop`, which `Cancel` follows in
  `halted_session`; `found` says whether it has found the process in `processes`.

`SessionTurns` uses the outside of this: events, an end, an error, and that after a
Stop the generator ends.

### 2.6 FileTrees

A tree has the name of the task `_initialize` that makes it. The holders of
`registry_lock` and of a tree's lock never suspend inside, so that each critical
section is one step; the lines between are where tasks meet.

* `Acquire` to `Finish` are `file_tree_websocket` with the manager's `acquire`,
  `add_subscriber`, `release_pending` and `remove_subscriber`. The latter takes the tree
  out of the registry (`RemoveSubscriber`), waits for the subscriber's writer
  (*removing*), and only then stops the tree (`Removed`).
* `Leave` and `Disconnect` are the client's end and the cancellation by Delete or the
  shutdown where it makes no difference; `CancelTooLate`, `CancelReleasing`,
  `CancelRemoving` and `CancelStop` are the cancellation where it does: between the end of
  the acquisition and its note, in `release_pending`, in the teardown of the subscriber,
  and in the wait of `_stop_tree` for the event task.
* `Publish` and `InitializeFails` end a scan; `StartBatch` to `TornDown` are the event
  task of a tree, `LeaveLoop` its end when the tree is invalid. `StopEnds` is the end of a
  tree that was stopped, with its inotify closed if the task that waits for it has not been
  cancelled.
* `frames` are the queues of subscribers. A patch and a snapshot are both data.

`leaked` is a history variable: the roots whose reservations a cancellation has made
wrong; `abandoned` the trees whose stop one has cut short (section 4).

### 2.7 FileTreeSync

One tree, its inotify and the disk. Directories are inodes that have a place or none;
paths are looked up on the disk as it is at that system call.

* `ChangeFile` to `ChangeIgnoreFile` are other programs. `Tell` is the kernel: it tells
  each watched directory a change touches, and replaces what it has no room for by an
  overflow.
* `ReadReady` and `ProcessBatch` are the event task, `StartReconcile`, `Patch`,
  `StartRebuild` and `Snapshot` its `_reconcile` and `_rebuild`; `WatchRoot` to `List`
  are the system calls of a scan, in the order the code makes them for one path, in any
  order between paths. `WatchFails` ends a scan and with it the tree.

`raced` is a history variable: a directory was moved while the tree had work to do and
knew it, or a directory inside it, by its old place (section 4).

`StartReconcile` removes all old locations and computes the directories that are seen
in one step. Symbolic links, mounts, permissions and limits in bytes are left out; a
removed root is a lost tree (`FileTrees`).

## 3. Runs

| Run | Bounds | Shows |
|---|---|---|
| `turns_safety` | 3 submissions, 1 Stop, 1 Delete, 1 PATCH, 1 open request | `BusyHasOwner`, `NoLostWakeup`, `SandboxFixed` in a benign environment |
| `turns_hostile` | 3 cancellable submissions, Stop, Delete, 1 restart, failing `stop`, late answers | `OneTurn`, `DeletedIsQuiet`, `RetainedUntilSubmission`, `HaltedStartsNothing`, and the refinement of `TurnQueue` |
| `turns_liveness` | 2 submissions, 1 Stop, 1 Delete | `InputsDelivered`, `HaltCompletes` |
| `shell` | 3 commands, 1 with a client that may go, 1 Stop, 1 Delete | `StartsExclude`, `ResultsComplete`, `NoStrayGroup`, `StopIsFinal`, `CommandsEnd` |
| `stream` | 1 client that reconnects, 2 blocks, replay of 2, queue of 6, 4 rows | `StreamExact`, `OneRowPerStream`, `NoSilentLoss` |
| `worktrees` | 2 worktrees at 1 path, 1 session, 2 commands, 1 removal, 1 project deletion, 2 registrations, 1 crash | `RemovalExcludesWork`, `TreesClaimed`, `WorkingDirFixed`, `RequestsEnd` |
| `agent` | 1 native request, 2 calls, 1 of them gated, 1 unread message, both adapters | `OneReply`, `RunsByApproval`, `LockIsLive`, `Reaped`, `StopStartsNothing`, `TurnEnds` |
| `filetrees` | 3 clients, 2 roots, 2 trees, sizes 1 and 2, budget 3, queue of 1 | `ReservationsExact`, `NoIdleTreeUnlessLeaked`, `AccountingExact`, `OneTreePerRoot`, `ErrorIsNext`, `DropsAreJustified` |
| `filetrees_liveness` | 2 clients, 2 roots, 2 trees | `EndpointsProceed`, `DroppedTreesClose` |
| `filesync` | 2 directories, 2 names, 1 file at first, 2 changes, patches of 3, 5 events | `ConvergedUnlessRaced`, `WatchesExact` |
| `turns_cancelled_ship`, `filesync_rename` | the smallest that show it | two disagreements of section 4 |

`TypeOK` is an invariant of the runs `stream` and `worktrees`; it is proved for every
module that has one.

Why the bounds are enough:

* Turns: three messages are a batch at work, one message that waits and one that arrives
  at the wrong moment; a Stop and a Delete exclude each other by the stop lock, and a
  second of a kind adds nothing to a first that has ended.
* Shell: three commands are the stopped one, the one that takes its slot and the one
  that starts beside it.
* Stream: a transcript of twice the replay limit makes a client lose rows from its
  window. The numbers of the code (200, 256) only scale the two limits.
* Worktrees: two that compete for one path are a removed one and the one that takes its
  place; properties of sessions are about each alone. Two commands are one that a Stop took out
  of the slot and the one that takes it and is evicted in turn.
* Agent: two calls are the holder of the lock and one that waits for it, with and
  without an approval; a native request blocks the generator meanwhile. One message in
  the agent's output is what Stop, the exit or the end of the turn meets unread.
* File trees: three clients are the last user of a tree, one that waits for it and one
  that asks for another, so that two trees share the budget, which two trees of size 2
  exceed. Two trees are also a tree and the one that replaces it at its root. A queue
  of one frame overflows at once. The `VIEW` leaves out `open` and `abandoned`,
  on which neither another variable nor a property of that run depends. `EndpointsProceed` is about each client and needs one
  more that stops its tree.
* The disk: two directories can be nested, exchanged, and moved into and out of each
  other; the first change starts a scan and the second falls between any two steps of
  it. A small change makes a patch within three paths and a nested directory that moves
  one beyond them; more than five events are unread only when both changes are.

`MaxRows`, `MaxRevision`, `MaxCrashes`, `MaxProjects`, `MaxChanges` and `MaxFiles` bound
counters and initial states.

`CHECK_DEADLOCK` is off: every call may have been made, and then the system rests.

Fairness: weak fairness of what a coroutine does once nothing it waits for is
missing (the event loop runs ready callbacks in order) and strong fairness of
taking a lock (`asyncio.Lock` serves its waiters in order). None of clients, of
cancellations, or of restarts. Delivery also assumes that agents finish
(`AgentsFinish`), which the code cannot ensure; `TurnEnds` does not: nothing there
obliges the agent to exit or the user to answer, only an agent that is up reads what is
written to it, so that a reply leaves. For shell commands nothing is
assumed of the command: the deadline is a step of the server. git ends because it is
killed after `GIT_TIMEOUT_SECONDS`, a host command and the handshake with an agent by
timeouts of their own. A scan of a file tree in its thread ends.

## 4. Where the code and its documents disagree

Two are runs of their own:

* A WebSocket that closes while `begin_turn` is suspended in a commit abandons it:
  the session then shows *running* with no turn (`turns_cancelled_ship`), or, if the
  commit was the acceptance, an accepted message waits in an idle session.
* A directory that is moved within the tree while a scan runs or a batch waits is taken
  for an alias of itself at its new place, because the tree still knows its inode or its
  watch by the old one; the event of the old place then removes it there, with its watch.
  A client shows an empty directory until something else changes in it
  (`filesync_rename`; `file_tree_completion_design.md` says reconciling afterwards is
  safe). The same happens to a directory inside the one that is moved, even if the tree
  knows only the inner one. `ConvergedUnlessRaced` and `WatchesExact` say, and section 5.7
  proves, that nothing else goes wrong.

The others are stated as properties that stay in the modules; to see one violated, put it
into the cfg as described.

* When `run_turn` itself fails between two events, its generator and requests stay
  until the event loop finalises them; an answer in between makes the idle session
  *running* with no turn: `BusyHasOwner` in `turns_safety` with `LateAnswers = TRUE`.
* When `adapter.stop` raises, the turn is cancelled all the same, but Stop does not come to
  set the session idle. If the cancellation meets the turn before its first step or in its
  `finally`, nobody else does: the session stays *running* with no turn until the next
  restart or Stop (`BusyHasOwner` in `turns_safety` with `StopMayFail = TRUE`).
* A comment in `run_bash` (`main.py:1498`) says that when a command is stopped "the process
  group is already dead". It is not when the cancellation meets `create_subprocess_exec`,
  where asyncio kills the shell alone, or the commit after a normal end, which signals
  nobody (`StoppedIsDead` in `shell`). A command that ends by itself leaves its background
  descendants in any case: `NoStrayGroup` is about the shell, and about the groups of
  commands that the deadline or a Stop ended while `run_command` waited.
* A stopped shell command empties the slot of the command after it, so that two may
  run (`OneCommand` in `shell`); a command stopped before its first step has no result
  (`OneResult`); a command that begins while Delete waits for another outlives
  the session (`DeletedHasNoCommand`). One whose `begin_bash` is cancelled after the row
  and before the task never starts.
* An error event in mid-turn interrupts the drafts, of which the adapter goes on to know:
  if it ends such a block, the block has the row of its interrupted draft and that of its end
  (`OneRowAlways` in `stream`), and if it sends a delta, the `KeyError` fails the turn. The
  implementation spec of model streaming says an interrupted draft is retired and clients
  reconcile the two kinds of row by `stream_id`; it does not say that both may come.
* "Whether anything is still running for this session" (`session_is_busy`) overlooks a
  command that is out of its slot: the one that Stop is ending, and the next one, whose entry
  the end of the first has removed. DELETE then removes the worktree in which it runs, as it
  does one in which a `git` works that a crash left behind (`RemovalExcludesAll` in
  `worktrees`). `RemovalExcludesWork` says that nothing else is overlooked among turns and
  commands; what a command or an agent leaves behind after its end counts for nobody.
* `delete_project` removes the worktrees when, its comment says, the sessions "are all
  gone". One created during its awaits is not (`SessionsFirst` in `worktrees`, with
  `MaxCrashes = 0`); its row goes with the project and what it runs goes on. Also, a
  worktree whose row is inserted after the sweep began goes with the rows and stays on
  disk without a report, and `git worktree add` killed at its timeout may leave a
  worktree that no row claims: `TreesClaimed` counts both as given up.
* A file endpoint that is cancelled after its acquisition ended and before it notes so
  (`main.py`, `file_tree_websocket`) leaves its reservation, and the tree is watched for
  ever; one cancelled while `release_pending` waits for the tree releases twice, so that
  another client's reservation is lost: `NoIdleTree` in `filetrees`. The design document
  says a tree exists only while a socket is subscribed or waits.
* A file endpoint that is cancelled in `remove_subscriber`, while the writer of its
  subscriber ends, has taken the tree out of the registry and never stops it: its event task
  waits on, and since `_read_ready` of an invalid tree returns without reading, the next
  change leaves a descriptor that is always readable. One that is cancelled in the `gather`
  of `_stop_tree` skips `inotify.close`, which is then left to the garbage collector. The
  shutdown only stops trees that are registered. `DroppedTreesClose` excepts these trees as
  `abandoned`.
* A directory that vanishes between its `lstat` and `add_watch` invalidates the whole
  tree (`WatchFails`), where the design document treats it as an absence.
* The comment of `_clear_session_approvals` says a process exit must not hang on a
  pending question. Claude's exit does not end a turn that waits for the answer to a
  native request, nor does the failure of the reader one whose process lives on: the
  user must answer or stop it (`ExitEndsTurn` in `agent`, as a PROPERTY).
* Pi's call that is cancelled while its reply is being written replies again, that it was
  cancelled (`resolve_server_tool`): the extension sees two answers to one dialog.
* `halted_session` cancels a turn also when that is in the `finally` of `start_turn`. The
  rest of the `finally` is skipped. For Claude `adapter.stop` has ended the process before;
  Pi's has left the table of processes by then, so that `PiAdapter.stop` finds none, and if
  the `SIGKILL` is among what is skipped, the agent goes on. The shutdown cancels turns
  without `adapter.stop` and may leave either. `Reaped` says when a process is left.
* `stop_process` returns at once when the leader of the group has exited, without a signal
  to those it has left; they may go on, and while they hold its output open a turn that
  reads to the end of it waits for them until it is stopped. `TurnEnds` speaks of Pi's turn
  after the last of them has ended.

The properties of the passing runs say how far each of these goes: `OneTurn`,
`QueueContract` and `DeletedIsQuiet` hold whatever is cancelled or answered late,
commands exclude each other as long as no Stop has taken one out of its slot, a block
without a mid-turn error has one row, reservations are exact at every root where no endpoint
was cancelled at the two places, every tree that is dropped closes unless its stop was cut
short, and a turn of Pi ends when its process and what it has started do.

One thing is left out of the modules: `run_turn` does not close its generator, so that one
which is cancelled, or fails, between two events leaves it suspended at its `yield`. Its
`finally` then runs in the finalizer of the event loop, which nobody joins, and the entries
it pops by the session's id (`server_tools`, `processes`) may be those of the next turn.
`SessionTurns` has such a generator (`LateAnswers`), as far as its requests go.

## 5. Proofs

All proofs hold for every value of the constants that satisfies the module's named
assumption; nothing else is assumed. No property below is inductive. Each module
strengthens it to a conjunction of named parts, each of which a step preserves with the
help of some others; TLC checked the parts first.

Four properties are about folds: a sum over a set, what a filter leaves of a queue, what
a client makes of a sequence of frames. The library's induction theorems take an
operator as a parameter, which the provers cannot instantiate; `FoldLemmas` goes without
them. It shows that a non-empty set of numbers has a least element and a family of finite
sets a minimal one (from the well-foundedness of <), and uses these where one would use
induction: the set of counterexamples has no least element, so that it is empty.
`FoldExists` gives for every finite set the function that a fold of the community modules
chooses, `FoldUnique` says there is only one; `PrefixFolds` makes it the sequence of
intermediate values of a `FoldLeft`, and `SumSplits` and `SumDepends` are what is needed
of sums. `Upward` is induction over an interval, about a set.

### 5.1 SessionTurnsProofs

For every set of calls and every number of restarts: `TypeOK`, `OneTurn`,
`SandboxFixed`, `DeletedIsQuiet`, `HaltedStartsNothing` and `RetainedUntilSubmission`
with all failures switched on, `NoLostWakeup` for `Cancellable = {}` and
`StopMayFail = FALSE`, and `BusyHasOwner` for `LateAnswers = FALSE` as well. Section 4
shows what the first and the last exclude; the other excludes an adapter whose `stop`
raises.

1. `LockInv`: the holder of `turn_lock` is the one coroutine inside its critical
   section. `SlotInv`: a live task owns `running_tasks[session]` unless it is past
   giving it up. `BatchInv`: a claimed batch has a coroutine about to start it, and
   is not a turn yet. Their conjunction `TurnInv` gives `OneTurn`.
2. `SandboxInv`: between the claim of a batch and the first step of its task the
   status is not idle or the lock is held, so that no PATCH passes its check.
3. `HaltInv`: at most one Stop or Delete is past the stop lock, `stopping` is true
   exactly meanwhile, and the task it joined stays the only one. It gives
   `DeletedIsQuiet` and `HaltedStartsNothing`.
4. `WakeupInv` and `OwnerInv`: who is responsible for a waiting message and for a
   busy status, at every point of every coroutine.
5. `RetainInv`: a retained inbox has no live completed turn that could ship it.

The same module shows `ImplementsQueue`: every behaviour of `SessionTurns` is, through the mapping of
`SessionTurnsQueue`, a behaviour of `TurnQueue`, for every set of calls and with all
failures switched on. It needs two invariants on top of `TurnInv` and `HaltInv`:
`NamesInv` (a message has no turn and is in no queue before it is accepted, so that it
is accepted once, and the name of a batch was not a turn's before) and `CancelInv` (a
cancelled task has a Stop or Delete waiting for it, so that no message accepted
meanwhile wakes the session). `RestStep`, `ShipStep`, `StartStep`, `CompleteStep`,
`DoneStep` and `EndStep` say which abstract step, or none, a kind of concrete step is;
`QueueNext` sorts the actions among them.

### 5.2 WorktreesProofs

`TypeOK` with the foreign keys and unique paths, `RemovalExcludesWork`, `WorkingDirFixed`
and `TreesClaimed`. A removal must know that its worktree keeps its path and that a session
without a row does nothing (`NamesInv`), that no step moves a session (`DirStep`), that the
lock is its own until it ends (`LockInv`), and `SlotInv`: a command in a slot runs in that
session, and where no Stop or Delete has found a command every one that runs is in its
slot. `RemovalExcludesWork` is inductive with these.

`TreesClaimed` alone is not inductive: DELETE removes the directory first and the row
afterwards, and between the two a POST may register the path again, whose claim must not
be the row that is about to go. `ClaimInv` says so: once git has removed the tree of a row,
a tree registered at that path has a claim other than that row.

### 5.3 ShellCommandsProofs

`TypeOK`, `StartsExclude`, `NoStrayGroup`, `ResultsComplete` and `StopIsFinal`.
`GroupInv`: the shell runs only while its task waits for it, and a command that must not
survive is one whose group is dead, or is about to be. `BeginInv`: `turn_lock` is held by
the one `begin_bash` that has logged its row, and a task exists exactly when it has
returned. `SlotInv`: a live task owns the slot unless a Stop or Delete has taken it out or
another's `finally` has evicted it, and nothing is evicted before a Stop or Delete has found
a command; `StartsExclude` says no more than that for two commands at a time.
`JoinInv`: a Stop that has joined its command has seen it end.
`ResultInv`: what each state of a task may have written.

### 5.4 SessionStreamProofs

`TypeOK`, which bounds every outbound queue by its capacity, `StreamExact`,
`OneRowPerStream` and `NoSilentLoss`, for any finite number of blocks and any limits. `RowsInv`: a block that a
row names is no draft, and one that was cut has only the row of its draft, so that no later
commit can write a second row of it but its late end, and none a third. An
interruption writes the rows of all open drafts in one commit: `SetToSeqLists` and
`KeptRows` show that the sequence lists each of them once. `AppendStep` is the induction
step for any commit whose rows are of distinct blocks that become final; `TranscriptStep`
shows every action to be such a commit. `Greeting` shows that the replay with its three
closing frames fits an empty queue.

For `StreamExact`, `ViewInv` says what a live client shows: the status, the message queue
and the drafts of the session, and the last rows of its transcript (`LastRows`), none of
them beyond it. One lemma per type of frame says what the frame changes in what is shown,
and `FrameByFrame` turns a commit's frames into a trace of views, one per frame. A commit
is `Faithful` if its frames bring every client that shows the session before it to what
the session is after it; one lemma per kind of commit shows that it is. The long ones are
`InterruptCommit`, whose trace adds a row and removes a draft for each open block, or only
removes it, so that after *i* frames the drafts of *i* blocks are gone, and `WelcomeShows`,
whose replay ends in the last row and whose closing frames set the rest whatever the rows
did to it. `SourceInv`, that a block not begun has revision 0, makes the first delta of a
draft apply.

### 5.5 AgentTurnProofs

`TypeOK`, `OneReply`, `RunsByApproval`, `LockIsLive`, `Reaped` and `StopStartsNothing`.
`StopInv` says what Stop has closed at
each of its steps: for Claude the reader, for Pi the registration of the process, which
is what keeps a buffered request from starting a call. `PhaseInv` says what the `finally`
has reaped at each of its, in the order of either adapter, and that nothing comes back:
a reader that has ended takes no more calls and a cleared request has no task. Of
a `finally` that was cut short it says only that the reader has ended. `ProcInv` follows the process: who
may still signal it after each step of Stop and of the `finally`, whose two orders cross.

`OneReply` needs to know where a request may be: `PipeInv` and `EventInv` say that one
which the agent has made is once in its output or once in the queue of the generator or
held by it, and is then not answered yet; `ReplyInv` how many replies a call has in each
of its states: none while it is in line, one when its reply is written, two only when Pi's
was cancelled just then. `CancelReplies` and `CallReplies` show it for a cancellation of
any calls at once and for the steps of one.

`LineInv` makes `LockIsLive` inductive: no call is twice in line for the execution lock,
and the first is the one that is served or cleans up. Cancellation takes any calls that
wait out of the line at once; `WithoutKeeps` shows for every line and every set what is
left: those not in the set, each once, and the first of the line first if it was not.

### 5.6 FileTreesProofs

`TypeOK`, `OneTreePerRoot`, `ErrorIsNext`, `ReservationsExact`, `NoIdleTreeUnlessLeaked`,
`DropsAreJustified` and `AccountingExact`.

1. `LifeInv` ties the tables, the trees and the endpoints together: `EpInv` (whoever has
   acquired waits for a tree of its root, which exists), `TreeInv` (a tree goes through
   its life once, and is the one its root waits for while it is scanned), `TableInv` (the
   tables name trees of that root), `SubInv` (a tree with subscribers is registered),
   `AwaitInv` (what an endpoint waits for is a tree that is no longer registered) and
   `DownInv` (nothing is left after the shutdown).
2. `ServedInv`: a subscriber whose writer lives is in the set of its registered tree.
   Without it an endpoint could leave without the tree noticing.
3. `CountInv`: the count of a root is the number of its holders. The theorems of the
   library on cardinality make each step one more or one less.
4. `UsedInv`: a registered tree has a subscriber, a reservation or a teardown under way.
   `NoIdleTreeUnlessLeaked` follows with `CountInv`: a reservation has a holder.
5. `BooksInv`: the registered trees are finitely many, and the count of the budget is the
   sum of their sizes; `SizeInv`: a tree that is not made has none. A step drops a tree,
   gives one another size that fits, clears all, or leaves the books alone
   (`BooksOfStep`), and `SumSplits` takes the tree concerned out of the sum before and
   after (`BooksStep`). `QueueInv` bounds the queues of clients.

### 5.7 FileTreeSyncProofs

`TypeOK`, `ConvergedUnlessRaced` and `WatchesExact`, for any number of directories, names
and changes, any limit of a patch and any size of the kernel's queue. The run has two
directories; the theorems are about trees of any depth.

When nothing is left to do, a client must show the disk; in between it does not, and what
has to be invariant is why it will. A path is *covered* if a step of the scan that is left
will look at it or at a directory above it (`Tasked`), or an event of a watched directory
that is in the kernel or in the queue names it or a directory above it (`Told`). `ExactInv`
says that every path that is not covered is shown as it is on the disk, and watched, by
the descriptor of the directory that is there, exactly if it is a directory. With nothing
left to do no path is covered, which is `ConvergedUnlessRaced` and the second part of
`WatchesExact`. It holds unless everything is about to be looked at again (`Afresh`: a
scan that has not begun, an overflow or a change of the ignore file that is not processed)
and needs, beside types:

1. `WatchInv` and `RootInv`: descriptors are fresh, belong to one directory and, while the
   tree lives, have one path; that of the root is the first. The first part of
   `WatchesExact` is here.
2. `ScanInv`: the steps of a scan that are left are of paths none of which is above
   another, and nothing has been found or watched under one of them, so that each path is
   scanned once.
3. `MoveInv`: a watched directory is on the disk where its watch says, or is not on it, or
   the oldest batch tells of both places. This is where the race of section 4 is excluded:
   were the old place told of in a later batch than the new one, or scanned before it, the
   directory would be pruned as an alias.
4. `SeenInv`: a directory that a scan has seen is watched by its path, or about to be.

A change of the disk must cover every path whose truth it changes. A path leads to a
directory along all its prefixes, so that this is a comparison of two disks along a
path: `Walks` to `WalkLast` define what a path leads to for any disk and show the
recursive function of the model to be it; `Turned` says that a path that leads elsewhere
after one directory has changed its place has a prefix at which the two disks part, whose
parent is watched, by `ExactInv`, or covered already; `Carried` and `Behind` say what
becomes of the paths that lead through the directory that is moved, which is all that
`Inside` is about. `Short` bounds the paths that lead anywhere by the number of directories
(a longer one would meet a directory twice, and no place has two), so that no path of the
disk is beyond `Paths`.

A step of the tree may end the coverage of a path only if it makes it exact or another
step covers it: reading moves an event from the kernel to the queue (`ReadReadyKeeps`);
a batch turns what it tells into looks at the selected paths, below which it forgets
everything (`ReconcileKeeps`, `SelectedAbove`); a look finds a file, nothing, or a
directory to be watched, a watch leads to a listing and a listing to looks at each name
(`LookKeeps`, `WatchedKeeps`, `ListedKeeps`); and what changed between two of these has
been told since, because a directory is watched before it is listed.

Two things came out of this proof. The condition under which `raced` was set was too
narrow: it only looked at the directory that is moved, while the tree may know only one
inside it, which the small instance does not show. And a scan went on after `WatchFails` had
ended the tree. The model was corrected in both.

### 5.8 Only model-checked

All liveness (`InputsDelivered`, `HaltCompletes`, `CommandsEnd`, `RequestsEnd`, `TurnEnds`,
`EndpointsProceed`, `DroppedTreesClose`): fairness and ENABLED are beyond the installed
provers. Every other property of the passing runs is proved.

## 6. Plan

Done: turns and message queue with their contract, shell commands, event stream,
projects and worktrees, agent turns with server tools, file trees and their
synchronisation; proofs as in section 5.

Next: native blocks as the source of the drafts of `SessionStream`.

Not modelled, and why:

* Native blocks (`streaming.py`): parsing of provider events into blocks, sequential and
  covered by unit tests; what becomes of the blocks is in `SessionStream`.
* Scrollback pages: single queries over rows; the window a client replays is in
  `SessionStream`.
* What session and asset tools do is the handler of `main.py` they call; the validation
  of arguments and the truncation of output are pure functions.
* Sandbox command lines, the network guard, usage, the model catalogue, canonical
  actions: command lines and parsing, no state shared between steps.
* Images and shared assets: bytes, paths and files.
* HTTP routing and authentication: the handlers' effects are in the other modules.
* The Pi extension and its vendored web search run inside the agent.
