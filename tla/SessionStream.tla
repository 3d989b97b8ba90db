---------------------------- MODULE SessionStream ----------------------------
(***************************************************************************)
(* The event stream of one session: the commits that change its transcript, *)
(* its message queue, its status and its drafts, and the subscribers that  *)
(* follow them over WebSockets (main.py, DraftRegistry of streaming.py).   *)
(*                                                                         *)
(* commit_stream runs the mutation and puts its frames in every            *)
(* subscriber's queue under the stream lock without suspending, so a       *)
(* commit is one step, and so is the registration of a subscriber.         *)
(***************************************************************************)
EXTENDS Naturals, Sequences, FiniteSets, SequencesExt

CONSTANTS
    Clients,        \* WebSocket connections, each used again after it closes
    Streams,        \* blocks of model output
    ReplayLimit,    \* SCROLLBACK_REPLAY_LIMIT
    LiveCapacity,   \* WEBSOCKET_LIVE_QUEUE_CAPACITY
    MaxRows,        \* bound on the rows of the transcript
    MaxRevision,    \* bound on the deltas of one draft
    None

ASSUME StreamAssumption ==
    /\ ReplayLimit \in Nat \ {0} /\ LiveCapacity \in Nat
    /\ MaxRows \in Nat /\ MaxRevision \in Nat
    /\ None \notin Streams /\ IsFiniteSet(Streams)

VARIABLES
    (* the session *)
    exists,         \* its row
    log,            \* its scrollback; the position of a row is its event_id
    inbox,          \* event_ids of its pending inputs
    status,
    turn,           \* run_turn: before, with and after its registry of drafts
    stage,          \* of each block, see Stages
    revision,       \* of each draft
    substantive,    \* blocks with more than blanks in their text or arguments
    (* the subscribers *)
    conn,           \* away or live
    backlog,        \* frames in the outbound queue
    view            \* what the client shows once it has been sent all of them

session == <<exists, log, inbox, status, turn, stage, revision, substantive>>
peers   == <<conn, backlog, view>>
vars    == <<session, peers>>

\* A block is begun, and ended by its agent or the end of the turn (final); one
\* that the server has cut is still open for the agent, and may end late.
Stages    == {"new", "draft", "cut", "final", "late"}
Turns     == {"none", "open", "failing", "closed"}
Statuses  == {"idle", "running", "awaiting_approval"}
Kinds     == {"input", "shipped", "event", "output", "interrupted"}
Capacity  == ReplayLimit + 4 + LiveCapacity

-----------------------------------------------------------------------------
(* Frames, and what a client makes of them (docs/, the client handoffs)      *)

Row(id, row)    == [type |-> "row", id |-> id, kind |-> row.kind, stream |-> row.stream]
Status(s)       == [type |-> "status", status |-> s]
Start(d)        == [type |-> "start", stream |-> d]
Delta(d, n)     == [type |-> "delta", stream |-> d, revision |-> n]
Removed(d)       == [type |-> "remove", stream |-> d]
Snapshot(ds)    == [type |-> "snapshot", drafts |-> ds]
InputQueue(q)   == [type |-> "input_queue", messages |-> q]
Error           == [type |-> "error"]

Without(ds, d) == {x \in ds : x[1] # d}

\* An empty client, before any frame.
Blank == [rows |-> <<>>, drafts |-> {}, inbox |-> <<>>, status |-> "idle"]

Apply(v, f) ==
    CASE f.type = "row" ->
           [v EXCEPT !.rows   = Append(@, f.id),
                     !.drafts = Without(@, f.stream),
                     !.inbox  = CASE f.kind = "input"   -> Append(@, f.id)
                                  [] f.kind = "shipped" -> <<>>
                                  [] OTHER              -> @]
      [] f.type = "status"      -> [v EXCEPT !.status = f.status]
      [] f.type = "start"       -> [v EXCEPT !.drafts = @ \cup {<<f.stream, 0>>}]
      [] f.type = "delta"       ->
           IF <<f.stream, f.revision - 1>> \in v.drafts
           THEN [v EXCEPT !.drafts = Without(@, f.stream) \cup {<<f.stream, f.revision>>}]
           ELSE v
      [] f.type = "remove"      -> [v EXCEPT !.drafts = Without(@, f.stream)]
      [] f.type = "snapshot"    -> [v EXCEPT !.drafts = f.drafts]
      [] f.type = "input_queue" -> [v EXCEPT !.inbox = f.messages]
      [] OTHER                  -> v

-----------------------------------------------------------------------------
(* commit_stream: the frames of a mutation reach every subscriber's queue,   *)
(* or the subscriber is retired and its socket closed.                       *)

\* Mutant: one frame too many is let in.
FitsOneMore(c, frames) == conn[c] = "live" /\ backlog[c] + Len(frames) <= Capacity + 1

Fits(c, frames) == conn[c] = "live" /\ backlog[c] + Len(frames) <= Capacity

Publish(frames) ==
    /\ conn' = [c \in Clients |-> IF Fits(c, frames) THEN "live" ELSE "away"]
    /\ backlog' = [c \in Clients |-> IF Fits(c, frames)
                                     THEN backlog[c] + Len(frames) ELSE 0]
    /\ view' = [c \in Clients |-> IF Fits(c, frames)
                                  THEN FoldLeft(Apply, view[c], frames) ELSE Blank]

\* The frames of rows about to be appended.
NewRows(rows) == [i \in 1..Len(rows) |-> Row(Len(log) + i, rows[i])]

Room(n) == exists /\ Len(log) + n <= MaxRows   \* rows of a session, up to a bound

Plain(kind)    == <<[kind |-> kind, stream |-> None]>>
Of(kind, d)    == [kind |-> kind, stream |-> d]

InStage(s) == {d \in Streams : stage[d] = s}
MoveTo(ds, s) == stage' = [d \in Streams |-> IF d \in ds THEN s ELSE stage[d]]
Drafts     == {<<d, revision[d]>> : d \in InStage("draft")}

-----------------------------------------------------------------------------
Init ==
    /\ exists = TRUE /\ log = <<>> /\ inbox = <<>> /\ status = "idle"
    /\ turn = "none"
    /\ stage = [d \in Streams |-> "new"] /\ revision = [d \in Streams |-> 0]
    /\ substantive = {}
    /\ conn = [c \in Clients |-> "away"] /\ backlog = [c \in Clients |-> 0]
    /\ view = [c \in Clients |-> Blank]

(* The commits of begin_turn, ship_queued_turn, handle_approval and others *)

AcceptInput ==
    /\ Room(1)
    /\ log' = log \o Plain("input")
    /\ inbox' = Append(inbox, Len(log) + 1)
    /\ Publish(NewRows(Plain("input")))
    /\ UNCHANGED <<exists, status, turn, stage, revision, substantive>>

Ship ==
    /\ Room(1) /\ inbox # <<>> /\ turn = "none"
    /\ log' = log \o Plain("shipped")
    /\ inbox' = <<>> /\ status' = "running"
    /\ Publish(Append(NewRows(Plain("shipped")), Status("running")))
    /\ UNCHANGED <<exists, turn, stage, revision, substantive>>

\* An event of the agent, a shell command or its result.
RecordEvent ==
    /\ Room(1)
    /\ log' = log \o Plain("event")
    /\ Publish(NewRows(Plain("event")))
    /\ UNCHANGED <<exists, inbox, status, turn, stage, revision, substantive>>

\* A request that waits for the user.
RecordRequest ==
    /\ Room(1) /\ turn = "open"
    /\ log' = log \o Plain("event") /\ status' = "awaiting_approval"
    /\ Publish(<<Status("awaiting_approval")>> \o NewRows(Plain("event")))
    /\ UNCHANGED <<exists, inbox, turn, stage, revision, substantive>>

\* The user's answer, or an automatic approval.
RecordResponse ==
    /\ Room(1)
    /\ log' = log \o Plain("event") /\ status' = "running"
    /\ Publish(Append(NewRows(Plain("event")), Status("running")))
    /\ UNCHANGED <<exists, inbox, turn, stage, revision, substantive>>

\* The end of a turn, or Stop.
GoIdle ==
    /\ exists /\ status' = "idle"
    /\ Publish(<<Status("idle")>>)
    /\ UNCHANGED <<exists, log, inbox, turn, stage, revision, substantive>>

-----------------------------------------------------------------------------
(* Drafts: run_turn and its DraftRegistry *)

\* active_streams[session] = registry; no frame.
OpenRegistry ==
    /\ exists /\ turn = "none" /\ turn' = "open"
    /\ UNCHANGED <<exists, log, inbox, status, stage, revision, substantive, peers>>

\* A block may begin with content.
StartDraft(d) ==
    /\ turn = "open" /\ stage[d] = "new"
    /\ MoveTo({d}, "draft")
    /\ \E s \in SUBSET {d} : substantive' = substantive \cup s
    /\ Publish(<<Start(d)>>)
    /\ UNCHANGED <<exists, log, inbox, status, turn, revision>>

\* A delta may give a block content; a blank one may take the preview of the
\* arguments it began with away.
UpdateDraft(d) ==
    /\ turn = "open" /\ stage[d] = "draft" /\ revision[d] < MaxRevision
    /\ revision' = [revision EXCEPT ![d] = @ + 1]
    /\ \E s \in SUBSET {d} : substantive' = (substantive \ {d}) \cup s
    /\ Publish(<<Delta(d, revision[d] + 1)>>)
    /\ UNCHANGED <<exists, log, inbox, status, turn, stage>>

\* Mutant: the draft of a finished block stays in the registry.
FinishKeepingDraft(d) ==
    /\ turn = "open" /\ stage[d] \in {"draft", "cut"} /\ Room(1)
    /\ log' = Append(log, Of("output", d))
    /\ Publish(NewRows(<<Of("output", d)>>))
    /\ UNCHANGED <<exists, inbox, status, turn, stage, revision, substantive>>

\* The final output or tool_use of a block takes the place of its draft, if there
\* is one: that of a block which an error has cut comes late, after its draft's row.
FinishDraft(d) ==
    /\ turn = "open" /\ stage[d] \in {"draft", "cut"} /\ Room(1)
    /\ log' = Append(log, Of("output", d))
    /\ MoveTo({d}, IF stage[d] = "cut" THEN "late" ELSE "final")
    /\ Publish(NewRows(<<Of("output", d)>>))
    /\ UNCHANGED <<exists, inbox, status, turn, revision, substantive>>

\* Mutant: drafts are dropped without a row.
DropDrafts(ds) ==
    /\ Publish(SetToSeq({Removed(d) : d \in ds}))
    /\ UNCHANGED <<exists, log, inbox, status, revision, substantive>>

\* interrupt_streams: a draft with content becomes a row, another is removed;
\* all of them in one commit, in no particular order here.
InterruptDrafts(ds) ==
    LET kept == SetToSeq({Of("interrupted", d) : d \in ds \cap substantive})
        gone == SetToSeq({Removed(d) : d \in ds \ substantive})
    IN  /\ Room(Len(kept))
        /\ log' = log \o kept
        /\ Publish(NewRows(kept) \o gone)
        /\ UNCHANGED <<exists, inbox, status, revision, substantive>>

\* An error or done event, which need not end the turn: its drafts are cut, of
\* which the agent's adapter (NativeBlocks) knows nothing.
CutDrafts ==
    /\ turn = "open" /\ InStage("draft") # {}
    /\ InterruptDrafts(InStage("draft"))
    /\ MoveTo(InStage("draft"), "cut")
    /\ UNCHANGED turn

\* The adapter ends an incomplete block; of a cut one there is no draft any more.
InterruptBlock(d) ==
    /\ turn = "open" /\ stage[d] \in {"draft", "cut"}
    /\ InterruptDrafts({d} \cap InStage("draft"))
    /\ MoveTo({d}, "final")
    /\ UNCHANGED turn

\* run_turn's handler of exceptions.
FailTurn ==
    /\ turn = "open" /\ turn' = "failing"
    /\ InterruptDrafts(InStage("draft"))
    /\ MoveTo(InStage("draft"), "final")

\* A delta of a cut block finds no draft (KeyError).
DeltaFails(d) == stage[d] = "cut" /\ FailTurn

\* The adapter, or anything else in the turn, raises.
AgentFails == FailTurn

\* The error is reported, unless a cancellation comes first.
ReportFailure ==
    /\ turn = "failing" /\ Room(1)
    /\ turn' = "closed"
    /\ log' = log \o Plain("event")
    /\ Publish(NewRows(Plain("event")))
    /\ UNCHANGED <<exists, inbox, status, stage, revision, substantive>>

\* Mutant: the registry goes first, and its drafts with it.
PopFirst ==
    /\ turn = "open" /\ turn' = "closed"
    /\ MoveTo(InStage("draft"), "final")
    /\ UNCHANGED <<exists, log, inbox, status, revision, substantive, peers>>

\* The finally of run_turn interrupts what is left ...
CloseDrafts ==
    /\ turn = "open" /\ turn' = "closed"
    /\ InterruptDrafts(InStage("draft"))
    /\ MoveTo(InStage("draft"), "final")

\* ... and pops the registry, or is cancelled before it does; no frame.  The next
\* turn has blocks of its own.
PopRegistry ==
    /\ turn \in {"failing", "closed"} /\ turn' = "none"
    /\ MoveTo(InStage("cut"), "final")
    /\ UNCHANGED <<exists, log, inbox, status, revision, substantive, peers>>

-----------------------------------------------------------------------------
(* Subscribers: session_websocket, write_subscriber, enqueue_local *)

\* recent_scrollback: the last rows, oldest first.
Replay ==
    LET first == IF Len(log) > ReplayLimit THEN Len(log) - ReplayLimit + 1 ELSE 1
    IN  [i \in 1..(Len(log) - first + 1) |-> Row(first + i - 1, log[first + i - 1])]

Welcome(c, frames) ==
    /\ exists /\ conn[c] = "away"
    /\ conn' = [conn EXCEPT ![c] = "live"]
    /\ backlog' = [backlog EXCEPT ![c] = Len(frames)]
    /\ view' = [view EXCEPT ![c] = FoldLeft(Apply, Blank, frames)]
    /\ UNCHANGED session

\* The replay and the registration, under the stream lock.
Connect(c) ==
    Welcome(c, Replay \o <<Snapshot(Drafts), InputQueue(inbox), Status(status)>>)

Send(c) ==
    /\ conn[c] = "live" /\ backlog[c] > 0
    /\ backlog' = [backlog EXCEPT ![c] = @ - 1]
    /\ UNCHANGED <<session, conn, view>>

Retire(c) ==
    /\ conn' = [conn EXCEPT ![c] = "away"]
    /\ backlog' = [backlog EXCEPT ![c] = 0] /\ view' = [view EXCEPT ![c] = Blank]

\* The socket closes, a send fails or times out.
Disconnect(c) ==
    /\ conn[c] = "live" /\ Retire(c)
    /\ UNCHANGED session

\* An error frame for this client only.
LocalError(c) ==
    /\ conn[c] = "live"
    /\ IF Fits(c, <<Error>>)
       THEN backlog' = [backlog EXCEPT ![c] = @ + 1] /\ UNCHANGED <<conn, view>>
       ELSE Retire(c)
    /\ UNCHANGED session

-----------------------------------------------------------------------------
\* teardown_session: subscribers retired, drafts and row dropped.
DeleteSession ==
    /\ exists /\ turn = "none"
    /\ exists' = FALSE /\ log' = <<>> /\ inbox' = <<>>
    /\ conn' = [c \in Clients |-> "away"] /\ backlog' = [c \in Clients |-> 0]
    /\ view' = [c \in Clients |-> Blank]
    /\ UNCHANGED <<status, turn, stage, revision, substantive>>

\* A restart loses drafts and sockets.
Crash ==
    /\ turn' = "none" /\ status' = "idle"
    /\ MoveTo(InStage("draft") \cup InStage("cut"), "final")
    /\ conn' = [c \in Clients |-> "away"] /\ backlog' = [c \in Clients |-> 0]
    /\ view' = [c \in Clients |-> Blank]
    /\ UNCHANGED <<exists, log, inbox, revision, substantive>>

Drafting ==
    \/ OpenRegistry \/ CutDrafts \/ AgentFails \/ ReportFailure \/ CloseDrafts \/ PopRegistry
    \/ \E d \in Streams :
         StartDraft(d) \/ UpdateDraft(d) \/ FinishDraft(d) \/ InterruptBlock(d) \/ DeltaFails(d)

Next ==
    \/ AcceptInput \/ Ship \/ RecordEvent \/ RecordRequest \/ RecordResponse \/ GoIdle
    \/ Drafting
    \/ \E c \in Clients : Connect(c) \/ Send(c) \/ Disconnect(c) \/ LocalError(c)
    \/ DeleteSession \/ Crash

Spec == Init /\ [][Next]_vars

-----------------------------------------------------------------------------
(* Properties *)

TypeOK ==
    /\ exists \in BOOLEAN /\ status \in Statuses
    /\ \A i \in 1..Len(log) : log[i].kind \in Kinds /\ log[i].stream \in Streams \cup {None}
    /\ turn \in Turns
    /\ stage \in [Streams -> Stages]
    /\ revision \in [Streams -> 0..MaxRevision] /\ substantive \subseteq Streams
    /\ conn \in [Clients -> {"away", "live"}]
    /\ backlog \in [Clients -> 0..Capacity]

(* Once a live subscriber has been sent what is in its queue, it shows the    *)
(* session as it is: the status, the message queue and the drafts are equal,  *)
(* and the rows are all of the transcript from some row within the replay     *)
(* limit on, in order, none missing and none twice (commit_stream,            *)
(* session_websocket).                                                        *)
StreamExact ==
    \A c \in Clients : conn[c] = "live" =>
        LET v == view[c]
            first == Len(log) - Len(v.rows) + 1
        IN  /\ v.status = status /\ v.inbox = inbox /\ v.drafts = Drafts
            /\ v.rows = [i \in 1..Len(v.rows) |-> first + i - 1]
            /\ first = 1 \/ Len(v.rows) >= ReplayLimit

\* The rows i < j of the transcript are of one block.
SameBlock(i, j) == i < j /\ log[i].stream # None /\ log[i].stream = log[j].stream

(* A block of output has one row, its final event or its interrupted draft,   *)
(* unless an error cut its draft and the agent ended it all the same: such a  *)
(* block has the row of its draft and then that of its end, and no third      *)
(* (record_event, interrupt).                                                 *)
OneRowPerStream ==
    \A i, j \in 1..Len(log) : SameBlock(i, j) =>
        /\ stage[log[i].stream] = "late"
        /\ log[i].kind = "interrupted" /\ log[j].kind = "output"

(* A block has one row whatever happens: false after an error in mid-turn.    *)
OneRowAlways == \A i, j \in 1..Len(log) : ~SameBlock(i, j)

(* A draft with content leaves the registry only together with a row that     *)
(* keeps it, except when the server stops under it (DraftRegistry.interrupt). *)
NoSilentLoss ==
    [][\A d \in Streams :
         stage[d] = "draft" /\ d \in substantive /\ stage'[d] # "draft" =>
             \/ \E i \in 1..Len(log') : log'[i].stream = d
             \/ Crash]_vars

=============================================================================
