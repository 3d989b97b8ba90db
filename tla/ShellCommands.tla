---------------------------- MODULE ShellCommands ----------------------------
(***************************************************************************)
(* Direct shell commands of one session: begin_bash, run_bash, cancel_bash *)
(* and the Stop or Delete around it (main.py), with the process group and  *)
(* the deadline of shell.run_command (shell.py).                           *)
(*                                                                         *)
(* A step is what a coroutine does between two awaits that may suspend.    *)
(* The task of a command bears the command's name.                         *)
(***************************************************************************)
EXTENDS Naturals, Sequences, FiniteSets

CONSTANTS
    Commands,      \* calls of begin_bash
    Cancellable,   \* those made by a WebSocket receiver
    Stops,         \* calls of POST /sessions/{id}/stop
    Deletes,       \* calls of DELETE /sessions/{id}
    None

Halts == Stops \cup Deletes

ASSUME ShellAssumption ==
    /\ Cancellable \subseteq Commands
    /\ Stops \cap Deletes = {}
    /\ None \notin Commands \cup Halts

VARIABLES
    exists,        \* the session's row
    lock,          \* the begin_bash that holds turn_lock
    slot,          \* bash_tasks[session]
    begin,         \* begin_bash
    task,          \* run_bash and, inside it, shell.run_command
    group,         \* who is left of the command's process group
    results,       \* bash_output and error rows written for the command
    cancelled,     \* tasks with a cancellation under way
    halt,          \* halted_session, from cancel_bash on
    target,        \* the task cancel_bash took out of the slot
    evicted,       \* history: tasks whose entry another task's finally removed
    condemned      \* history: commands past their deadline, or stopped while they ran

vars == <<exists, lock, slot, begin, task, group, results, cancelled, halt, target,
          evicted, condemned>>
histories == <<evicted, condemned>>

BeginPC == {"new", "logged", "returned", "rejected", "cancelled"}
TaskPC  == {"none", "created", "starting", "running", "terminating", "draining",
            "cleanup", "committing", "done"}
Groups  == {"none", "shell", "descendants", "dead"}

Live(c)  == task[c] \notin {"none", "done"}
Occupied == slot # None /\ Live(slot)

Init ==
    /\ exists = TRUE /\ lock = None /\ slot = None
    /\ begin = [c \in Commands |-> "new"]
    /\ task = [c \in Commands |-> "none"]
    /\ group = [c \in Commands |-> "none"]
    /\ results = [c \in Commands |-> <<>>]
    /\ cancelled = {}
    /\ halt = [h \in Halts |-> "new"] /\ target = [h \in Halts |-> None]
    /\ evicted = {} /\ condemned = {}

-----------------------------------------------------------------------------
(* begin_bash, under turn_lock *)

\* Mutant: a command that still runs is not looked for.
LogRegardless(c) ==
    /\ begin[c] = "new" /\ lock = None /\ exists
    /\ begin' = [begin EXCEPT ![c] = "logged"]
    /\ lock' = c
    /\ UNCHANGED <<exists, slot, task, group, results, cancelled, halt, target, histories>>

\* The slot is checked and the bash_input row committed.
LogCommand(c) ==
    /\ begin[c] = "new" /\ lock = None
    /\ IF exists /\ ~Occupied
       THEN begin' = [begin EXCEPT ![c] = "logged"] /\ lock' = c
       ELSE begin' = [begin EXCEPT ![c] = "rejected"] /\ UNCHANGED lock
    /\ UNCHANGED <<exists, slot, task, group, results, cancelled, halt, target, histories>>

StartTask(c) ==
    /\ begin[c] = "logged"
    /\ begin' = [begin EXCEPT ![c] = "returned"]
    /\ slot' = c /\ task' = [task EXCEPT ![c] = "created"]
    /\ lock' = None
    /\ UNCHANGED <<exists, group, results, cancelled, halt, target, histories>>

\* The receiver is cancelled while the commit of the row is suspended.
CancelBegin(c) ==
    /\ begin[c] = "logged" /\ c \in Cancellable
    /\ begin' = [begin EXCEPT ![c] = "cancelled"]
    /\ lock' = None
    /\ UNCHANGED <<exists, slot, task, group, results, cancelled, halt, target, histories>>

-----------------------------------------------------------------------------
(* run_bash and shell.run_command *)

Goto(c, from, to) ==
    /\ task[c] = from /\ c \notin cancelled
    /\ task' = [task EXCEPT ![c] = to]

\* A row for c; a deleted session takes none, and the task goes on to its end.
Record(c, kind) ==
    results' = IF exists THEN [results EXCEPT ![c] = Append(@, kind)] ELSE results

\* create_subprocess_exec has made the process and waits for its pipes ...
Spawn(c) ==
    /\ Goto(c, "created", "starting") /\ exists
    /\ group' = [group EXCEPT ![c] = "shell"]
    /\ UNCHANGED <<exists, lock, slot, begin, results, cancelled, halt, target, histories>>

\* ... and returns it.
Started(c) ==
    /\ Goto(c, "starting", "running")
    /\ UNCHANGED <<exists, lock, slot, begin, group, results, cancelled, halt, target,
                   histories>>

\* The shell ends, perhaps leaving descendants, which may end later.
ShellGone(c) ==
    \E left \in {"descendants", "dead"} : group' = [group EXCEPT ![c] = left]

\* After the deadline it makes no difference, SIGKILL follows; and an exit between a
\* cancellation and its delivery, in the loop's next round, is not seen in time.
ShellEnds(c) ==
    /\ group[c] = "shell" /\ task[c] \in {"starting", "running"} /\ c \notin cancelled
    /\ ShellGone(c)
    /\ UNCHANGED <<exists, lock, slot, begin, task, results, cancelled, halt, target,
                   histories>>

\* Mutant: a command that cannot be started has no result.
SpawnFailsSilently(c) ==
    /\ Goto(c, "created", "committing")
    /\ UNCHANGED <<exists, lock, slot, begin, group, results, cancelled, halt, target,
                   histories>>

\* The working directory is gone (OSError, an ordinary result) or the session
\* is (KeyError, which leaves nothing to record in).
SpawnFails(c) ==
    /\ Goto(c, "created", "committing")
    /\ Record(c, "output")
    /\ UNCHANGED <<exists, lock, slot, begin, group, cancelled, halt, target, histories>>

\* The shell has exited and the pipes are drained.  Nobody signals the group:
\* a descendant that does not hold the pipes stays.
Exits(c) ==
    /\ Goto(c, "running", "committing") /\ group[c] # "shell"
    /\ Record(c, "output")
    /\ UNCHANGED <<exists, lock, slot, begin, group, cancelled, halt, target, histories>>

\* Mutant: the wait for the command has no deadline.
NoDeadline(c) == FALSE /\ UNCHANGED vars

\* The deadline: SIGTERM, which the group may ignore ...
TimesOut(c) ==
    /\ Goto(c, "running", "terminating")
    /\ condemned' = condemned \cup {c}
    /\ UNCHANGED <<exists, lock, slot, begin, group, results, cancelled, halt, target,
                   evicted>>

\* ... then SIGKILL after the grace period, and the pipes are closed.
Escalates(c) ==
    /\ Goto(c, "terminating", "draining")
    /\ group' = [group EXCEPT ![c] = "dead"]
    /\ UNCHANGED <<exists, lock, slot, begin, results, cancelled, halt, target, histories>>

\* The readers end in time, or the wait for them times out.
Drained(c) ==
    /\ Goto(c, "draining", "committing")
    /\ \E kind \in {"output", "error"} : Record(c, kind)
    /\ UNCHANGED <<exists, lock, slot, begin, group, cancelled, halt, target, histories>>

\* The finally empties the slot, whoever's entry is in it.
PopSlot(c) ==
    /\ slot' = None
    /\ evicted' = evicted \cup ({slot} \ {c, None})

\* The last commit is published.
Returns(c) ==
    /\ Goto(c, "committing", "done")
    /\ PopSlot(c)
    /\ UNCHANGED <<exists, lock, begin, group, results, cancelled, halt, target, condemned>>

\* Mutant: cancellation only signals a command that has not timed out yet.
CancelSparesTimedOut(c) ==
    /\ c \in cancelled /\ task[c] \in {"running", "terminating", "draining"}
    /\ cancelled' = cancelled \ {c}
    /\ task' = [task EXCEPT ![c] = "cleanup"]
    /\ group' = IF task[c] = "running" THEN [group EXCEPT ![c] = "dead"] ELSE group
    /\ UNCHANGED <<exists, lock, slot, begin, results, halt, target, histories>>

\* A cancellation inside run_command: SIGKILL and closed pipes come first.
CancelRunning(c) ==
    /\ c \in cancelled /\ task[c] \in {"running", "terminating", "draining"}
    /\ cancelled' = cancelled \ {c}
    /\ task' = [task EXCEPT ![c] = "cleanup"]
    /\ group' = [group EXCEPT ![c] = "dead"]
    /\ UNCHANGED <<exists, lock, slot, begin, results, halt, target, histories>>

\* Python 3.11's wait_for returns a result that is ready, and the cancellation
\* is lost; later ones, and the wait for the pipes' end otherwise, deliver it.
CancelLost(c) ==
    /\ c \in cancelled /\ task[c] \in {"running", "draining"} /\ group[c] # "shell"
    /\ cancelled' = cancelled \ {c}
    /\ task' = [task EXCEPT ![c] = "committing"]
    /\ Record(c, "output")
    /\ UNCHANGED <<exists, lock, slot, begin, group, halt, target, histories>>

\* A cancellation inside create_subprocess_exec: asyncio kills the shell alone.
CancelStarting(c) ==
    /\ c \in cancelled /\ task[c] = "starting"
    /\ cancelled' = cancelled \ {c}
    /\ task' = [task EXCEPT ![c] = "cleanup"]
    /\ IF group[c] = "shell" THEN ShellGone(c) ELSE UNCHANGED group
    /\ UNCHANGED <<exists, lock, slot, begin, results, halt, target, histories>>

\* The readers have ended, and the stop is reported.
Cleaned(c) ==
    /\ task[c] = "cleanup"
    /\ task' = [task EXCEPT ![c] = "committing"]
    /\ cancelled' = cancelled \ {c}
    /\ Record(c, "error")
    /\ UNCHANGED <<exists, lock, slot, begin, group, halt, target, histories>>

\* A task that has not taken its first step never runs, not even its finally.
CancelUnstarted(c) ==
    /\ c \in cancelled /\ task[c] = "created"
    /\ cancelled' = cancelled \ {c}
    /\ task' = [task EXCEPT ![c] = "done"]
    /\ UNCHANGED <<exists, lock, slot, begin, group, results, halt, target, histories>>

\* A cancellation while the commit of the output is suspended reports the stop
\* as well; while that of an error is, the task ends.
CancelCommitting(c) ==
    /\ c \in cancelled /\ task[c] = "committing"
    /\ cancelled' = cancelled \ {c}
    /\ IF results[c] # <<>> /\ results[c][Len(results[c])] = "output"
       THEN Record(c, "error") /\ UNCHANGED <<task, slot, evicted>>
       ELSE /\ task' = [task EXCEPT ![c] = "done"] /\ PopSlot(c)
            /\ UNCHANGED results
    /\ UNCHANGED <<exists, lock, begin, group, halt, target, condemned>>

-----------------------------------------------------------------------------
(* halted_session: cancel_bash and, for Delete, teardown_session's commit *)

\* Stop sets the session idle, Delete removes it.
EndHalt(h) ==
    /\ halt' = [halt EXCEPT ![h] = "done"]
    /\ exists' = (exists /\ h \notin Deletes)

\* stop_locks: one Stop or Delete at a time.
Alone(h) == halt[h] = "new" /\ exists /\ \A g \in Halts : halt[g] # "join"

\* run_command waits, and not for a command that has ended already.
Waiting(c) ==
    \/ task[c] = "running" /\ group[c] = "shell"
    \/ task[c] \in {"terminating", "draining"}

\* cancel_bash takes the task out of the slot and cancels it.
CancelBash(h) ==
    /\ Alone(h)
    /\ Occupied
    /\ halt' = [halt EXCEPT ![h] = "join"]
    /\ target' = [target EXCEPT ![h] = slot]
    /\ cancelled' = cancelled \cup {slot}
    /\ slot' = None
    /\ condemned' = IF Waiting(slot) THEN condemned \cup {slot} ELSE condemned
    /\ UNCHANGED <<exists, lock, begin, task, group, results, evicted>>

\* With nothing in the slot cancel_bash does not suspend.
NothingToCancel(h) ==
    /\ Alone(h)
    /\ ~Occupied
    /\ slot' = None
    /\ EndHalt(h)
    /\ UNCHANGED <<lock, begin, task, group, results, cancelled, target, histories>>

\* Mutant: cancel_bash does not wait for the task to end.
HaltUnjoined(h) ==
    /\ halt[h] = "join"
    /\ EndHalt(h)
    /\ UNCHANGED <<lock, slot, begin, task, group, results, cancelled, target, histories>>

HaltEnds(h) ==
    /\ halt[h] = "join" /\ ~Live(target[h])
    /\ EndHalt(h)
    /\ UNCHANGED <<lock, slot, begin, task, group, results, cancelled, target, histories>>

-----------------------------------------------------------------------------
Begin(c) == LogCommand(c) \/ StartTask(c) \/ CancelBegin(c)

\* What run_bash does without waiting for the command to exit.
Progress(c) ==
    \/ Spawn(c) \/ Started(c) \/ SpawnFails(c) \/ TimesOut(c) \/ Escalates(c) \/ Drained(c)
    \/ Returns(c) \/ CancelRunning(c) \/ CancelStarting(c) \/ Cleaned(c)
    \/ CancelUnstarted(c) \/ CancelCommitting(c) \/ CancelLost(c)

\* What the command does by itself, and what follows when it has exited.
Command(c) == ShellEnds(c) \/ Exits(c)

Halting(h) == CancelBash(h) \/ NothingToCancel(h) \/ HaltEnds(h)

Next ==
    \/ \E c \in Commands : Begin(c) \/ Progress(c) \/ Command(c)
    \/ \E h \in Halts : Halting(h)

Spec == Init /\ [][Next]_vars

(* A task that may take a step takes one: the deadline of a running command  *)
(* passes, SIGKILL ends its group, closed pipes end its readers.  Nothing is  *)
(* assumed of the command itself, which may run for ever.                     *)
FairSpec ==
    /\ Spec
    /\ \A c \in Commands : WF_vars(Progress(c))

-----------------------------------------------------------------------------
(* Properties *)

TypeOK ==
    /\ exists \in BOOLEAN
    /\ lock \in Commands \cup {None} /\ slot \in Commands \cup {None}
    /\ begin \in [Commands -> BeginPC] /\ task \in [Commands -> TaskPC]
    /\ group \in [Commands -> Groups]
    /\ results \in [Commands -> Seq({"output", "error"})]
    /\ cancelled \subseteq Commands
    /\ halt \in [Halts -> {"new", "join", "done"}]
    /\ target \in [Halts -> Commands \cup {None}]
    /\ evicted \subseteq Commands /\ condemned \subseteq Commands

(* One shell command at a time per session, whatever ended the others: false, *)
(* see StartsExclude for how far it goes.                                     *)
OneCommand == \A c, d \in Commands : Live(c) /\ Live(d) => c = d

\* A Stop or Delete took c out of the slot.
Targeted(c) == \E h \in Halts : target[h] = c

(* Of two commands at work one was taken out of the slot by a Stop or Delete, *)
(* or lost its entry to the finally of another, although the check of the    *)
(* slot and the creation of the task are separated by a commit that may      *)
(* suspend (begin_bash); and no entry is lost before a Stop or Delete has    *)
(* found a command (run_bash's finally, cancel_bash).                        *)
StartsExclude ==
    /\ \A c, d \in Commands : c # d /\ Live(c) /\ Live(d) =>
           \E e \in {c, d} : Targeted(e) \/ e \in evicted
    /\ evicted # {} => \E c \in Commands : Targeted(c)

(* A command that has ended has exactly one result in the transcript.        *)
OneResult == \A c \in Commands : exists /\ task[c] = "done" => Len(results[c]) = 1

(* A command that no Stop or Delete found in the slot ends with exactly one  *)
(* result, whatever ended it and whoever was stopped; one that was stopped   *)
(* has at most its output and the report of the stop (run_bash).             *)
ResultsComplete ==
    \A c \in Commands :
        IF Targeted(c)
        THEN results[c] \in {<<>>, <<"output">>, <<"error">>, <<"output", "error">>}
        ELSE exists /\ task[c] = "done" => Len(results[c]) = 1

(* However a task ends, by itself, at the deadline, by Stop or by Delete in  *)
(* any of its states, the shell has ended before it; and if the deadline had *)
(* passed, or the shell ran when it was stopped, its whole group has.        *)
NoStrayGroup ==
    \A c \in Commands : task[c] = "done" =>
        /\ group[c] # "shell"
        /\ c \in condemned => group[c] = "dead"

(* A command that was stopped after its process was made leaves no process:  *)
(* false of one stopped while create_subprocess_exec waits, and of one       *)
(* stopped while the commit of its output is suspended.                      *)
StoppedIsDead ==
    \A c \in Commands : Targeted(c) /\ task[c] = "done" => group[c] \in {"none", "dead"}

(* Deleting a session cancels its command: a deleted session has none.       *)
DeletedHasNoCommand == ~exists => \A c \in Commands : ~Live(c)

(* A Stop or Delete that found a command in the slot ends only after that    *)
(* command's last row, and the command writes nothing more afterwards.       *)
StopIsFinal ==
    [][\A h \in Halts : halt[h] = "done" /\ target[h] # None
           => results'[target[h]] = results[target[h]]]_vars

(* A command that was started ends, through its deadline if need be.         *)
CommandsEnd == \A c \in Commands : task[c] = "created" ~> task[c] = "done"

=============================================================================
