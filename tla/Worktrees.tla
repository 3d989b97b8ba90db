------------------------------- MODULE Worktrees ------------------------------
(***************************************************************************)
(* Projects, worktrees and the sessions in them: the handlers of           *)
(* /projects, /worktrees and POST /sessions (main.py) with their rows      *)
(* (db.py) and the git processes they wait for (git.py).                   *)
(*                                                                         *)
(* A step is what a handler does between two awaits; a git process acts at *)
(* some moment while its handler waits.  All projects have the same path,  *)
(* so at most one is registered.  A row of the table worktrees has the     *)
(* name of the POST /worktrees that inserts it.                            *)
(***************************************************************************)
EXTENDS Naturals, FiniteSets

CONSTANTS
    Paths,         \* directories for worktrees
    Home,          \* the directory of the project
    Worktrees,     \* calls of POST /worktrees
    Sessions,      \* calls of POST /sessions, and the sessions they make
    Commands,      \* tasks of shell commands, each used again after it has ended
    Removals,      \* calls of DELETE /worktrees/{id}
    Forgets,       \* calls of DELETE /projects
    MaxProjects,   \* registrations of the project
    MaxCrashes,
    None

ASSUME WorktreesAssumption ==
    /\ Home \notin Paths
    /\ None \notin Paths \cup Worktrees \cup Sessions \cup Commands \cup Removals \cup {Home}
    /\ MaxProjects \in Nat \ {0} /\ MaxCrashes \in Nat

VARIABLES
    project,       \* id of the registered project, or 0
    lastProject,   \* ids are never used again
    rows,          \* worktrees: those with a row
    sessions,      \* sessions: those with a row
    owner,         \* project_id of a session
    link,          \* worktree_id of a session
    detached,      \* detached_working_dir of a session
    turning,       \* sessions that are not idle: a turn is at work
    work,          \* the session a command runs in
    slot,          \* bash_tasks: the command that a session knows of
    stopped,       \* history: sessions in which a Stop or Delete found a command
    lock,          \* the removal that holds turn_lock
    creating,      \* create_worktree: pc
    at, of,        \* and its path and its project
    removing,      \* delete_worktree: pc
    aim,           \* and its worktree
    forgetting,    \* delete_project: pc
    doomed,        \* its sessions still to tear down
    tearing,       \* the one being torn down
    joined,        \* the command that is waited for
    target,        \* and its project
    sweep,         \* and the paths still to remove
    registered,    \* paths git has registered as worktrees
    dir,           \* what is at a path
    unclaimed,     \* history: registrations the server knowingly gave up
    crashes

dbVars     == <<project, lastProject, rows, sessions, owner, link, detached>>
workVars   == <<turning, work, slot, stopped>>
createVars == <<creating, at, of>>
removeVars == <<lock, removing, aim>>
forgetVars == <<forgetting, target, doomed, tearing, joined, sweep>>
gitVars    == <<registered, dir>>
auxVars    == <<unclaimed, crashes>>
vars == <<dbVars, workVars, createVars, removeVars, forgetVars, gitVars, auxVars>>

\* _SESSION_QUERY: the directory a session works in.
WorkingDir(s) ==
    IF link[s] # None THEN at[link[s]]
    ELSE IF detached[s] # None THEN detached[s] ELSE Home

Init ==
    /\ project = 1 /\ lastProject = 1
    /\ rows = {} /\ sessions = {}
    /\ owner = [s \in Sessions |-> 0]
    /\ link = [s \in Sessions |-> None] /\ detached = [s \in Sessions |-> None]
    /\ turning = {} /\ work = [c \in Commands |-> None]
    /\ slot = [s \in Sessions |-> None] /\ stopped = {} /\ lock = None
    /\ creating = [w \in Worktrees |-> "new"]
    /\ at = [w \in Worktrees |-> None] /\ of = [w \in Worktrees |-> 0]
    /\ removing = [r \in Removals |-> "new"] /\ aim = [r \in Removals |-> None]
    /\ forgetting = [f \in Forgets |-> "new"] /\ doomed = [f \in Forgets |-> {}]
    /\ tearing = [f \in Forgets |-> None] /\ joined = [f \in Forgets |-> None]
    /\ target = [f \in Forgets |-> 0] /\ sweep = [f \in Forgets |-> {}]
    /\ registered = {} /\ dir = [p \in Paths |-> "missing"]
    /\ unclaimed = {} /\ crashes = 0

-----------------------------------------------------------------------------
(* git worktree add and git worktree remove *)

\* git takes over an empty directory and refuses another.  It may fail, and
\* it may have finished when the timeout kills it.
GitAdds(p, ok) ==
    \/ /\ p \notin registered /\ dir[p] \in {"missing", "empty"}
       /\ registered' = registered \cup {p} /\ dir' = [dir EXCEPT ![p] = "full"]
    \/ ~ok /\ UNCHANGED gitVars

\* Never forced: modified files are a reason to refuse.
GitRemoves(p, ok) ==
    \/ /\ p \in registered /\ dir[p] \in {"full", "missing"}
       /\ registered' = registered \ {p} /\ dir' = [dir EXCEPT ![p] = "missing"]
    \/ ~ok /\ UNCHANGED gitVars

\* A crash leaves the process without a handler to see its success.
GitRuns(pc, waiting, ok) == pc = waiting \/ (pc = "orphaned" /\ ~ok)

-----------------------------------------------------------------------------
(* create_project, create_session_operation *)

\* Adopts what exists already.
CreateProject ==
    /\ project = 0 /\ lastProject < MaxProjects
    /\ project' = lastProject + 1 /\ lastProject' = lastProject + 1
    /\ UNCHANGED <<rows, sessions, owner, link, detached, workVars, createVars,
                   removeVars, forgetVars, gitVars, auxVars>>

\* Checks and insertion without an await between them, and without turn_lock.
CreateSession(s, w) ==
    /\ owner[s] = 0 /\ project # 0
    /\ w # None => w \in rows /\ of[w] = project
    /\ sessions' = sessions \cup {s}
    /\ owner' = [owner EXCEPT ![s] = project]
    /\ link' = [link EXCEPT ![s] = w]
    /\ UNCHANGED <<project, lastProject, rows, detached, workVars, createVars,
                   removeVars, forgetVars, gitVars, auxVars>>

-----------------------------------------------------------------------------
(* Turns and shell commands, seen from here: each works in the directory of  *)
(* its session, which WorkingDirFixed says does not change                   *)

BeginTurn(s) ==
    /\ lock = None /\ s \in sessions \ turning
    /\ \A f \in Forgets : tearing[f] # s
    /\ turning' = turning \cup {s}
    /\ UNCHANGED <<dbVars, work, slot, stopped, createVars, removeVars, forgetVars,
                   gitVars, auxVars>>

EndTurn(s) ==
    /\ s \in turning /\ turning' = turning \ {s}
    /\ UNCHANGED <<dbVars, work, slot, stopped, createVars, removeVars, forgetVars,
                   gitVars, auxVars>>

\* begin_bash looks at the slot only, not at commands out of it, nor at Stop or
\* Delete.
BeginCommand(s, c) ==
    /\ lock = None /\ s \in sessions /\ slot[s] = None /\ work[c] = None
    /\ work' = [work EXCEPT ![c] = s] /\ slot' = [slot EXCEPT ![s] = c]
    /\ UNCHANGED <<dbVars, turning, stopped, createVars, removeVars, forgetVars,
                   gitVars, auxVars>>

\* cancel_bash takes the command out of its slot before the command ends.
TakeFromSlot(s) ==
    /\ slot' = [slot EXCEPT ![s] = None]
    /\ stopped' = IF slot[s] = None THEN stopped ELSE stopped \cup {s}

StopCommand(s) ==
    /\ s \in sessions /\ slot[s] # None /\ TakeFromSlot(s)
    /\ UNCHANGED <<dbVars, turning, work, createVars, removeVars, forgetVars,
                   gitVars, auxVars>>

\* The finally of run_bash empties the slot, whichever command is in it; one that
\* was cancelled before its first step has no finally.
EndCommand(c) ==
    LET s == work[c]
    IN  /\ s # None
        /\ work' = [work EXCEPT ![c] = None]
        /\ \/ slot' = [slot EXCEPT ![s] = None]
           \/ slot[s] # c /\ UNCHANGED slot
        /\ joined' = [f \in Forgets |-> IF joined[f] = c THEN None ELSE joined[f]]
        /\ UNCHANGED <<dbVars, turning, stopped, createVars, removeVars, forgetting,
                       target, doomed, tearing, sweep, gitVars, auxVars>>

-----------------------------------------------------------------------------
(* create_worktree *)

\* No row has the path, and nothing is in the way; then git is asked about the
\* repository and the branch.
CheckPath(w, p) ==
    /\ creating[w] = "new" /\ project # 0
    /\ ~ \E v \in rows : at[v] = p
    /\ dir[p] \in {"missing", "empty"}
    /\ creating' = [creating EXCEPT ![w] = "checking"]
    /\ at' = [at EXCEPT ![w] = p] /\ of' = [of EXCEPT ![w] = project]
    /\ UNCHANGED <<dbVars, workVars, removeVars, forgetVars, gitVars, auxVars>>

\* mkdir, and git worktree add is started.
MakeDirectory(w) ==
    /\ creating[w] = "checking"
    /\ creating' = [creating EXCEPT ![w] = "adding"]
    /\ dir' = [dir EXCEPT ![at[w]] = IF @ = "missing" THEN "empty" ELSE @]
    /\ UNCHANGED <<dbVars, workVars, at, of, removeVars, forgetVars, registered,
                   auxVars>>

\* Not a repository, not a branch name, or no directory.
RejectWorktree(w) ==
    /\ creating[w] = "checking"
    /\ creating' = [creating EXCEPT ![w] = "rejected"]
    /\ UNCHANGED <<dbVars, workVars, at, of, removeVars, forgetVars, gitVars, auxVars>>

\* An error of git is reported and nothing is undone.
AddTree(w, ok) ==
    /\ GitRuns(creating[w], "adding", ok)
    /\ GitAdds(at[w], ok)
    /\ creating' = [creating EXCEPT ![w] = IF ok THEN "added" ELSE "rejected"]
    /\ unclaimed' = IF ok THEN unclaimed \ {at[w]}
                          ELSE unclaimed \cup (registered' \ registered)
    /\ UNCHANGED <<dbVars, workVars, at, of, removeVars, forgetVars, crashes>>

\* Mutant: the table does not keep paths unique.
InsertableTwice(w) == of[w] = project

\* The foreign key and the UNIQUE of the table.
Insertable(w) == of[w] = project /\ ~ \E v \in rows : at[v] = at[w]

InsertRow(w) ==
    /\ creating[w] = "added" /\ Insertable(w)
    /\ creating' = [creating EXCEPT ![w] = "created"]
    /\ rows' = rows \cup {w}
    /\ UNCHANGED <<project, lastProject, sessions, owner, link, detached, workVars, at,
                   of, removeVars, forgetVars, gitVars, auxVars>>

\* Mutant: the directory is not taken back.
InsertFailsBare(w) ==
    /\ creating[w] = "added" /\ ~Insertable(w)
    /\ creating' = [creating EXCEPT ![w] = "rejected"]
    /\ UNCHANGED <<dbVars, workVars, at, of, removeVars, forgetVars, gitVars, auxVars>>

InsertFails(w) ==
    /\ creating[w] = "added" /\ ~Insertable(w)
    /\ creating' = [creating EXCEPT ![w] = "unwinding"]
    /\ UNCHANGED <<dbVars, workVars, at, of, removeVars, forgetVars, gitVars, auxVars>>

\* Whether git took it back is not looked at.
TakeBack(w, ok) ==
    /\ creating[w] = "unwinding"
    /\ GitRemoves(at[w], ok)
    /\ creating' = [creating EXCEPT ![w] = "rejected"]
    /\ unclaimed' = unclaimed \cup ({at[w]} \cap registered')
    /\ UNCHANGED <<dbVars, workVars, at, of, removeVars, forgetVars, crashes>>

-----------------------------------------------------------------------------
(* delete_worktree, under turn_lock *)

Busy(s) == s \in turning \/ slot[s] # None

BusyIn(w) == {s \in sessions : WorkingDir(s) = at[w] /\ Busy(s)}

\* Mutant: the lock is not taken.
CheckIdleUnlocked(r, w) ==
    /\ removing[r] = "new" /\ lock = None /\ w \in rows
    /\ IF BusyIn(w) = {} THEN removing' = [removing EXCEPT ![r] = "listing"]
                         ELSE removing' = [removing EXCEPT ![r] = "refused"]
    /\ aim' = [aim EXCEPT ![r] = w]
    /\ UNCHANGED <<dbVars, workVars, createVars, forgetVars, gitVars, lock, auxVars>>

CheckIdle(r, w) ==
    /\ removing[r] = "new" /\ lock = None /\ w \in rows
    /\ IF BusyIn(w) = {}
       THEN removing' = [removing EXCEPT ![r] = "listing"] /\ lock' = r
       ELSE removing' = [removing EXCEPT ![r] = "refused"] /\ UNCHANGED lock
    /\ aim' = [aim EXCEPT ![r] = w]
    /\ UNCHANGED <<dbVars, workVars, createVars, forgetVars, gitVars, auxVars>>

\* git lists its worktrees.
ListTrees(r) ==
    /\ removing[r] = "listing"
    /\ \/ /\ removing' = [removing EXCEPT ![r] =
                IF at[aim[r]] \in registered THEN "removing" ELSE "removed"]
          /\ UNCHANGED lock
       \/ removing' = [removing EXCEPT ![r] = "refused"] /\ lock' = None
    /\ UNCHANGED <<dbVars, workVars, createVars, aim, forgetVars, gitVars, auxVars>>

\* Mutant: the lock survives a refusal.
RemoveTreeKeepingLock(r, ok) ==
    /\ GitRuns(removing[r], "removing", ok)
    /\ GitRemoves(at[aim[r]], ok)
    /\ removing' = [removing EXCEPT ![r] = IF ok THEN "removed" ELSE "refused"]
    /\ UNCHANGED <<dbVars, workVars, createVars, lock, aim, forgetVars, auxVars>>

RemoveTree(r, ok) ==
    /\ GitRuns(removing[r], "removing", ok)
    /\ GitRemoves(at[aim[r]], ok)
    /\ removing' = [removing EXCEPT ![r] = IF ok THEN "removed" ELSE "refused"]
    /\ lock' = IF lock = r /\ ~ok THEN None ELSE lock
    /\ UNCHANGED <<dbVars, workVars, createVars, aim, forgetVars, auxVars>>

\* Mutant: the directory of the former worktree is not kept.
ForgetDirectory(w) == detached

Detach(w) == [s \in Sessions |-> IF link[s] = w THEN at[w] ELSE detached[s]]

DeleteRow(r) ==
    /\ removing[r] = "removed"
    /\ removing' = [removing EXCEPT ![r] = "done"] /\ lock' = None
    /\ detached' = Detach(aim[r])
    /\ link' = [s \in Sessions |-> IF link[s] = aim[r] THEN None ELSE link[s]]
    /\ rows' = rows \ {aim[r]}
    /\ UNCHANGED <<project, lastProject, sessions, owner, workVars, createVars, aim,
                   forgetVars, gitVars, auxVars>>

-----------------------------------------------------------------------------
(* delete_project *)

SessionsOf(id) == {s \in sessions : owner[s] = id}

ListSessions(f) ==
    /\ forgetting[f] = "new" /\ project # 0
    /\ forgetting' = [forgetting EXCEPT ![f] = "sessions"]
    /\ doomed' = [doomed EXCEPT ![f] = SessionsOf(project)]
    /\ target' = [target EXCEPT ![f] = project]
    /\ UNCHANGED <<dbVars, workVars, createVars, removeVars, tearing, joined, sweep,
                   gitVars, auxVars>>

\* teardown_session takes turn_lock, ends the turn and stops the command it finds ...
HaltSession(f, s) ==
    /\ forgetting[f] = "sessions" /\ tearing[f] = None /\ s \in doomed[f] /\ lock = None
    /\ doomed' = [doomed EXCEPT ![f] = @ \ {s}]
    /\ tearing' = [tearing EXCEPT ![f] = s]
    /\ joined' = [joined EXCEPT ![f] = slot[s]]
    /\ turning' = turning \ {s} /\ TakeFromSlot(s)
    /\ UNCHANGED <<dbVars, work, createVars, removeVars, forgetting, target, sweep,
                   gitVars, auxVars>>

\* ... and drops the row when that has ended; another command may have begun.
TearDown(f) ==
    /\ tearing[f] # None /\ joined[f] = None
    /\ sessions' = sessions \ {tearing[f]}
    /\ tearing' = [tearing EXCEPT ![f] = None]
    /\ UNCHANGED <<project, lastProject, rows, owner, link, detached, workVars,
                   createVars, removeVars, forgetting, target, doomed, joined, sweep,
                   gitVars, auxVars>>

ListWorktrees(f) ==
    /\ forgetting[f] = "sessions" /\ doomed[f] = {} /\ tearing[f] = None
    /\ forgetting' = [forgetting EXCEPT ![f] = "worktrees"]
    /\ sweep' = [sweep EXCEPT ![f] = {at[w] : w \in {v \in rows : of[v] = target[f]}}]
    /\ UNCHANGED <<dbVars, workVars, createVars, removeVars, target, doomed, tearing,
                   joined, gitVars, auxVars>>

\* An error is reported and the row goes all the same.
SweepTree(f, p, ok) ==
    /\ forgetting[f] = "worktrees" /\ p \in sweep[f]
    /\ GitRemoves(p, ok)
    /\ sweep' = [sweep EXCEPT ![f] = @ \ {p}]
    /\ UNCHANGED <<dbVars, workVars, createVars, removeVars, forgetting, target,
                   doomed, tearing, joined, auxVars>>

\* The rows go in one transaction, found by the path of the project.
ForgetProject(f) ==
    /\ forgetting[f] = "worktrees" /\ sweep[f] = {}
    /\ forgetting' = [forgetting EXCEPT ![f] = "done"]
    /\ project' = 0
    /\ sessions' = sessions \ SessionsOf(project)
    /\ rows' = {w \in rows : of[w] # project}
    /\ unclaimed' = unclaimed \cup (registered \cap {at[w] : w \in rows \ rows'})
    /\ UNCHANGED <<lastProject, owner, link, detached, workVars, createVars,
                   removeVars, target, doomed, tearing, joined, sweep, gitVars, crashes>>

\* A session whose adapter cannot be stopped ends the request.
ForgetFails(f) ==
    /\ forgetting[f] = "sessions" /\ tearing[f] = None /\ doomed[f] # {} /\ lock = None
    /\ forgetting' = [forgetting EXCEPT ![f] = "failed"]
    /\ UNCHANGED <<dbVars, workVars, createVars, removeVars, target, doomed, tearing,
                   joined, sweep, gitVars, auxVars>>

-----------------------------------------------------------------------------
(* The environment *)

\* A user removes a worktree by hand, through git or not.
UserRemoves(p) ==
    /\ dir[p] = "full"
    /\ dir' = [dir EXCEPT ![p] = "missing"]
    /\ registered' \in {registered, registered \ {p}}
    /\ UNCHANGED <<dbVars, workVars, createVars, removeVars, forgetVars, auxVars>>

\* The rows and what git has registered are what is left.
Crash ==
    /\ crashes < MaxCrashes /\ crashes' = crashes + 1
    /\ turning' = {} /\ work' = [c \in Commands |-> None]
    /\ slot' = [s \in Sessions |-> None] /\ stopped' = {} /\ lock' = None
    /\ tearing' = [f \in Forgets |-> None] /\ joined' = [f \in Forgets |-> None]
    /\ creating' = [w \in Worktrees |->
          CASE creating[w] = "adding" -> "orphaned"
            [] creating[w] \in {"checking", "added", "unwinding"} -> "rejected"
            [] OTHER -> creating[w]]
    /\ removing' = [r \in Removals |->
          CASE removing[r] = "removing" -> "orphaned"
            [] removing[r] \in {"listing", "removed"} -> "refused"
            [] OTHER -> removing[r]]
    /\ forgetting' = [f \in Forgets |->
          IF forgetting[f] \in {"sessions", "worktrees"} THEN "failed" ELSE forgetting[f]]
    /\ unclaimed' = unclaimed \cup (registered \cap
          {at[w] : w \in {v \in Worktrees : creating[v] \in {"added", "unwinding"}}})
    /\ UNCHANGED <<dbVars, at, of, aim, target, doomed, sweep, gitVars>>

Create(w) ==
    \/ MakeDirectory(w) \/ RejectWorktree(w) \/ InsertRow(w) \/ InsertFails(w)
    \/ \E ok \in BOOLEAN : AddTree(w, ok) \/ TakeBack(w, ok)

Remove(r) ==
    \/ ListTrees(r) \/ DeleteRow(r)
    \/ \E ok \in BOOLEAN : RemoveTree(r, ok)

Forget(f) ==
    \/ \E s \in Sessions : HaltSession(f, s)
    \/ TearDown(f) \/ ListWorktrees(f) \/ ForgetProject(f) \/ ForgetFails(f)
    \/ \E p \in Paths, ok \in BOOLEAN : SweepTree(f, p, ok)

Next ==
    \/ CreateProject
    \/ \E s \in Sessions, w \in Worktrees \cup {None} : CreateSession(s, w)
    \/ \E s \in Sessions : BeginTurn(s) \/ EndTurn(s) \/ StopCommand(s)
    \/ \E s \in Sessions, c \in Commands : BeginCommand(s, c)
    \/ \E c \in Commands : EndCommand(c)
    \/ \E w \in Worktrees, p \in Paths : CheckPath(w, p)
    \/ \E w \in Worktrees : Create(w)
    \/ \E r \in Removals, w \in Worktrees : CheckIdle(r, w)
    \/ \E r \in Removals : Remove(r)
    \/ \E f \in Forgets : ListSessions(f) \/ Forget(f)
    \/ \E p \in Paths : UserRemoves(p)
    \/ Crash

Spec == Init /\ [][Next]_vars

\* The command that a deletion waits for.
JoinedEnds(f) == joined[f] # None /\ EndCommand(joined[f])

\* A handler goes on when what it awaits has ended, git is killed after a time, a
\* command that was stopped ends, and turn_lock serves its waiters in order.
Fairness ==
    /\ \A r \in Removals : WF_vars(Remove(r))
    /\ \A f \in Forgets : WF_vars(JoinedEnds(f)) /\ SF_vars(Forget(f))

FairSpec == Spec /\ Fairness

-----------------------------------------------------------------------------
(* Properties *)

\* Types, with what the schema enforces: foreign keys and unique paths.
TypeOK ==
    /\ project \in {0, lastProject} /\ lastProject \in 1..MaxProjects
    /\ rows \subseteq Worktrees /\ sessions \subseteq Sessions
    /\ owner \in [Sessions -> 0..MaxProjects]
    /\ link \in [Sessions -> Worktrees \cup {None}]
    /\ detached \in [Sessions -> Paths \cup {None}]
    /\ turning \subseteq Sessions /\ work \in [Commands -> Sessions \cup {None}]
    /\ slot \in [Sessions -> Commands \cup {None}] /\ stopped \subseteq Sessions
    /\ lock \in Removals \cup {None}
    /\ creating \in [Worktrees -> {"new", "checking", "adding", "added", "created",
                                   "unwinding", "rejected", "orphaned"}]
    /\ at \in [Worktrees -> Paths \cup {None}] /\ of \in [Worktrees -> 0..MaxProjects]
    /\ removing \in [Removals -> {"new", "listing", "removing", "removed", "done",
                                  "refused", "orphaned"}]
    /\ aim \in [Removals -> Worktrees \cup {None}]
    /\ forgetting \in [Forgets -> {"new", "sessions", "worktrees", "done", "failed"}]
    /\ target \in [Forgets -> 0..MaxProjects]
    /\ tearing \in [Forgets -> Sessions \cup {None}]
    /\ joined \in [Forgets -> Commands \cup {None}]
    /\ doomed \in [Forgets -> SUBSET Sessions] /\ sweep \in [Forgets -> SUBSET Paths]
    /\ registered \subseteq Paths /\ dir \in [Paths -> {"missing", "empty", "full"}]
    /\ unclaimed \subseteq Paths /\ crashes \in 0..MaxCrashes
    /\ \A w \in rows : of[w] = project /\ \A v \in rows : at[v] = at[w] => v = w
    /\ \A s \in sessions : owner[s] = project /\ link[s] \in rows \cup {None}

\* The sessions that have w as their directory, attached to it or left there by an
\* earlier worktree of its path.
SessionsIn(w) == {s \in sessions : WorkingDir(s) = at[w]}

\* While delete_worktree waits for git, no turn of a session works in the
\* directory and none begins, and no command works there but one that the finally
\* of another or Stop itself took out of its slot, in a session in which a Stop or
\* Delete has found a command since the start of the server.
RemovalExcludesWork ==
    \A r \in Removals : removing[r] \in {"listing", "removing"} =>
        \A s \in SessionsIn(aim[r]) :
            /\ s \notin turning
            /\ \A c \in Commands : work[c] = s => slot[s] # c /\ s \in stopped

\* The docstring of session_is_busy, "whether anything is still running": no
\* command at all works there, nor anything while a git works that a crash left
\* behind.  False.
RemovalExcludesAll ==
    \A r \in Removals : removing[r] \in {"listing", "removing", "orphaned"} =>
        \A s \in SessionsIn(aim[r]) :
            s \notin turning /\ \A c \in Commands : work[c] # s

\* What git has registered for the server has a row, or its creation or its
\* undoing is under way, or the server gave it up: a crash, a timeout, or a
\* removal that git refused.
TreesClaimed ==
    registered \subseteq unclaimed \cup
        {at[w] : w \in rows \cup {v \in Worktrees : creating[v] \in {"added", "unwinding"}}}

\* A session's directory stays what it was when the session was created, through
\* removals of its worktree, the reuse of its path and crashes.
WorkingDirFixed ==
    [][\A s \in sessions \cap sessions' : WorkingDir(s)' = WorkingDir(s)]_vars

\* Every deletion of a worktree or a project ends, although removals hold the lock
\* while git runs and project deletions need it once for each session and wait for
\* the command they have stopped.
RequestsEnd ==
    /\ \A r \in Removals : removing[r] # "new" ~> removing[r] \in {"done", "refused"}
    /\ \A f \in Forgets : forgetting[f] # "new" ~> forgetting[f] \in {"done", "failed"}

\* The comment in delete_project: the worktrees are removed when the sessions of
\* the project "are all gone".
SessionsFirst ==
    \A f \in Forgets : forgetting[f] = "worktrees" => SessionsOf(target[f]) = {}
=============================================================================
