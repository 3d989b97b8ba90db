---------------------------- MODULE FileTreeSync ----------------------------
(***************************************************************************)
(* How a file tree follows the disk: scan_tree, _read_ready, _event_loop,  *)
(* _process_batch, _reconcile and _rebuild of file_tree.py, with inotify   *)
(* and the programs that change the working directory as environment.      *)
(*                                                                         *)
(* A scan runs in a thread: the disk changes between any two of its system *)
(* calls.  A directory is an inode, with or without a place on the disk; a *)
(* path is a sequence of names from the root.                              *)
(***************************************************************************)
EXTENDS Naturals, Sequences, FiniteSets, SequencesExt

CONSTANTS
    Dirs, Root,      \* directories
    Names,
    Ignored,         \* the name the ignore file can exclude
    MaxPatch,        \* MAX_FILE_TREE_PATCH_PATHS
    QueueSize,       \* events the kernel holds
    MaxChanges,      \* bound: changes to the disk
    MaxFiles,        \* bound: files of the initial disk
    None

ASSUME FileTreeSyncAssumption ==
    /\ IsFiniteSet(Dirs) /\ Root \notin Dirs /\ None \notin Dirs \cup {Root} /\ Ignored \in Names
    /\ None \notin (Dirs \cup {Root, None}) \X Names
    /\ Names \cap {"self", "ignore file", "overflow"} = {}   \* what events say else
    /\ MaxPatch \in Nat /\ QueueSize \in Nat /\ MaxChanges \in Nat /\ MaxFiles \in Nat

VARIABLES
    \* the disk
    place,           \* of a directory: <<parent, name>>, or None
    files,           \* places of files
    ignoring,        \* the ignore file excludes Ignored
    changes,
    \* inotify
    wdOf,            \* of a watched directory, 0 if it is not
    nextWd,
    kernel,          \* events
    \* the tree
    phase,           \* of its event task
    queue,           \* event_queue
    entries,
    wds,             \* wd_to_directory: pairs <<wd, path>>
    spec,            \* the ignore file as it was read
    view,            \* what a client has
    \* the scan in its thread
    todo,            \* steps that are left
    found,           \* its entries
    foundWds,        \* its wd_to_directory
    seen,            \* seen_directories
    raced            \* a directory was moved, alone or inside another, that the
                     \* tree, with work to do, knew by its old place

diskVars    == <<place, files, ignoring, changes>>
inotifyVars == <<wdOf, nextWd, kernel>>
treeVars    == <<entries, wds, spec, view>>
scanVars    == <<todo, found, foundWds, seen>>
vars == <<diskVars, inotifyVars, phase, queue, treeVars, scanVars, raced>>

Nodes == Dirs \cup {Root}
Places == Nodes \X Names
Self == "self"                     \* DELETE_SELF, MOVE_SELF or IGNORED
IgnoreFile == "ignore file"
Overflow == <<0, "overflow">>

-----------------------------------------------------------------------------
(* The disk *)

\* The directory of a name in another, or None.
Child(d, n) ==
    LET here == {c \in Dirs : place[c] = <<d, n>>}
    IN  IF here = {} THEN None ELSE CHOOSE c \in here : TRUE

\* The directory a path leads to from another, or None.
DirFrom(from, p) ==
    LET d[i \in 0..Len(p)] == IF i = 0 THEN from ELSE Child(d[i - 1], p[i])
    IN  d[Len(p)]

Dir(p) == DirFrom(Root, p)

IsFile(p) == p # <<>> /\ <<Dir(Front(p)), Last(p)>> \in files

Paths == UNION {[1..n -> Names] : n \in 0..(Cardinality(Dirs) + 1)}

\* The directories that move with one.
Inside(d) == {DirFrom(d, p) : p \in Paths}

\* _is_ignored
Excluded(by, p) == by /\ Ignored \in Range(p)

\* What the tree is to show.
Index ==
    {<<p, "dir">> : p \in {q \in Paths \ {<<>>} : Dir(q) # None /\ ~Excluded(ignoring, q)}}
    \cup {<<p, "file">> : p \in {q \in Paths : IsFile(q) /\ ~Excluded(ignoring, q)}}

Free(at) == at \notin files /\ \A d \in Dirs : place[d] # at

Exists(d) == d # Root => place[d] # None

Children(d) == {n \in Names : ~Free(<<d, n>>)}

\* A change tells the watches of the directories it touches; the kernel replaces
\* what it has no room for by an overflow.
Tell(events) ==
    LET told == {<<wdOf[e[1]], e[2]>> : e \in {x \in events : wdOf[x[1]] # 0}}
    IN  /\ kernel' = IF Cardinality(kernel \cup told) > QueueSize
                     THEN kernel \cup {Overflow} ELSE kernel \cup told
        /\ changes < MaxChanges /\ changes' = changes + 1

Quiet == phase = "idle" /\ kernel = {} /\ queue = <<>>

\* The tree has work to do and knows d, or a directory inside it, by its old place.
Races(d) == raced \/ (~Quiet /\ \E c \in Inside(d) \ {None} : c \in seen \/ wdOf[c] # 0)

\* A file is created or deleted.
ChangeFile(at) ==
    /\ Exists(at[1])
    /\ \/ at \in files /\ files' = files \ {at}
       \/ Free(at) /\ files' = files \cup {at}
    /\ Tell({at})
    /\ UNCHANGED <<place, ignoring, wdOf, nextWd, phase, queue, treeVars, scanVars, raced>>

\* mkdir, or a directory is moved into the tree.
Appear(d, at) ==
    /\ place[d] = None /\ Free(at) /\ Exists(at[1]) /\ at[1] \notin Inside(d)
    /\ place' = [place EXCEPT ![d] = at]
    /\ Tell({at, <<d, Self>>})
    /\ raced' = Races(d)
    /\ UNCHANGED <<files, ignoring, wdOf, nextWd, phase, queue, treeVars, scanVars>>

\* It is moved out of the tree, its watch with it.
MoveOut(d) ==
    /\ place[d] # None
    /\ place' = [place EXCEPT ![d] = None]
    /\ Tell({place[d], <<d, Self>>})
    /\ UNCHANGED <<files, ignoring, wdOf, nextWd, phase, queue, treeVars, scanVars, raced>>

\* rmdir of an empty directory ends its watch.
RemoveDir(d) ==
    /\ place[d] # None /\ Children(d) = {}
    /\ place' = [place EXCEPT ![d] = None]
    /\ Tell({place[d], <<d, Self>>})
    /\ wdOf' = [wdOf EXCEPT ![d] = 0]
    /\ UNCHANGED <<files, ignoring, nextWd, phase, queue, treeVars, scanVars, raced>>

\* A directory is renamed within the tree.
Rename(d, at) ==
    /\ place[d] # None /\ Free(at) /\ Exists(at[1]) /\ at[1] \notin Inside(d)
    /\ place' = [place EXCEPT ![d] = at]
    /\ Tell({place[d], at, <<d, Self>>})
    /\ raced' = Races(d)
    /\ UNCHANGED <<files, ignoring, wdOf, nextWd, phase, queue, treeVars, scanVars>>

ChangeIgnoreFile ==
    /\ ignoring' = ~ignoring
    /\ Tell({<<Root, IgnoreFile>>})
    /\ UNCHANGED <<place, files, wdOf, nextWd, phase, queue, treeVars, scanVars, raced>>

-----------------------------------------------------------------------------
(* Events *)

\* _read_ready; the reader is removed while a scan runs.
ReadReady ==
    /\ phase = "idle" /\ kernel # {}
    /\ queue' = Append(queue, kernel) /\ kernel' = {}
    /\ UNCHANGED <<diskVars, wdOf, nextWd, phase, treeVars, scanVars, raced>>

\* The path an event of the watch of p is about.
About(e, p) == IF e[2] = Self THEN p ELSE Append(p, e[2])

\* The paths a batch affects, as the watches were when it was read.
Affected(batch) ==
    {About(x[1], x[2][2]) :
        x \in {y \in batch \X wds : y[1][1] = y[2][1] /\ y[1][2] # IgnoreFile}}

\* An ancestor subsumes its descendants.
Selected(paths) == {p \in paths : \A q \in paths : q # p => ~IsPrefix(q, p)}

\* Mutant: old locations are looked at one by one while the new ones are scanned.
UnderShortest(p, paths) ==
    \E q \in paths : IsPrefix(q, p) /\ \A r \in paths : Len(q) <= Len(r)

Under(p, paths) == \E q \in paths : IsPrefix(q, p)

\* Mutant: the watches of what has left the tree are kept.
StartReconcileKeeping(paths) ==
    LET gone == {w \in wds : Under(w[2], paths)} IN
    /\ phase' = "reconciling"
    /\ found' = {e \in entries : ~Under(e[1], paths)}
    /\ foundWds' = wds \ gone /\ seen' = {Dir(w[2]) : w \in wds \ gone}
    /\ todo' = {<<"look", p>> : p \in paths}
    /\ UNCHANGED <<wdOf, nextWd, kernel>>

\* _reconcile removes every old location first.
StartReconcile(paths) ==
    LET gone == {w \in wds : Under(w[2], paths)} IN
    /\ phase' = "reconciling"
    /\ found' = {e \in entries : ~Under(e[1], paths)}
    /\ foundWds' = wds \ gone
    /\ wdOf' = [d \in Nodes |-> IF \E w \in gone : w[1] = wdOf[d] THEN 0 ELSE wdOf[d]]
    /\ seen' = {Dir(w[2]) : w \in wds \ gone}
    /\ todo' = {<<"look", p>> : p \in paths}
    /\ UNCHANGED <<nextWd, kernel>>

ScanEnds == todo' = {} /\ found' = {} /\ foundWds' = {} /\ seen' = {}

\* _rebuild drains the queue and closes the old inotify; scan_tree opens another.
StartRebuild ==
    /\ phase' = "opening" /\ queue' = <<>>
    /\ wdOf' = [d \in Nodes |-> 0] /\ nextWd' = 1 /\ kernel' = {}
    /\ ScanEnds

\* _event_loop takes one batch or, until the deadline, several; _process_batch.
\* An overflow ends the tree.
ProcessBatch(n) ==
    LET batch == UNION {queue[i] : i \in 1..n}
        paths == Selected(Affected(batch))
    IN  /\ phase = "idle"
        /\ \/ /\ Overflow \in batch
              /\ phase' = "invalid" /\ UNCHANGED <<queue, inotifyVars, scanVars>>
           \/ /\ Overflow \notin batch /\ \E e \in batch : e[2] = IgnoreFile
              /\ StartRebuild
           \/ /\ Overflow \notin batch /\ \A e \in batch : e[2] # IgnoreFile
              /\ queue' = SubSeq(queue, n + 1, Len(queue))
              /\ IF paths = {} THEN UNCHANGED <<phase, inotifyVars, scanVars>>
                 ELSE StartReconcile(paths)
        /\ UNCHANGED <<diskVars, treeVars, raced>>

-----------------------------------------------------------------------------
(* The scan *)

\* scan_tree watches the root, then reads the ignore file.
WatchRoot ==
    /\ phase = "opening" /\ phase' = "loading"
    /\ wdOf' = [wdOf EXCEPT ![Root] = nextWd] /\ nextWd' = nextWd + 1
    /\ UNCHANGED <<diskVars, kernel, queue, treeVars, scanVars, raced>>

CompileIgnore ==
    /\ phase = "loading" /\ phase' = "rebuilding"
    /\ spec' = ignoring
    /\ todo' = {<<"watch", <<>> >>} /\ found' = {} /\ foundWds' = {} /\ seen' = {Root}
    /\ UNCHANGED <<diskVars, inotifyVars, queue, entries, wds, view, raced>>

Rest(stage, p) == todo \ {<<stage, p>>}

\* A child of a directory, or a selected path, as lstat finds it; a directory that
\* was seen is not entered.
Look(p) ==
    /\ <<"look", p>> \in todo
    /\ \/ /\ (Dir(p) = None /\ ~IsFile(p)) \/ Excluded(spec, p)
          /\ todo' = Rest("look", p) /\ UNCHANGED <<found, seen>>
       \/ /\ IsFile(p) /\ ~Excluded(spec, p)
          /\ todo' = Rest("look", p) /\ found' = found \cup {<<p, "file">>}
          /\ UNCHANGED seen
       \/ /\ Dir(p) # None /\ ~Excluded(spec, p) /\ Dir(p) \in seen
          /\ todo' = Rest("look", p) /\ found' = found \cup {<<p, "dir">>}
          /\ UNCHANGED seen
       \/ /\ Dir(p) # None /\ ~Excluded(spec, p) /\ Dir(p) \notin seen
          /\ todo' = Rest("look", p) \cup {<<"watch", p>>} /\ seen' = seen \cup {Dir(p)}
          /\ UNCHANGED found
    /\ UNCHANGED <<diskVars, inotifyVars, phase, queue, treeVars, foundWds, raced>>

\* add_watch gives a directory that is watched its old descriptor: an alias.
Watch(p) ==
    /\ <<"watch", p>> \in todo /\ Dir(p) # None
    /\ LET d == Dir(p)
           wd == IF wdOf[d] = 0 THEN nextWd ELSE wdOf[d]
       IN  /\ wdOf' = [wdOf EXCEPT ![d] = wd]
           /\ nextWd' = IF wdOf[d] = 0 THEN nextWd + 1 ELSE nextWd
           /\ IF \E w \in foundWds : w[1] = wd /\ w[2] # p
              THEN /\ found' = found \cup {<<p, "dir">>}
                   /\ todo' = Rest("watch", p) /\ UNCHANGED foundWds
              ELSE /\ foundWds' = foundWds \cup {<<wd, p>>}
                   /\ todo' = Rest("watch", p) \cup {<<"list", p>>} /\ UNCHANGED found
    /\ UNCHANGED <<diskVars, kernel, phase, queue, treeVars, seen, raced>>

\* The directory has vanished since it was looked at: the tree is invalidated.
WatchFails(p) ==
    /\ <<"watch", p>> \in todo /\ Dir(p) = None
    /\ phase' = "invalid" /\ ScanEnds
    /\ UNCHANGED <<diskVars, inotifyVars, queue, treeVars, raced>>

\* scandir.
List(p) ==
    /\ <<"list", p>> \in todo
    /\ IF Dir(p) = None
       THEN LET gone == {w \in foundWds : w[2] = p} IN
            /\ foundWds' = foundWds \ gone
            /\ wdOf' = [d \in Nodes |-> IF \E w \in gone : w[1] = wdOf[d] THEN 0 ELSE wdOf[d]]
            /\ todo' = Rest("list", p) /\ UNCHANGED found
       ELSE /\ todo' = Rest("list", p) \cup {<<"look", Append(p, n)>> : n \in Children(Dir(p))}
            /\ found' = found \cup (IF p = <<>> THEN {} ELSE {<<p, "dir">>})
            /\ UNCHANGED <<wdOf, foundWds>>
    /\ UNCHANGED <<diskVars, nextWd, kernel, phase, queue, treeVars, seen, raced>>

Added == found \ entries
Removed == entries \ found

\* The end of _process_batch: a patch, or a rebuild if it is too large.
Patch ==
    /\ phase = "reconciling" /\ todo = {}
    /\ IF Cardinality(Added) + Cardinality(Removed) > MaxPatch
       THEN StartRebuild /\ UNCHANGED treeVars
       ELSE /\ phase' = "idle" /\ entries' = found /\ wds' = foundWds
            /\ view' = (view \ Removed) \cup Added
            /\ ScanEnds /\ UNCHANGED <<spec, queue, inotifyVars>>
    /\ UNCHANGED <<diskVars, raced>>

\* The end of _initialize or _rebuild: a snapshot.
Snapshot ==
    /\ phase = "rebuilding" /\ todo = {}
    /\ phase' = "idle" /\ entries' = found /\ wds' = foundWds /\ view' = found
    /\ ScanEnds
    /\ UNCHANGED <<diskVars, inotifyVars, queue, spec, raced>>

-----------------------------------------------------------------------------
Init ==
    /\ place \in [Dirs -> Places \cup {None}]
    /\ files \in SUBSET Places /\ Cardinality(files) <= MaxFiles
    /\ \A d \in Dirs : place[d] # None => \E p \in Paths : Dir(p) = d
    /\ \A d, e \in Dirs : d # e /\ place[d] # None => place[d] # place[e]
    /\ \A at \in files : Exists(at[1])
    /\ \A d \in Dirs : place[d] \notin files
    /\ ignoring = FALSE /\ changes = 0
    /\ wdOf = [d \in Nodes |-> 0] /\ nextWd = 1 /\ kernel = {}
    /\ phase = "opening" /\ queue = <<>>
    /\ entries = {} /\ wds = {} /\ spec = FALSE /\ view = {}
    /\ todo = {} /\ found = {} /\ foundWds = {} /\ seen = {} /\ raced = FALSE

Changes ==
    \/ \E at \in Places : ChangeFile(at)
    \/ \E d \in Dirs, at \in Places : Appear(d, at) \/ Rename(d, at)
    \/ \E d \in Dirs : MoveOut(d) \/ RemoveDir(d)
    \/ ChangeIgnoreFile

Tree ==
    \/ ReadReady \/ WatchRoot \/ CompileIgnore \/ Patch \/ Snapshot
    \/ \E n \in 1..Len(queue) : ProcessBatch(n)
    \/ \E p \in {t[2] : t \in todo} : Look(p) \/ Watch(p) \/ WatchFails(p) \/ List(p)

Next == Changes \/ Tree

Spec == Init /\ [][Next]_vars

-----------------------------------------------------------------------------
(* Properties *)

Events == Nat \X (Names \cup {Self, IgnoreFile, "overflow"})

\* Every variable has a value the code can give it.
TypeOK ==
    /\ place \in [Dirs -> Places \cup {None}] /\ files \subseteq Places
    /\ ignoring \in BOOLEAN /\ changes \in 0..MaxChanges
    /\ wdOf \in [Nodes -> Nat] /\ nextWd \in Nat
    /\ kernel \subseteq Events
    /\ phase \in {"opening", "loading", "rebuilding", "reconciling", "idle", "invalid"}
    /\ \A i \in DOMAIN queue : queue[i] \subseteq Events
    /\ \A es \in {entries, view, found} : es \subseteq (Paths \X {"dir", "file"})
    /\ wds \subseteq Nat \X Paths /\ foundWds \subseteq Nat \X Paths
    /\ spec \in BOOLEAN /\ raced \in BOOLEAN
    /\ todo \subseteq {"look", "watch", "list"} \X Paths /\ seen \subseteq Nodes \cup {None}

\* When nothing is left to read or to do, a client sees the disk, whatever changed
\* between the steps of the scans.
Converged == Quiet => view = Index

\* So it is unless a directory was moved within the tree, or back into it, while
\* the tree had work to do and knew it, or a directory inside it, by its old place.
ConvergedUnlessRaced == ~raced => Converged

\* A descriptor has one path and a path one descriptor; and when nothing is left to
\* do, every directory the client sees is watched by its path and nothing else is:
\* the next change will be told, and no watch is left over.
WatchesExact ==
    /\ \A ws \in {wds, foundWds} : \A v, w \in ws : v[1] = w[1] <=> v[2] = w[2]
    /\ Quiet /\ ~raced =>
        /\ wds = {<<wdOf[Dir(p)], p>> :
                    p \in {q \in Paths : Dir(q) # None /\ ~Excluded(ignoring, q)}}
        /\ \A d \in Nodes : wdOf[d] # 0 => \E w \in wds : w[1] = wdOf[d]
=============================================================================
