---------------------------- MODULE WorktreesProofs ---------------------------
(***************************************************************************)
(* Theorems about Worktrees: types and referential integrity, directories  *)
(* that do not change, and what work removals exclude, for every set of    *)
(* calls, any number of projects and crashes.                              *)
(***************************************************************************)
EXTENDS Worktrees, TLAPS

\* Of a worktree: what its creation has settled when it is past its checks.
\* Of a session: what it is before it is created.
NamesInv ==
    /\ \A w \in Worktrees : creating[w] # "new" => at[w] \in Paths /\ of[w] # 0
    /\ \A w \in rows : creating[w] = "created"
    /\ \A s \in Sessions : link[s] # None => creating[link[s]] = "created"
    /\ \A s \in Sessions : owner[s] = 0 =>
          /\ s \notin sessions /\ link[s] = None /\ detached[s] = None
          /\ s \notin turning /\ \A c \in Commands : work[c] # s

\* A command in a slot runs in that session; and where no Stop or Delete has found
\* a command, every command that runs is in its slot.
SlotInv ==
    /\ \A s \in Sessions : slot[s] # None => work[slot[s]] = s
    /\ \A c \in Commands : work[c] # None /\ work[c] \notin stopped => slot[work[c]] = c

\* A removal between its check and its end holds turn_lock.
LockInv ==
    \A r \in Removals : removing[r] \in {"listing", "removing", "removed"} =>
        lock = r /\ aim[r] \in Worktrees /\ creating[aim[r]] = "created"

\* What is claimed for the server: a creation in hand, or a row.
InHand(p) == \E w \in Worktrees : at[w] = p /\ creating[w] \in {"added", "unwinding"}
Owned(p) == \E w \in rows : at[w] = p

\* Every registered tree has a claim, and one whose row is about to go has another
\* than the row.
ClaimInv ==
    /\ \A p \in registered : p \in unclaimed \/ InHand(p) \/ Owned(p)
    /\ \A r \in Removals : removing[r] = "removed" /\ aim[r] \in rows
          /\ at[aim[r]] \in registered => at[aim[r]] \in unclaimed \/ InHand(at[aim[r]])

IInv == TypeOK /\ NamesInv /\ SlotInv /\ LockInv /\ RemovalExcludesWork /\ ClaimInv

-----------------------------------------------------------------------------
(* Each part of the invariant *)

\* The initial state: nothing is created and nobody works.
LEMMA InitInv == Init => IInv
<1>1. Init => TypeOK
  BY WorktreesAssumption DEF Init, TypeOK
<1>2. Init => NamesInv /\ SlotInv /\ LockInv /\ RemovalExcludesWork
  BY WorktreesAssumption DEF Init, NamesInv, SlotInv, LockInv, RemovalExcludesWork
<1>3. Init => ClaimInv
  BY DEF Init, ClaimInv
<1>4. QED
  BY <1>1, <1>2, <1>3 DEF IInv

\* Every step keeps the types, foreign keys and unique paths.
LEMMA TypeStep ==
    ASSUME TypeOK, NamesInv, LockInv, [Next]_vars
    PROVE  TypeOK'
<1> USE WorktreesAssumption DEF TypeOK, NamesInv, dbVars, workVars, createVars,
      removeVars, forgetVars, gitVars, auxVars
<1>1. ASSUME CreateProject PROVE TypeOK'
  BY <1>1 DEF CreateProject
<1>2. ASSUME NEW s \in Sessions, NEW w \in Worktrees \cup {None}, CreateSession(s, w)
     PROVE TypeOK'
  BY <1>2 DEF CreateSession
<1>3. ASSUME NEW s \in Sessions, BeginTurn(s) PROVE TypeOK'
  BY <1>3 DEF BeginTurn
<1>4. ASSUME NEW s \in Sessions, EndTurn(s) PROVE TypeOK'
  BY <1>4 DEF EndTurn
<1>5. ASSUME NEW s \in Sessions, StopCommand(s) PROVE TypeOK'
  BY <1>5 DEF StopCommand, TakeFromSlot
<1>6. ASSUME NEW w \in Worktrees, NEW p \in Paths, CheckPath(w, p) PROVE TypeOK'
  BY <1>6 DEF CheckPath
<1>7. ASSUME NEW w \in Worktrees, MakeDirectory(w) PROVE TypeOK'
  BY <1>7 DEF MakeDirectory
<1>8. ASSUME NEW w \in Worktrees, RejectWorktree(w) PROVE TypeOK'
  BY <1>8 DEF RejectWorktree
<1>9. ASSUME NEW w \in Worktrees, InsertRow(w) PROVE TypeOK'
  BY <1>9 DEF InsertRow, Insertable
<1>10. ASSUME NEW w \in Worktrees, InsertFails(w) PROVE TypeOK'
  BY <1>10 DEF InsertFails
<1>11. ASSUME NEW w \in Worktrees, NEW ok \in BOOLEAN, AddTree(w, ok) PROVE TypeOK'
  BY <1>11 DEF AddTree, GitAdds, GitRuns
<1>12. ASSUME NEW w \in Worktrees, NEW ok \in BOOLEAN, TakeBack(w, ok) PROVE TypeOK'
  BY <1>12 DEF TakeBack, GitRemoves
<1>13. ASSUME NEW r \in Removals, NEW w \in Worktrees, CheckIdle(r, w) PROVE TypeOK'
  BY <1>13 DEF CheckIdle
<1>14. ASSUME NEW r \in Removals, ListTrees(r) PROVE TypeOK'
  BY <1>14 DEF ListTrees
<1>15. ASSUME NEW r \in Removals, DeleteRow(r) PROVE TypeOK'
  BY <1>15 DEF DeleteRow, Detach, LockInv
<1>16. ASSUME NEW r \in Removals, NEW ok \in BOOLEAN, RemoveTree(r, ok) PROVE TypeOK'
  BY <1>16 DEF RemoveTree, GitRemoves
<1>17. ASSUME NEW f \in Forgets, ListSessions(f) PROVE TypeOK'
  BY <1>17 DEF ListSessions, SessionsOf
<1>18. ASSUME NEW f \in Forgets, NEW s \in Sessions, HaltSession(f, s) PROVE TypeOK'
  BY <1>18 DEF HaltSession, TakeFromSlot
<1>19. ASSUME NEW f \in Forgets, ListWorktrees(f) PROVE TypeOK'
  BY <1>19 DEF ListWorktrees
<1>20. ASSUME NEW f \in Forgets, ForgetProject(f) PROVE TypeOK'
  BY <1>20 DEF ForgetProject, SessionsOf
<1>21. ASSUME NEW f \in Forgets, ForgetFails(f) PROVE TypeOK'
  BY <1>21 DEF ForgetFails
<1>22. ASSUME NEW f \in Forgets, NEW p \in Paths, NEW ok \in BOOLEAN, SweepTree(f, p, ok)
     PROVE TypeOK'
  BY <1>22 DEF SweepTree, GitRemoves
<1>23. ASSUME NEW p \in Paths, UserRemoves(p) PROVE TypeOK'
  BY <1>23 DEF UserRemoves
<1>24. ASSUME Crash PROVE TypeOK'
  BY <1>24 DEF Crash
<1>25. ASSUME NEW f \in Forgets, TearDown(f) PROVE TypeOK'
  BY <1>25 DEF TearDown
<1>26. ASSUME NEW s \in Sessions, NEW c \in Commands, BeginCommand(s, c) PROVE TypeOK'
  BY <1>26 DEF BeginCommand
<1>27. ASSUME NEW c \in Commands, EndCommand(c) PROVE TypeOK'
  BY <1>27 DEF EndCommand
<1>28. CASE UNCHANGED vars
  BY <1>28 DEF vars
<1> HIDE DEF TypeOK, NamesInv
<1>29. QED
  BY <1>1, <1>2, <1>3, <1>4, <1>5, <1>6, <1>7, <1>8, <1>9, <1>10, <1>11, <1>12,
     <1>13, <1>14, <1>15, <1>16, <1>17, <1>18, <1>19, <1>20, <1>21, <1>22, <1>23,
     <1>24, <1>25, <1>26, <1>27, <1>28
  DEF Next, Create, Remove, Forget

\* What a creation has settled stays settled.
LEMMA NamesStep ==
    ASSUME TypeOK, NamesInv, LockInv, [Next]_vars
    PROVE  NamesInv'
<1> USE WorktreesAssumption DEF TypeOK, NamesInv, dbVars, workVars, createVars,
      removeVars, forgetVars, gitVars, auxVars
<1>1. ASSUME CreateProject PROVE NamesInv'
  BY <1>1 DEF CreateProject
<1>2. ASSUME NEW s \in Sessions, NEW w \in Worktrees \cup {None}, CreateSession(s, w)
     PROVE NamesInv'
  BY <1>2 DEF CreateSession
<1>3. ASSUME NEW s \in Sessions, BeginTurn(s) PROVE NamesInv'
  BY <1>3 DEF BeginTurn
<1>4. ASSUME NEW s \in Sessions, EndTurn(s) PROVE NamesInv'
  BY <1>4 DEF EndTurn
<1>5. ASSUME NEW s \in Sessions, StopCommand(s) PROVE NamesInv'
  BY <1>5 DEF StopCommand, TakeFromSlot
<1>6. ASSUME NEW w \in Worktrees, NEW p \in Paths, CheckPath(w, p) PROVE NamesInv'
  BY <1>6 DEF CheckPath
<1>7. ASSUME NEW w \in Worktrees, MakeDirectory(w) PROVE NamesInv'
  BY <1>7 DEF MakeDirectory
<1>8. ASSUME NEW w \in Worktrees, RejectWorktree(w) PROVE NamesInv'
  BY <1>8 DEF RejectWorktree
<1>9. ASSUME NEW w \in Worktrees, InsertRow(w) PROVE NamesInv'
  BY <1>9 DEF InsertRow
<1>10. ASSUME NEW w \in Worktrees, InsertFails(w) PROVE NamesInv'
  BY <1>10 DEF InsertFails
<1>11. ASSUME NEW w \in Worktrees, NEW ok \in BOOLEAN, AddTree(w, ok) PROVE NamesInv'
  BY <1>11 DEF AddTree, GitRuns
<1>12. ASSUME NEW w \in Worktrees, NEW ok \in BOOLEAN, TakeBack(w, ok) PROVE NamesInv'
  BY <1>12 DEF TakeBack
<1>13. ASSUME NEW r \in Removals, NEW w \in Worktrees, CheckIdle(r, w) PROVE NamesInv'
  BY <1>13 DEF CheckIdle
<1>14. ASSUME NEW r \in Removals, ListTrees(r) PROVE NamesInv'
  BY <1>14 DEF ListTrees
<1>15. ASSUME NEW r \in Removals, DeleteRow(r) PROVE NamesInv'
  BY <1>15 DEF DeleteRow, Detach, LockInv
<1>16. ASSUME NEW r \in Removals, NEW ok \in BOOLEAN, RemoveTree(r, ok) PROVE NamesInv'
  BY <1>16 DEF RemoveTree
<1>17. ASSUME NEW f \in Forgets, ListSessions(f) PROVE NamesInv'
  BY <1>17 DEF ListSessions
<1>18. ASSUME NEW f \in Forgets, NEW s \in Sessions, HaltSession(f, s) PROVE NamesInv'
  BY <1>18 DEF HaltSession, TakeFromSlot
<1>19. ASSUME NEW f \in Forgets, ListWorktrees(f) PROVE NamesInv'
  BY <1>19 DEF ListWorktrees
<1>20. ASSUME NEW f \in Forgets, ForgetProject(f) PROVE NamesInv'
  BY <1>20 DEF ForgetProject
<1>21. ASSUME NEW f \in Forgets, ForgetFails(f) PROVE NamesInv'
  BY <1>21 DEF ForgetFails
<1>22. ASSUME NEW f \in Forgets, NEW p \in Paths, NEW ok \in BOOLEAN, SweepTree(f, p, ok)
     PROVE NamesInv'
  BY <1>22 DEF SweepTree
<1>23. ASSUME NEW p \in Paths, UserRemoves(p) PROVE NamesInv'
  BY <1>23 DEF UserRemoves
<1>24. ASSUME Crash PROVE NamesInv'
  BY <1>24 DEF Crash
<1>25. ASSUME NEW f \in Forgets, TearDown(f) PROVE NamesInv'
  BY <1>25 DEF TearDown
<1>26. ASSUME NEW s \in Sessions, NEW c \in Commands, BeginCommand(s, c) PROVE NamesInv'
  BY <1>26 DEF BeginCommand
<1>27. ASSUME NEW c \in Commands, EndCommand(c) PROVE NamesInv'
  BY <1>27 DEF EndCommand
<1>28. CASE UNCHANGED vars
  BY <1>28 DEF vars
<1>29. QED
  BY <1>1, <1>2, <1>3, <1>4, <1>5, <1>6, <1>7, <1>8, <1>9, <1>10, <1>11, <1>12,
     <1>13, <1>14, <1>15, <1>16, <1>17, <1>18, <1>19, <1>20, <1>21, <1>22, <1>23,
     <1>24, <1>25, <1>26, <1>27, <1>28
  DEF Next, Create, Remove, Forget

\* No step moves a session: rows keep their paths, and a removal leaves its path
\* with the sessions it detaches.
LEMMA DirStep ==
    ASSUME TypeOK, NamesInv, LockInv, [Next]_vars
    PROVE  \A x \in sessions \cap sessions' : WorkingDir(x)' = WorkingDir(x)
<1> USE WorktreesAssumption DEF TypeOK, NamesInv, WorkingDir, dbVars, workVars,
      createVars, removeVars, forgetVars, gitVars, auxVars
<1>1. ASSUME CreateProject
     PROVE \A x \in sessions \cap sessions' : WorkingDir(x)' = WorkingDir(x)
  BY <1>1 DEF CreateProject
<1>2. ASSUME NEW s \in Sessions, NEW w \in Worktrees \cup {None}, CreateSession(s, w)
     PROVE \A x \in sessions \cap sessions' : WorkingDir(x)' = WorkingDir(x)
  BY <1>2 DEF CreateSession
<1>3. ASSUME NEW s \in Sessions, BeginTurn(s)
     PROVE \A x \in sessions \cap sessions' : WorkingDir(x)' = WorkingDir(x)
  BY <1>3 DEF BeginTurn
<1>4. ASSUME NEW s \in Sessions, EndTurn(s)
     PROVE \A x \in sessions \cap sessions' : WorkingDir(x)' = WorkingDir(x)
  BY <1>4 DEF EndTurn
<1>5. ASSUME NEW s \in Sessions, StopCommand(s)
     PROVE \A x \in sessions \cap sessions' : WorkingDir(x)' = WorkingDir(x)
  BY <1>5 DEF StopCommand, TakeFromSlot
<1>6. ASSUME NEW w \in Worktrees, NEW p \in Paths, CheckPath(w, p)
     PROVE \A x \in sessions \cap sessions' : WorkingDir(x)' = WorkingDir(x)
  BY <1>6 DEF CheckPath
<1>7. ASSUME NEW w \in Worktrees, MakeDirectory(w)
     PROVE \A x \in sessions \cap sessions' : WorkingDir(x)' = WorkingDir(x)
  BY <1>7 DEF MakeDirectory
<1>8. ASSUME NEW w \in Worktrees, RejectWorktree(w)
     PROVE \A x \in sessions \cap sessions' : WorkingDir(x)' = WorkingDir(x)
  BY <1>8 DEF RejectWorktree
<1>9. ASSUME NEW w \in Worktrees, InsertRow(w)
     PROVE \A x \in sessions \cap sessions' : WorkingDir(x)' = WorkingDir(x)
  BY <1>9 DEF InsertRow
<1>10. ASSUME NEW w \in Worktrees, InsertFails(w)
     PROVE \A x \in sessions \cap sessions' : WorkingDir(x)' = WorkingDir(x)
  BY <1>10 DEF InsertFails
<1>11. ASSUME NEW w \in Worktrees, NEW ok \in BOOLEAN, AddTree(w, ok)
     PROVE \A x \in sessions \cap sessions' : WorkingDir(x)' = WorkingDir(x)
  BY <1>11 DEF AddTree
<1>12. ASSUME NEW w \in Worktrees, NEW ok \in BOOLEAN, TakeBack(w, ok)
     PROVE \A x \in sessions \cap sessions' : WorkingDir(x)' = WorkingDir(x)
  BY <1>12 DEF TakeBack
<1>13. ASSUME NEW r \in Removals, NEW w \in Worktrees, CheckIdle(r, w)
     PROVE \A x \in sessions \cap sessions' : WorkingDir(x)' = WorkingDir(x)
  BY <1>13 DEF CheckIdle
<1>14. ASSUME NEW r \in Removals, ListTrees(r)
     PROVE \A x \in sessions \cap sessions' : WorkingDir(x)' = WorkingDir(x)
  BY <1>14 DEF ListTrees
<1>15. ASSUME NEW r \in Removals, DeleteRow(r)
     PROVE \A x \in sessions \cap sessions' : WorkingDir(x)' = WorkingDir(x)
  BY <1>15 DEF DeleteRow, Detach, LockInv
<1>16. ASSUME NEW r \in Removals, NEW ok \in BOOLEAN, RemoveTree(r, ok)
     PROVE \A x \in sessions \cap sessions' : WorkingDir(x)' = WorkingDir(x)
  BY <1>16 DEF RemoveTree
<1>17. ASSUME NEW f \in Forgets, ListSessions(f)
     PROVE \A x \in sessions \cap sessions' : WorkingDir(x)' = WorkingDir(x)
  BY <1>17 DEF ListSessions
<1>18. ASSUME NEW f \in Forgets, NEW s \in Sessions, HaltSession(f, s)
     PROVE \A x \in sessions \cap sessions' : WorkingDir(x)' = WorkingDir(x)
  BY <1>18 DEF HaltSession, TakeFromSlot
<1>19. ASSUME NEW f \in Forgets, ListWorktrees(f)
     PROVE \A x \in sessions \cap sessions' : WorkingDir(x)' = WorkingDir(x)
  BY <1>19 DEF ListWorktrees
<1>20. ASSUME NEW f \in Forgets, ForgetProject(f)
     PROVE \A x \in sessions \cap sessions' : WorkingDir(x)' = WorkingDir(x)
  BY <1>20 DEF ForgetProject
<1>21. ASSUME NEW f \in Forgets, ForgetFails(f)
     PROVE \A x \in sessions \cap sessions' : WorkingDir(x)' = WorkingDir(x)
  BY <1>21 DEF ForgetFails
<1>22. ASSUME NEW f \in Forgets, NEW p \in Paths, NEW ok \in BOOLEAN, SweepTree(f, p, ok)
     PROVE \A x \in sessions \cap sessions' : WorkingDir(x)' = WorkingDir(x)
  BY <1>22 DEF SweepTree
<1>23. ASSUME NEW p \in Paths, UserRemoves(p)
     PROVE \A x \in sessions \cap sessions' : WorkingDir(x)' = WorkingDir(x)
  BY <1>23 DEF UserRemoves
<1>24. ASSUME Crash
     PROVE \A x \in sessions \cap sessions' : WorkingDir(x)' = WorkingDir(x)
  BY <1>24 DEF Crash
<1>25. ASSUME NEW f \in Forgets, TearDown(f)
     PROVE \A x \in sessions \cap sessions' : WorkingDir(x)' = WorkingDir(x)
  BY <1>25 DEF TearDown
<1>26. ASSUME NEW s \in Sessions, NEW c \in Commands, BeginCommand(s, c)
     PROVE \A x \in sessions \cap sessions' : WorkingDir(x)' = WorkingDir(x)
  BY <1>26 DEF BeginCommand
<1>27. ASSUME NEW c \in Commands, EndCommand(c)
     PROVE \A x \in sessions \cap sessions' : WorkingDir(x)' = WorkingDir(x)
  BY <1>27 DEF EndCommand
<1>28. CASE UNCHANGED vars
  BY <1>28 DEF vars
<1>29. QED
  BY <1>1, <1>2, <1>3, <1>4, <1>5, <1>6, <1>7, <1>8, <1>9, <1>10, <1>11, <1>12,
     <1>13, <1>14, <1>15, <1>16, <1>17, <1>18, <1>19, <1>20, <1>21, <1>22, <1>23,
     <1>24, <1>25, <1>26, <1>27, <1>28
  DEF Next, Create, Remove, Forget

\* The lock changes hands only when it is free.
LEMMA LockStep ==
    ASSUME TypeOK, NamesInv, LockInv, [Next]_vars
    PROVE  LockInv'
<1> USE WorktreesAssumption DEF TypeOK, LockInv, NamesInv, dbVars, workVars,
      createVars, removeVars, forgetVars, gitVars, auxVars
<1>1. ASSUME CreateProject PROVE LockInv'
  BY <1>1 DEF CreateProject
<1>2. ASSUME NEW s \in Sessions, NEW w \in Worktrees \cup {None}, CreateSession(s, w)
     PROVE LockInv'
  BY <1>2 DEF CreateSession
<1>3. ASSUME NEW s \in Sessions, BeginTurn(s) PROVE LockInv'
  BY <1>3 DEF BeginTurn
<1>4. ASSUME NEW s \in Sessions, EndTurn(s) PROVE LockInv'
  BY <1>4 DEF EndTurn
<1>5. ASSUME NEW s \in Sessions, StopCommand(s) PROVE LockInv'
  BY <1>5 DEF StopCommand, TakeFromSlot
<1>6. ASSUME NEW w \in Worktrees, NEW p \in Paths, CheckPath(w, p) PROVE LockInv'
  BY <1>6 DEF CheckPath
<1>7. ASSUME NEW w \in Worktrees, MakeDirectory(w) PROVE LockInv'
  BY <1>7 DEF MakeDirectory
<1>8. ASSUME NEW w \in Worktrees, RejectWorktree(w) PROVE LockInv'
  BY <1>8 DEF RejectWorktree
<1>9. ASSUME NEW w \in Worktrees, InsertRow(w) PROVE LockInv'
  BY <1>9 DEF InsertRow
<1>10. ASSUME NEW w \in Worktrees, InsertFails(w) PROVE LockInv'
  BY <1>10 DEF InsertFails
<1>11. ASSUME NEW w \in Worktrees, NEW ok \in BOOLEAN, AddTree(w, ok) PROVE LockInv'
  BY <1>11 DEF AddTree, GitRuns
<1>12. ASSUME NEW w \in Worktrees, NEW ok \in BOOLEAN, TakeBack(w, ok) PROVE LockInv'
  BY <1>12 DEF TakeBack
<1>13. ASSUME NEW r \in Removals, NEW w \in Worktrees, CheckIdle(r, w) PROVE LockInv'
  BY <1>13 DEF CheckIdle
<1>14. ASSUME NEW r \in Removals, ListTrees(r) PROVE LockInv'
  BY <1>14 DEF ListTrees
<1>15. ASSUME NEW r \in Removals, DeleteRow(r) PROVE LockInv'
  BY <1>15 DEF DeleteRow
<1>16. ASSUME NEW r \in Removals, NEW ok \in BOOLEAN, RemoveTree(r, ok) PROVE LockInv'
  BY <1>16 DEF RemoveTree, GitRuns
<1>17. ASSUME NEW f \in Forgets, ListSessions(f) PROVE LockInv'
  BY <1>17 DEF ListSessions
<1>18. ASSUME NEW f \in Forgets, NEW s \in Sessions, HaltSession(f, s) PROVE LockInv'
  BY <1>18 DEF HaltSession, TakeFromSlot
<1>19. ASSUME NEW f \in Forgets, ListWorktrees(f) PROVE LockInv'
  BY <1>19 DEF ListWorktrees
<1>20. ASSUME NEW f \in Forgets, ForgetProject(f) PROVE LockInv'
  BY <1>20 DEF ForgetProject
<1>21. ASSUME NEW f \in Forgets, ForgetFails(f) PROVE LockInv'
  BY <1>21 DEF ForgetFails
<1>22. ASSUME NEW f \in Forgets, NEW p \in Paths, NEW ok \in BOOLEAN, SweepTree(f, p, ok)
     PROVE LockInv'
  BY <1>22 DEF SweepTree
<1>23. ASSUME NEW p \in Paths, UserRemoves(p) PROVE LockInv'
  BY <1>23 DEF UserRemoves
<1>24. ASSUME Crash PROVE LockInv'
  BY <1>24 DEF Crash
<1>25. ASSUME NEW f \in Forgets, TearDown(f) PROVE LockInv'
  BY <1>25 DEF TearDown
<1>26. ASSUME NEW s \in Sessions, NEW c \in Commands, BeginCommand(s, c) PROVE LockInv'
  BY <1>26 DEF BeginCommand
<1>27. ASSUME NEW c \in Commands, EndCommand(c) PROVE LockInv'
  BY <1>27 DEF EndCommand
<1>28. CASE UNCHANGED vars
  BY <1>28 DEF vars
<1>29. QED
  BY <1>1, <1>2, <1>3, <1>4, <1>5, <1>6, <1>7, <1>8, <1>9, <1>10, <1>11, <1>12,
     <1>13, <1>14, <1>15, <1>16, <1>17, <1>18, <1>19, <1>20, <1>21, <1>22, <1>23,
     <1>24, <1>25, <1>26, <1>27, <1>28
  DEF Next, Create, Remove, Forget

\* A command enters an empty slot, and leaves it by its end, by that of another
\* command out of its slot, or by a Stop or Delete.
LEMMA SlotStep ==
    ASSUME TypeOK, SlotInv, [Next]_vars
    PROVE  SlotInv'
<1> USE WorktreesAssumption DEF TypeOK, SlotInv, dbVars, workVars,
      createVars, removeVars, forgetVars, gitVars, auxVars
<1>1. ASSUME CreateProject PROVE SlotInv'
  BY <1>1 DEF CreateProject
<1>2. ASSUME NEW s \in Sessions, NEW w \in Worktrees \cup {None}, CreateSession(s, w)
     PROVE SlotInv'
  BY <1>2 DEF CreateSession
<1>3. ASSUME NEW s \in Sessions, BeginTurn(s) PROVE SlotInv'
  BY <1>3 DEF BeginTurn
<1>4. ASSUME NEW s \in Sessions, EndTurn(s) PROVE SlotInv'
  BY <1>4 DEF EndTurn
<1>5. ASSUME NEW s \in Sessions, StopCommand(s) PROVE SlotInv'
  BY <1>5 DEF StopCommand, TakeFromSlot
<1>6. ASSUME NEW w \in Worktrees, NEW p \in Paths, CheckPath(w, p) PROVE SlotInv'
  BY <1>6 DEF CheckPath
<1>7. ASSUME NEW w \in Worktrees, MakeDirectory(w) PROVE SlotInv'
  BY <1>7 DEF MakeDirectory
<1>8. ASSUME NEW w \in Worktrees, RejectWorktree(w) PROVE SlotInv'
  BY <1>8 DEF RejectWorktree
<1>9. ASSUME NEW w \in Worktrees, InsertRow(w) PROVE SlotInv'
  BY <1>9 DEF InsertRow
<1>10. ASSUME NEW w \in Worktrees, InsertFails(w) PROVE SlotInv'
  BY <1>10 DEF InsertFails
<1>11. ASSUME NEW w \in Worktrees, NEW ok \in BOOLEAN, AddTree(w, ok) PROVE SlotInv'
  BY <1>11 DEF AddTree
<1>12. ASSUME NEW w \in Worktrees, NEW ok \in BOOLEAN, TakeBack(w, ok) PROVE SlotInv'
  BY <1>12 DEF TakeBack
<1>13. ASSUME NEW r \in Removals, NEW w \in Worktrees, CheckIdle(r, w) PROVE SlotInv'
  BY <1>13 DEF CheckIdle
<1>14. ASSUME NEW r \in Removals, ListTrees(r) PROVE SlotInv'
  BY <1>14 DEF ListTrees
<1>15. ASSUME NEW r \in Removals, DeleteRow(r) PROVE SlotInv'
  BY <1>15 DEF DeleteRow
<1>16. ASSUME NEW r \in Removals, NEW ok \in BOOLEAN, RemoveTree(r, ok) PROVE SlotInv'
  BY <1>16 DEF RemoveTree
<1>17. ASSUME NEW f \in Forgets, ListSessions(f) PROVE SlotInv'
  BY <1>17 DEF ListSessions
<1>18. ASSUME NEW f \in Forgets, NEW s \in Sessions, HaltSession(f, s) PROVE SlotInv'
  BY <1>18 DEF HaltSession, TakeFromSlot
<1>19. ASSUME NEW f \in Forgets, ListWorktrees(f) PROVE SlotInv'
  BY <1>19 DEF ListWorktrees
<1>20. ASSUME NEW f \in Forgets, ForgetProject(f) PROVE SlotInv'
  BY <1>20 DEF ForgetProject
<1>21. ASSUME NEW f \in Forgets, ForgetFails(f) PROVE SlotInv'
  BY <1>21 DEF ForgetFails
<1>22. ASSUME NEW f \in Forgets, NEW p \in Paths, NEW ok \in BOOLEAN, SweepTree(f, p, ok)
     PROVE SlotInv'
  BY <1>22 DEF SweepTree
<1>23. ASSUME NEW p \in Paths, UserRemoves(p) PROVE SlotInv'
  BY <1>23 DEF UserRemoves
<1>24. ASSUME Crash PROVE SlotInv'
  BY <1>24 DEF Crash
<1>25. ASSUME NEW f \in Forgets, TearDown(f) PROVE SlotInv'
  BY <1>25 DEF TearDown
<1>26. ASSUME NEW s \in Sessions, NEW c \in Commands, BeginCommand(s, c) PROVE SlotInv'
  BY <1>26 DEF BeginCommand
<1>27. ASSUME NEW c \in Commands, EndCommand(c) PROVE SlotInv'
  BY <1>27 DEF EndCommand
<1>28. CASE UNCHANGED vars
  BY <1>28 DEF vars
<1>29. QED
  BY <1>1, <1>2, <1>3, <1>4, <1>5, <1>6, <1>7, <1>8, <1>9, <1>10, <1>11, <1>12,
     <1>13, <1>14, <1>15, <1>16, <1>17, <1>18, <1>19, <1>20, <1>21, <1>22, <1>23,
     <1>24, <1>25, <1>26, <1>27, <1>28
  DEF Next, Create, Remove, Forget

\* Nobody works where a removal begins, and none begins to while it holds the lock.
LEMMA ExcludeStep ==
    ASSUME IInv, [Next]_vars
    PROVE  RemovalExcludesWork'
<1>0. \A x \in sessions \cap sessions' : WorkingDir(x)' = WorkingDir(x)
  BY DirStep DEF IInv
<1> USE <1>0, WorktreesAssumption DEF IInv, TypeOK, NamesInv, LockInv,
      RemovalExcludesWork, SessionsIn, dbVars, workVars, createVars, removeVars,
      forgetVars, gitVars, auxVars
<1>1. ASSUME CreateProject PROVE RemovalExcludesWork'
  BY <1>1 DEF CreateProject
<1>2. ASSUME NEW s \in Sessions, NEW w \in Worktrees \cup {None}, CreateSession(s, w)
     PROVE RemovalExcludesWork'
  BY <1>2 DEF CreateSession
<1>3. ASSUME NEW s \in Sessions, BeginTurn(s) PROVE RemovalExcludesWork'
  BY <1>3 DEF BeginTurn
<1>4. ASSUME NEW s \in Sessions, EndTurn(s) PROVE RemovalExcludesWork'
  BY <1>4 DEF EndTurn
<1>5. ASSUME NEW s \in Sessions, StopCommand(s) PROVE RemovalExcludesWork'
  BY <1>5 DEF StopCommand, TakeFromSlot
<1>6. ASSUME NEW w \in Worktrees, NEW p \in Paths, CheckPath(w, p)
     PROVE RemovalExcludesWork'
  BY <1>6 DEF CheckPath
<1>7. ASSUME NEW w \in Worktrees, MakeDirectory(w) PROVE RemovalExcludesWork'
  BY <1>7 DEF MakeDirectory
<1>8. ASSUME NEW w \in Worktrees, RejectWorktree(w) PROVE RemovalExcludesWork'
  BY <1>8 DEF RejectWorktree
<1>9. ASSUME NEW w \in Worktrees, InsertRow(w) PROVE RemovalExcludesWork'
  BY <1>9 DEF InsertRow
<1>10. ASSUME NEW w \in Worktrees, InsertFails(w) PROVE RemovalExcludesWork'
  BY <1>10 DEF InsertFails
<1>11. ASSUME NEW w \in Worktrees, NEW ok \in BOOLEAN, AddTree(w, ok)
     PROVE RemovalExcludesWork'
  BY <1>11 DEF AddTree
<1>12. ASSUME NEW w \in Worktrees, NEW ok \in BOOLEAN, TakeBack(w, ok)
     PROVE RemovalExcludesWork'
  BY <1>12 DEF TakeBack
<1>13. ASSUME NEW r \in Removals, NEW w \in Worktrees, CheckIdle(r, w)
     PROVE RemovalExcludesWork'
  BY <1>13 DEF CheckIdle, BusyIn, Busy, SlotInv
<1>14. ASSUME NEW r \in Removals, ListTrees(r) PROVE RemovalExcludesWork'
  BY <1>14 DEF ListTrees
<1>15. ASSUME NEW r \in Removals, DeleteRow(r) PROVE RemovalExcludesWork'
  BY <1>15 DEF DeleteRow
<1>16. ASSUME NEW r \in Removals, NEW ok \in BOOLEAN, RemoveTree(r, ok)
     PROVE RemovalExcludesWork'
  BY <1>16 DEF RemoveTree
<1>17. ASSUME NEW f \in Forgets, ListSessions(f) PROVE RemovalExcludesWork'
  BY <1>17 DEF ListSessions
<1>18. ASSUME NEW f \in Forgets, NEW s \in Sessions, HaltSession(f, s)
     PROVE RemovalExcludesWork'
  BY <1>18 DEF HaltSession, TakeFromSlot
<1>19. ASSUME NEW f \in Forgets, ListWorktrees(f) PROVE RemovalExcludesWork'
  BY <1>19 DEF ListWorktrees
<1>20. ASSUME NEW f \in Forgets, ForgetProject(f) PROVE RemovalExcludesWork'
  BY <1>20 DEF ForgetProject
<1>21. ASSUME NEW f \in Forgets, ForgetFails(f) PROVE RemovalExcludesWork'
  BY <1>21 DEF ForgetFails
<1>22. ASSUME NEW f \in Forgets, NEW p \in Paths, NEW ok \in BOOLEAN, SweepTree(f, p, ok)
     PROVE RemovalExcludesWork'
  BY <1>22 DEF SweepTree
<1>23. ASSUME NEW p \in Paths, UserRemoves(p) PROVE RemovalExcludesWork'
  BY <1>23 DEF UserRemoves
<1>24. ASSUME Crash PROVE RemovalExcludesWork'
  BY <1>24 DEF Crash
<1>25. ASSUME NEW f \in Forgets, TearDown(f) PROVE RemovalExcludesWork'
  BY <1>25 DEF TearDown
<1>26. ASSUME NEW s \in Sessions, NEW c \in Commands, BeginCommand(s, c)
     PROVE RemovalExcludesWork'
  BY <1>26 DEF BeginCommand
<1>27. ASSUME NEW c \in Commands, EndCommand(c) PROVE RemovalExcludesWork'
  BY <1>27 DEF EndCommand
<1>28. CASE UNCHANGED vars
  BY <1>28 DEF vars
<1>29. QED
  BY <1>1, <1>2, <1>3, <1>4, <1>5, <1>6, <1>7, <1>8, <1>9, <1>10, <1>11, <1>12,
     <1>13, <1>14, <1>15, <1>16, <1>17, <1>18, <1>19, <1>20, <1>21, <1>22, <1>23,
     <1>24, <1>25, <1>26, <1>27, <1>28
  DEF Next, Create, Remove, Forget

\* What git has registered keeps its claim: a removal drops a row only after git has
\* dropped the tree, and a creation that takes the path meanwhile has its own claim.
LEMMA ClaimStep ==
    ASSUME TypeOK, NamesInv, LockInv, ClaimInv, [Next]_vars
    PROVE  ClaimInv'
<1> USE WorktreesAssumption DEF TypeOK, NamesInv, ClaimInv, InHand, Owned, dbVars, workVars,
      createVars, removeVars, forgetVars, gitVars, auxVars
<1>1. ASSUME CreateProject PROVE ClaimInv'
  BY <1>1 DEF CreateProject
<1>2. ASSUME NEW s \in Sessions, NEW w \in Worktrees \cup {None}, CreateSession(s, w)
     PROVE ClaimInv'
  BY <1>2 DEF CreateSession
<1>3. ASSUME NEW s \in Sessions, BeginTurn(s) PROVE ClaimInv'
  BY <1>3 DEF BeginTurn
<1>4. ASSUME NEW s \in Sessions, EndTurn(s) PROVE ClaimInv'
  BY <1>4 DEF EndTurn
<1>5. ASSUME NEW s \in Sessions, StopCommand(s) PROVE ClaimInv'
  BY <1>5 DEF StopCommand, TakeFromSlot
<1>6. ASSUME NEW w \in Worktrees, NEW p \in Paths, CheckPath(w, p) PROVE ClaimInv'
  BY <1>6 DEF CheckPath
<1>7. ASSUME NEW w \in Worktrees, MakeDirectory(w) PROVE ClaimInv'
  BY <1>7 DEF MakeDirectory
<1>8. ASSUME NEW w \in Worktrees, RejectWorktree(w) PROVE ClaimInv'
  BY <1>8 DEF RejectWorktree
<1>9. ASSUME NEW w \in Worktrees, InsertRow(w) PROVE ClaimInv'
  <2>1. /\ creating' = [creating EXCEPT ![w] = "created"] /\ rows' = rows \cup {w}
        /\ UNCHANGED <<at, registered, unclaimed, removing, aim>>
        /\ \A v \in rows : at[v] # at[w]
    BY <1>9 DEF InsertRow, Insertable
  <2>2. \A p : Owned(p) => Owned(p)'
    BY <2>1
  <2>3. Owned(at[w])'
    BY <2>1
  <2>4. \A p : InHand(p) /\ p # at[w] => InHand(p)'
    BY <2>1
  <2>5. \A p \in registered' : p \in unclaimed' \/ InHand(p)' \/ Owned(p)'
    BY <2>1, <2>2, <2>3, <2>4
  <2>6. ASSUME NEW r \in Removals, removing[r] = "removed", aim[r] \in rows',
               at[aim[r]] \in registered, at[aim[r]] \notin unclaimed
        PROVE  InHand(at[aim[r]])'
    BY <1>9, <2>1, <2>4, <2>6 DEF InsertRow, LockInv
  <2>7. QED
    BY <2>1, <2>5, <2>6
<1>10. ASSUME NEW w \in Worktrees, InsertFails(w) PROVE ClaimInv'
  BY <1>10 DEF InsertFails
<1>11. ASSUME NEW w \in Worktrees, NEW ok \in BOOLEAN, AddTree(w, ok) PROVE ClaimInv'
  BY <1>11 DEF AddTree, GitRuns, GitAdds
<1>12. ASSUME NEW w \in Worktrees, NEW ok \in BOOLEAN, TakeBack(w, ok) PROVE ClaimInv'
  BY <1>12 DEF TakeBack, GitRemoves
<1>13. ASSUME NEW r \in Removals, NEW w \in Worktrees, CheckIdle(r, w) PROVE ClaimInv'
  BY <1>13 DEF CheckIdle
<1>14. ASSUME NEW r \in Removals, ListTrees(r) PROVE ClaimInv'
  BY <1>14 DEF ListTrees
<1>15. ASSUME NEW r \in Removals, DeleteRow(r) PROVE ClaimInv'
  BY <1>15 DEF DeleteRow, LockInv
<1>16. ASSUME NEW r \in Removals, NEW ok \in BOOLEAN, RemoveTree(r, ok) PROVE ClaimInv'
  BY <1>16 DEF RemoveTree, GitRuns, GitRemoves
<1>17. ASSUME NEW f \in Forgets, ListSessions(f) PROVE ClaimInv'
  BY <1>17 DEF ListSessions
<1>18. ASSUME NEW f \in Forgets, NEW s \in Sessions, HaltSession(f, s) PROVE ClaimInv'
  BY <1>18 DEF HaltSession, TakeFromSlot
<1>19. ASSUME NEW f \in Forgets, ListWorktrees(f) PROVE ClaimInv'
  BY <1>19 DEF ListWorktrees
<1>20. ASSUME NEW f \in Forgets, ForgetProject(f) PROVE ClaimInv'
  BY <1>20 DEF ForgetProject
<1>21. ASSUME NEW f \in Forgets, ForgetFails(f) PROVE ClaimInv'
  BY <1>21 DEF ForgetFails
<1>22. ASSUME NEW f \in Forgets, NEW p \in Paths, NEW ok \in BOOLEAN, SweepTree(f, p, ok)
     PROVE ClaimInv'
  BY <1>22 DEF SweepTree, GitRemoves
<1>23. ASSUME NEW p \in Paths, UserRemoves(p) PROVE ClaimInv'
  BY <1>23 DEF UserRemoves
<1>24. ASSUME Crash PROVE ClaimInv'
  BY <1>24 DEF Crash
<1>25. ASSUME NEW f \in Forgets, TearDown(f) PROVE ClaimInv'
  BY <1>25 DEF TearDown
<1>26. ASSUME NEW s \in Sessions, NEW c \in Commands, BeginCommand(s, c) PROVE ClaimInv'
  BY <1>26 DEF BeginCommand
<1>27. ASSUME NEW c \in Commands, EndCommand(c) PROVE ClaimInv'
  BY <1>27 DEF EndCommand
<1>28. CASE UNCHANGED vars
  BY <1>28 DEF vars
<1>29. QED
  BY <1>1, <1>2, <1>3, <1>4, <1>5, <1>6, <1>7, <1>8, <1>9, <1>10, <1>11, <1>12,
     <1>13, <1>14, <1>15, <1>16, <1>17, <1>18, <1>19, <1>20, <1>21, <1>22, <1>23,
     <1>24, <1>25, <1>26, <1>27, <1>28
  DEF Next, Create, Remove, Forget

-----------------------------------------------------------------------------
(* The theorems *)

\* The invariant holds in every behaviour.
THEOREM Invariant == Spec => []IInv
<1>1. IInv /\ [Next]_vars => IInv'
  BY TypeStep, NamesStep, SlotStep, LockStep, ExcludeStep, ClaimStep DEF IInv
<1>2. QED
  BY InitInv, <1>1, PTL DEF Spec

\* Types, foreign keys and unique paths: whatever crosses the awaits of the
\* handlers, a worktree belongs to the registered project and a session to a
\* worktree that has a row.
THEOREM Types == Spec => []TypeOK
<1>1. IInv => TypeOK
  BY DEF IInv
<1>2. QED
  BY Invariant, <1>1, PTL

\* While DELETE /worktrees waits for git, no turn works in the directory, and no
\* command but one that is out of its slot, in a session in which a Stop or Delete
\* has found one.
THEOREM RemovalIsSafe == Spec => []RemovalExcludesWork
<1>1. IInv => RemovalExcludesWork
  BY DEF IInv
<1>2. QED
  BY Invariant, <1>1, PTL

\* What git has registered for the server has a row, is being made or undone, or
\* was given up knowingly.
THEOREM TreesAreClaimed == Spec => []TreesClaimed
<1>1. IInv => TreesClaimed
  BY DEF IInv, ClaimInv, InHand, Owned, TreesClaimed
<1>2. QED
  BY Invariant, <1>1, PTL

\* The directory of a session never changes.
THEOREM DirectoriesStay == Spec => WorkingDirFixed
<1>1. IInv /\ [Next]_vars => [\A s \in sessions \cap sessions' : WorkingDir(s)' = WorkingDir(s)]_vars
  BY DirStep DEF IInv
<1>2. QED
  BY Invariant, <1>1, PTL DEF Spec, WorkingDirFixed
=============================================================================
