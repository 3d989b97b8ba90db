--------------------------- MODULE ShellCommandsProofs -------------------------
(***************************************************************************)
(* Theorems about ShellCommands: which commands may run beside each other, *)
(* one result each, what is left of a process group and nothing written    *)
(* after a Stop, for any number of commands, Stops and Deletes.            *)
(***************************************************************************)
EXTENDS ShellCommands, TLAPS

\* The shell runs only while its command is waited for, and whoever ends the wait
\* for a command that must not survive ends its group.
GroupInv ==
    \A c \in Commands :
        /\ task[c] \in {"none", "created"} => group[c] = "none"
        /\ group[c] = "shell" => task[c] \in {"starting", "running", "terminating"}
        /\ task[c] = "draining" => group[c] = "dead"
        /\ c \in condemned => \/ group[c] = "dead"
                              \/ task[c] = "terminating"
                              \/ task[c] = "running" /\ group[c] = "shell" /\ c \in cancelled

\* A task is created once, by the begin_bash that holds the lock.
BeginInv ==
    /\ \A c \in Commands : begin[c] = "logged" <=> lock = c
    /\ \A c \in Commands : begin[c] = "returned" <=> task[c] # "none"

\* A live task owns the slot and keeps others from beginning, unless a Stop or
\* Delete took it out, or the finally of one that no longer owned the slot did.
SlotInv ==
    /\ \A c \in Commands : Live(c) /\ ~Targeted(c) /\ c \notin evicted =>
           slot = c /\ lock = None
    /\ evicted # {} => \E c \in Commands : Targeted(c)

\* The task a Stop or Delete has joined has ended.
JoinInv ==
    \A h \in Halts :
        /\ halt[h] = "new" => target[h] = None
        /\ halt[h] = "join" => target[h] # None /\ task[target[h]] # "none"
        /\ halt[h] = "done" /\ target[h] # None => task[target[h]] = "done"

\* Only what a Stop or Delete has found is cancelled, and has more than its result.
ResultInv ==
    \A c \in Commands :
        /\ task[c] \notin {"committing", "done"} => results[c] = <<>>
        /\ results[c] \in {<<>>, <<"output">>, <<"error">>, <<"output", "error">>}
        /\ ~Targeted(c) => c \notin cancelled /\ task[c] # "cleanup"
        /\ ~Targeted(c) /\ exists /\ task[c] \in {"committing", "done"} =>
               results[c] \in {<<"output">>, <<"error">>}

IInv == TypeOK /\ GroupInv /\ BeginInv /\ SlotInv /\ JoinInv /\ ResultInv

\* The step of StopIsFinal.
Final ==
    \A h \in Halts : halt[h] = "done" /\ target[h] # None
           => results'[target[h]] = results[target[h]]

-----------------------------------------------------------------------------
(* Each part of the invariant *)

\* The initial state: no command.
LEMMA InitInv == Init => IInv
<1> SUFFICES ASSUME Init PROVE IInv
  OBVIOUS
<1>1. TypeOK
  BY ShellAssumption DEF Init, TypeOK, BeginPC, TaskPC, Groups
<1>2. GroupInv /\ BeginInv /\ SlotInv /\ JoinInv /\ ResultInv
  BY ShellAssumption DEF Init, GroupInv, BeginInv, SlotInv, JoinInv, ResultInv,
     Live, Targeted
<1>3. QED
  BY <1>1, <1>2 DEF IInv

\* Every step keeps the types.
LEMMA TypeStep ==
    ASSUME TypeOK, [Next]_vars
    PROVE  TypeOK'
<1> USE ShellAssumption DEF TypeOK, BeginPC, TaskPC, Groups, histories
<1>1. ASSUME NEW c \in Commands, LogCommand(c) PROVE TypeOK'
  BY <1>1 DEF LogCommand, Occupied
<1>2. ASSUME NEW c \in Commands, StartTask(c) PROVE TypeOK'
  BY <1>2 DEF StartTask
<1>3. ASSUME NEW c \in Commands, CancelBegin(c) PROVE TypeOK'
  BY <1>3 DEF CancelBegin
<1>4. ASSUME NEW c \in Commands, Spawn(c) PROVE TypeOK'
  BY <1>4 DEF Spawn, Goto
<1>5. ASSUME NEW c \in Commands, SpawnFails(c) PROVE TypeOK'
  BY <1>5 DEF SpawnFails, Goto, Record
<1>6. ASSUME NEW c \in Commands, TimesOut(c) PROVE TypeOK'
  BY <1>6 DEF TimesOut, Goto
<1>7. ASSUME NEW c \in Commands, Escalates(c) PROVE TypeOK'
  BY <1>7 DEF Escalates, Goto
<1>8. ASSUME NEW c \in Commands, Drained(c) PROVE TypeOK'
  BY <1>8 DEF Drained, Goto, Record
<1>9. ASSUME NEW c \in Commands, Returns(c) PROVE TypeOK'
  BY <1>9 DEF Returns, Goto, PopSlot
<1>10. ASSUME NEW c \in Commands, CancelRunning(c) PROVE TypeOK'
  BY <1>10 DEF CancelRunning
<1>11. ASSUME NEW c \in Commands, Cleaned(c) PROVE TypeOK'
  BY <1>11 DEF Cleaned, Record
<1>12. ASSUME NEW c \in Commands, CancelUnstarted(c) PROVE TypeOK'
  BY <1>12 DEF CancelUnstarted
<1>13. ASSUME NEW c \in Commands, CancelCommitting(c) PROVE TypeOK'
  <2>0. results' = results \/ results' = [results EXCEPT ![c] = Append(@, "error")]
    BY <1>13 DEF CancelCommitting, Record, PopSlot
  <2>1. results' \in [Commands -> Seq({"output", "error"})]
    <3>1. Append(results[c], "error") \in Seq({"output", "error"})
      OBVIOUS
    <3>2. QED
      BY <2>0, <3>1
  <2>2. task' \in [Commands -> TaskPC] /\ slot' \in Commands \cup {None}
    BY <1>13 DEF CancelCommitting, PopSlot
  <2> QED BY <1>13, <2>1, <2>2 DEF CancelCommitting, PopSlot
<1>14. ASSUME NEW c \in Commands, Exits(c) PROVE TypeOK'
  BY <1>14 DEF Exits, Goto, Record
<1>15. ASSUME NEW h \in Halts, CancelBash(h) PROVE TypeOK'
  BY <1>15 DEF CancelBash, Alone, Occupied, Waiting
<1>16. ASSUME NEW h \in Halts, NothingToCancel(h) PROVE TypeOK'
  BY <1>16 DEF NothingToCancel, Alone, Occupied, EndHalt
<1>17. ASSUME NEW h \in Halts, HaltEnds(h) PROVE TypeOK'
  BY <1>17 DEF HaltEnds, EndHalt
<1>18. ASSUME NEW c \in Commands, Started(c) PROVE TypeOK'
  BY <1>18 DEF Started, Goto
<1>19. ASSUME NEW c \in Commands, ShellEnds(c) PROVE TypeOK'
  BY <1>19 DEF ShellEnds, ShellGone
<1>20. ASSUME NEW c \in Commands, CancelLost(c) PROVE TypeOK'
  BY <1>20 DEF CancelLost, Record
<1>21. ASSUME NEW c \in Commands, CancelStarting(c) PROVE TypeOK'
  BY <1>21 DEF CancelStarting, ShellGone
<1>22. CASE UNCHANGED vars
  BY <1>22 DEF vars, histories
<1>23. QED
  BY <1>1, <1>2, <1>3, <1>4, <1>5, <1>6, <1>7, <1>8, <1>9, <1>10, <1>11, <1>12,
     <1>13, <1>14, <1>15, <1>16, <1>17, <1>18, <1>19,
     <1>20, <1>21, <1>22 DEF Next, Begin, Progress, Command, Halting

\* Whoever ends the wait for a command ends its group.
LEMMA GroupStep ==
    ASSUME TypeOK, BeginInv, GroupInv, [Next]_vars
    PROVE  GroupInv'
<1> USE ShellAssumption DEF TypeOK, BeginPC, TaskPC, Groups, histories, BeginInv, GroupInv
<1>1. ASSUME NEW c \in Commands, LogCommand(c) PROVE GroupInv'
  BY <1>1 DEF LogCommand, Occupied
<1>2. ASSUME NEW c \in Commands, StartTask(c) PROVE GroupInv'
  BY <1>2 DEF StartTask
<1>3. ASSUME NEW c \in Commands, CancelBegin(c) PROVE GroupInv'
  BY <1>3 DEF CancelBegin
<1>4. ASSUME NEW c \in Commands, Spawn(c) PROVE GroupInv'
  BY <1>4 DEF Spawn, Goto
<1>5. ASSUME NEW c \in Commands, SpawnFails(c) PROVE GroupInv'
  BY <1>5 DEF SpawnFails, Goto, Record
<1>6. ASSUME NEW c \in Commands, TimesOut(c) PROVE GroupInv'
  BY <1>6 DEF TimesOut, Goto
<1>7. ASSUME NEW c \in Commands, Escalates(c) PROVE GroupInv'
  BY <1>7 DEF Escalates, Goto
<1>8. ASSUME NEW c \in Commands, Drained(c) PROVE GroupInv'
  BY <1>8 DEF Drained, Goto, Record
<1>9. ASSUME NEW c \in Commands, Returns(c) PROVE GroupInv'
  BY <1>9 DEF Returns, Goto, PopSlot
<1>10. ASSUME NEW c \in Commands, CancelRunning(c) PROVE GroupInv'
  BY <1>10 DEF CancelRunning
<1>11. ASSUME NEW c \in Commands, Cleaned(c) PROVE GroupInv'
  BY <1>11 DEF Cleaned, Record
<1>12. ASSUME NEW c \in Commands, CancelUnstarted(c) PROVE GroupInv'
  BY <1>12 DEF CancelUnstarted
<1>13. ASSUME NEW c \in Commands, CancelCommitting(c) PROVE GroupInv'
  BY <1>13 DEF CancelCommitting, Record, PopSlot
<1>14. ASSUME NEW c \in Commands, Exits(c) PROVE GroupInv'
  BY <1>14 DEF Exits, Goto, Record
<1>15. ASSUME NEW h \in Halts, CancelBash(h) PROVE GroupInv'
  BY <1>15 DEF CancelBash, Alone, Occupied, Waiting
<1>16. ASSUME NEW h \in Halts, NothingToCancel(h) PROVE GroupInv'
  BY <1>16 DEF NothingToCancel, Alone, Occupied, EndHalt
<1>17. ASSUME NEW h \in Halts, HaltEnds(h) PROVE GroupInv'
  BY <1>17 DEF HaltEnds, EndHalt
<1>18. ASSUME NEW c \in Commands, Started(c) PROVE GroupInv'
  BY <1>18 DEF Started, Goto
<1>19. ASSUME NEW c \in Commands, ShellEnds(c) PROVE GroupInv'
  BY <1>19 DEF ShellEnds, ShellGone
<1>20. ASSUME NEW c \in Commands, CancelLost(c) PROVE GroupInv'
  BY <1>20 DEF CancelLost, Record
<1>21. ASSUME NEW c \in Commands, CancelStarting(c) PROVE GroupInv'
  BY <1>21 DEF CancelStarting, ShellGone
<1>22. CASE UNCHANGED vars
  BY <1>22 DEF vars, histories
<1>23. QED
  BY <1>1, <1>2, <1>3, <1>4, <1>5, <1>6, <1>7, <1>8, <1>9, <1>10, <1>11, <1>12,
     <1>13, <1>14, <1>15, <1>16, <1>17, <1>18, <1>19,
     <1>20, <1>21, <1>22 DEF Next, Begin, Progress, Command, Halting

\* The lock is held from the row to the task.
LEMMA BeginStep ==
    ASSUME TypeOK, BeginInv, [Next]_vars
    PROVE  BeginInv'
<1> USE ShellAssumption DEF TypeOK, BeginPC, TaskPC, Groups, histories, BeginInv
<1>1. ASSUME NEW c \in Commands, LogCommand(c) PROVE BeginInv'
  BY <1>1 DEF LogCommand, Occupied
<1>2. ASSUME NEW c \in Commands, StartTask(c) PROVE BeginInv'
  BY <1>2 DEF StartTask
<1>3. ASSUME NEW c \in Commands, CancelBegin(c) PROVE BeginInv'
  BY <1>3 DEF CancelBegin
<1>4. ASSUME NEW c \in Commands, Spawn(c) PROVE BeginInv'
  BY <1>4 DEF Spawn, Goto
<1>5. ASSUME NEW c \in Commands, SpawnFails(c) PROVE BeginInv'
  BY <1>5 DEF SpawnFails, Goto, Record
<1>6. ASSUME NEW c \in Commands, TimesOut(c) PROVE BeginInv'
  BY <1>6 DEF TimesOut, Goto
<1>7. ASSUME NEW c \in Commands, Escalates(c) PROVE BeginInv'
  BY <1>7 DEF Escalates, Goto
<1>8. ASSUME NEW c \in Commands, Drained(c) PROVE BeginInv'
  BY <1>8 DEF Drained, Goto, Record
<1>9. ASSUME NEW c \in Commands, Returns(c) PROVE BeginInv'
  BY <1>9 DEF Returns, Goto, PopSlot
<1>10. ASSUME NEW c \in Commands, CancelRunning(c) PROVE BeginInv'
  BY <1>10 DEF CancelRunning
<1>11. ASSUME NEW c \in Commands, Cleaned(c) PROVE BeginInv'
  BY <1>11 DEF Cleaned, Record
<1>12. ASSUME NEW c \in Commands, CancelUnstarted(c) PROVE BeginInv'
  BY <1>12 DEF CancelUnstarted
<1>13. ASSUME NEW c \in Commands, CancelCommitting(c) PROVE BeginInv'
  BY <1>13 DEF CancelCommitting, Record, PopSlot
<1>14. ASSUME NEW c \in Commands, Exits(c) PROVE BeginInv'
  BY <1>14 DEF Exits, Goto, Record
<1>15. ASSUME NEW h \in Halts, CancelBash(h) PROVE BeginInv'
  BY <1>15 DEF CancelBash, Alone, Occupied, Waiting
<1>16. ASSUME NEW h \in Halts, NothingToCancel(h) PROVE BeginInv'
  BY <1>16 DEF NothingToCancel, Alone, Occupied, EndHalt
<1>17. ASSUME NEW h \in Halts, HaltEnds(h) PROVE BeginInv'
  BY <1>17 DEF HaltEnds, EndHalt
<1>18. ASSUME NEW c \in Commands, Started(c) PROVE BeginInv'
  BY <1>18 DEF Started, Goto
<1>19. ASSUME NEW c \in Commands, ShellEnds(c) PROVE BeginInv'
  BY <1>19 DEF ShellEnds, ShellGone
<1>20. ASSUME NEW c \in Commands, CancelLost(c) PROVE BeginInv'
  BY <1>20 DEF CancelLost, Record
<1>21. ASSUME NEW c \in Commands, CancelStarting(c) PROVE BeginInv'
  BY <1>21 DEF CancelStarting, ShellGone
<1>22. CASE UNCHANGED vars
  BY <1>22 DEF vars, histories
<1>23. QED
  BY <1>1, <1>2, <1>3, <1>4, <1>5, <1>6, <1>7, <1>8, <1>9, <1>10, <1>11, <1>12,
     <1>13, <1>14, <1>15, <1>16, <1>17, <1>18, <1>19,
     <1>20, <1>21, <1>22 DEF Next, Begin, Progress, Command, Halting

\* The finally of a task leaves nobody live in the slot, and takes another's entry
\* only if it has lost its own.
LEMMA PopKeeps ==
    ASSUME NEW c \in Commands, TypeOK, SlotInv, Live(c), PopSlot(c),
           task' = [task EXCEPT ![c] = "done"], UNCHANGED <<lock, target>>
    PROVE  SlotInv'
<1> USE ShellAssumption DEF TypeOK, Targeted
<1>1. ASSUME NEW d \in Commands, Live(d)', ~Targeted(d)', d \notin evicted'
      PROVE  FALSE
  <2>1. d # c /\ Live(d)
    BY <1>1 DEF Live
  <2>2. slot = d
    BY <1>1, <2>1 DEF SlotInv, PopSlot
  <2>3. QED
    BY <1>1, <2>1, <2>2 DEF PopSlot
<1>2. ASSUME evicted' # {} PROVE \E d \in Commands : Targeted(d)'
  <2>1. evicted # {} \/ slot # c
    BY <1>2 DEF PopSlot
  <2>2. \E d \in Commands : Targeted(d)
    BY <2>1 DEF SlotInv
  <2>3. QED
    BY <2>2
<1>3. QED
  BY <1>1, <1>2 DEF SlotInv

\* The slot is given up by the task that owns it.
LEMMA SlotStep ==
    ASSUME TypeOK, BeginInv, JoinInv, SlotInv, [Next]_vars
    PROVE  SlotInv'
<1> USE ShellAssumption DEF TypeOK, BeginPC, TaskPC, Groups, histories, BeginInv, SlotInv, Live, Targeted
<1>1. ASSUME NEW c \in Commands, LogCommand(c) PROVE SlotInv'
  BY <1>1 DEF LogCommand, Occupied
<1>2. ASSUME NEW c \in Commands, StartTask(c) PROVE SlotInv'
  BY <1>2 DEF StartTask
<1>3. ASSUME NEW c \in Commands, CancelBegin(c) PROVE SlotInv'
  BY <1>3 DEF CancelBegin
<1>4. ASSUME NEW c \in Commands, Spawn(c) PROVE SlotInv'
  BY <1>4 DEF Spawn, Goto
<1>5. ASSUME NEW c \in Commands, SpawnFails(c) PROVE SlotInv'
  BY <1>5 DEF SpawnFails, Goto, Record
<1>6. ASSUME NEW c \in Commands, TimesOut(c) PROVE SlotInv'
  BY <1>6 DEF TimesOut, Goto
<1>7. ASSUME NEW c \in Commands, Escalates(c) PROVE SlotInv'
  BY <1>7 DEF Escalates, Goto
<1>8. ASSUME NEW c \in Commands, Drained(c) PROVE SlotInv'
  BY <1>8 DEF Drained, Goto, Record
<1>9. ASSUME NEW c \in Commands, Returns(c) PROVE SlotInv'
  BY <1>9, PopKeeps DEF Returns, Goto
<1>10. ASSUME NEW c \in Commands, CancelRunning(c) PROVE SlotInv'
  BY <1>10 DEF CancelRunning
<1>11. ASSUME NEW c \in Commands, Cleaned(c) PROVE SlotInv'
  BY <1>11 DEF Cleaned, Record
<1>12. ASSUME NEW c \in Commands, CancelUnstarted(c) PROVE SlotInv'
  BY <1>12 DEF CancelUnstarted
<1>13. ASSUME NEW c \in Commands, CancelCommitting(c) PROVE SlotInv'
  <2>1. CASE task' = task
    BY <1>13, <2>1 DEF CancelCommitting, PopSlot
  <2>2. CASE task' # task
    BY <1>13, <2>2, PopKeeps DEF CancelCommitting
  <2>3. QED
    BY <2>1, <2>2
<1>14. ASSUME NEW c \in Commands, Exits(c) PROVE SlotInv'
  BY <1>14 DEF Exits, Goto, Record
<1>15. ASSUME NEW h \in Halts, CancelBash(h) PROVE SlotInv'
  <2>1. slot \in Commands /\ target[h] = None
    BY <1>15 DEF CancelBash, Alone, Occupied, JoinInv
  <2>2. \A c \in Commands : Targeted(c)' <=> Targeted(c) \/ c = slot
    BY <1>15, <2>1 DEF CancelBash
  <2>3. QED
    BY <1>15, <2>1, <2>2 DEF CancelBash
<1>16. ASSUME NEW h \in Halts, NothingToCancel(h) PROVE SlotInv'
  BY <1>16 DEF NothingToCancel, Alone, Occupied, EndHalt
<1>17. ASSUME NEW h \in Halts, HaltEnds(h) PROVE SlotInv'
  BY <1>17 DEF HaltEnds, EndHalt
<1>18. ASSUME NEW c \in Commands, Started(c) PROVE SlotInv'
  BY <1>18 DEF Started, Goto
<1>19. ASSUME NEW c \in Commands, ShellEnds(c) PROVE SlotInv'
  BY <1>19 DEF ShellEnds, ShellGone
<1>20. ASSUME NEW c \in Commands, CancelLost(c) PROVE SlotInv'
  BY <1>20 DEF CancelLost, Record
<1>21. ASSUME NEW c \in Commands, CancelStarting(c) PROVE SlotInv'
  BY <1>21 DEF CancelStarting, ShellGone
<1>22. CASE UNCHANGED vars
  BY <1>22 DEF vars, histories
<1>23. QED
  BY <1>1, <1>2, <1>3, <1>4, <1>5, <1>6, <1>7, <1>8, <1>9, <1>10, <1>11, <1>12,
     <1>13, <1>14, <1>15, <1>16, <1>17, <1>18, <1>19,
     <1>20, <1>21, <1>22 DEF Next, Begin, Progress, Command, Halting

\* A task that has ended does not begin again.
LEMMA JoinStep ==
    ASSUME TypeOK, BeginInv, JoinInv, [Next]_vars
    PROVE  JoinInv'
<1> USE ShellAssumption DEF TypeOK, BeginPC, TaskPC, Groups, histories, BeginInv, JoinInv, Live
<1>1. ASSUME NEW c \in Commands, LogCommand(c) PROVE JoinInv'
  BY <1>1 DEF LogCommand, Occupied
<1>2. ASSUME NEW c \in Commands, StartTask(c) PROVE JoinInv'
  BY <1>2 DEF StartTask
<1>3. ASSUME NEW c \in Commands, CancelBegin(c) PROVE JoinInv'
  BY <1>3 DEF CancelBegin
<1>4. ASSUME NEW c \in Commands, Spawn(c) PROVE JoinInv'
  BY <1>4 DEF Spawn, Goto
<1>5. ASSUME NEW c \in Commands, SpawnFails(c) PROVE JoinInv'
  BY <1>5 DEF SpawnFails, Goto, Record
<1>6. ASSUME NEW c \in Commands, TimesOut(c) PROVE JoinInv'
  BY <1>6 DEF TimesOut, Goto
<1>7. ASSUME NEW c \in Commands, Escalates(c) PROVE JoinInv'
  BY <1>7 DEF Escalates, Goto
<1>8. ASSUME NEW c \in Commands, Drained(c) PROVE JoinInv'
  BY <1>8 DEF Drained, Goto, Record
<1>9. ASSUME NEW c \in Commands, Returns(c) PROVE JoinInv'
  BY <1>9 DEF Returns, Goto, PopSlot
<1>10. ASSUME NEW c \in Commands, CancelRunning(c) PROVE JoinInv'
  BY <1>10 DEF CancelRunning
<1>11. ASSUME NEW c \in Commands, Cleaned(c) PROVE JoinInv'
  BY <1>11 DEF Cleaned, Record
<1>12. ASSUME NEW c \in Commands, CancelUnstarted(c) PROVE JoinInv'
  BY <1>12 DEF CancelUnstarted
<1>13. ASSUME NEW c \in Commands, CancelCommitting(c) PROVE JoinInv'
  BY <1>13 DEF CancelCommitting, Record, PopSlot
<1>14. ASSUME NEW c \in Commands, Exits(c) PROVE JoinInv'
  BY <1>14 DEF Exits, Goto, Record
<1>15. ASSUME NEW h \in Halts, CancelBash(h) PROVE JoinInv'
  BY <1>15 DEF CancelBash, Alone, Occupied, Waiting
<1>16. ASSUME NEW h \in Halts, NothingToCancel(h) PROVE JoinInv'
  BY <1>16 DEF NothingToCancel, Alone, Occupied, EndHalt
<1>17. ASSUME NEW h \in Halts, HaltEnds(h) PROVE JoinInv'
  BY <1>17 DEF HaltEnds, EndHalt
<1>18. ASSUME NEW c \in Commands, Started(c) PROVE JoinInv'
  BY <1>18 DEF Started, Goto
<1>19. ASSUME NEW c \in Commands, ShellEnds(c) PROVE JoinInv'
  BY <1>19 DEF ShellEnds, ShellGone
<1>20. ASSUME NEW c \in Commands, CancelLost(c) PROVE JoinInv'
  BY <1>20 DEF CancelLost, Record
<1>21. ASSUME NEW c \in Commands, CancelStarting(c) PROVE JoinInv'
  BY <1>21 DEF CancelStarting, ShellGone
<1>22. CASE UNCHANGED vars
  BY <1>22 DEF vars, histories
<1>23. QED
  BY <1>1, <1>2, <1>3, <1>4, <1>5, <1>6, <1>7, <1>8, <1>9, <1>10, <1>11, <1>12,
     <1>13, <1>14, <1>15, <1>16, <1>17, <1>18, <1>19,
     <1>20, <1>21, <1>22 DEF Next, Begin, Progress, Command, Halting

\* A task writes its result once, and the report of a stop when it is stopped.
LEMMA ResultStep ==
    ASSUME TypeOK, BeginInv, JoinInv, ResultInv, [Next]_vars
    PROVE  ResultInv'
<1> USE ShellAssumption DEF TypeOK, BeginPC, TaskPC, Groups, histories, BeginInv, ResultInv, Targeted
<1>1. ASSUME NEW c \in Commands, LogCommand(c) PROVE ResultInv'
  BY <1>1 DEF LogCommand, Occupied
<1>2. ASSUME NEW c \in Commands, StartTask(c) PROVE ResultInv'
  BY <1>2 DEF StartTask
<1>3. ASSUME NEW c \in Commands, CancelBegin(c) PROVE ResultInv'
  BY <1>3 DEF CancelBegin
<1>4. ASSUME NEW c \in Commands, Spawn(c) PROVE ResultInv'
  BY <1>4 DEF Spawn, Goto
<1>5. ASSUME NEW c \in Commands, SpawnFails(c) PROVE ResultInv'
  <2>1. results[c] = <<>> /\ task' = [task EXCEPT ![c] = "committing"]
    BY <1>5 DEF SpawnFails, Goto, Record
  <2>2. results' = IF exists THEN [results EXCEPT ![c] = <<"output">>] ELSE results
    BY <1>5, <2>1 DEF SpawnFails, Goto, Record
  <2> QED BY <1>5, <2>1, <2>2 DEF SpawnFails, Goto, Record
<1>6. ASSUME NEW c \in Commands, TimesOut(c) PROVE ResultInv'
  BY <1>6 DEF TimesOut, Goto
<1>7. ASSUME NEW c \in Commands, Escalates(c) PROVE ResultInv'
  BY <1>7 DEF Escalates, Goto
<1>8. ASSUME NEW c \in Commands, Drained(c) PROVE ResultInv'
  <2>1. results[c] = <<>> /\ task' = [task EXCEPT ![c] = "committing"]
    BY <1>8 DEF Drained, Goto
  <2>2. PICK kind \in {"output", "error"} : Record(c, kind)
    BY <1>8 DEF Drained
  <2>3. results' = IF exists THEN [results EXCEPT ![c] = <<kind>>] ELSE results
    BY <2>1, <2>2 DEF Record
  <2> QED BY <1>8, <2>1, <2>3 DEF Drained
<1>9. ASSUME NEW c \in Commands, Returns(c) PROVE ResultInv'
  BY <1>9 DEF Returns, Goto, PopSlot
<1>10. ASSUME NEW c \in Commands, CancelRunning(c) PROVE ResultInv'
  BY <1>10 DEF CancelRunning
<1>11. ASSUME NEW c \in Commands, Cleaned(c) PROVE ResultInv'
  <2>1. results[c] = <<>> /\ task' = [task EXCEPT ![c] = "committing"]
    BY <1>11 DEF Cleaned, Record
  <2>2. results' = IF exists THEN [results EXCEPT ![c] = <<"error">>] ELSE results
    BY <1>11, <2>1 DEF Cleaned, Record
  <2> QED BY <1>11, <2>1, <2>2 DEF Cleaned, Record
<1>12. ASSUME NEW c \in Commands, CancelUnstarted(c) PROVE ResultInv'
  BY <1>12 DEF CancelUnstarted
<1>13. ASSUME NEW c \in Commands, CancelCommitting(c) PROVE ResultInv'
  <2>1. c \in cancelled /\ task[c] = "committing" /\ Targeted(c)
    BY <1>13 DEF CancelCommitting, PopSlot
  <2>2. CASE results[c] = <<"output">>
    <3>1. /\ task' = task
          /\ results' = IF exists THEN [results EXCEPT ![c] = <<"output", "error">>]
                        ELSE results
      BY <1>13, <2>2 DEF CancelCommitting, Record, PopSlot
    <3>2. QED
      BY <1>13, <2>1, <2>2, <3>1 DEF CancelCommitting, PopSlot
  <2>3. CASE results[c] # <<"output">>
    <3>1. results[c] = <<>> \/ results[c] = <<"error">> \/ results[c] = <<"output", "error">>
      BY <2>3
    <3>2. results[c] = <<>> \/ results[c][Len(results[c])] # "output"
      <4>1. CASE results[c] = <<"error">>
        <5>1. Len(results[c]) = 1 /\ results[c][1] = "error"
          BY <4>1
        <5>2. QED
          BY <5>1
      <4>2. CASE results[c] = <<"output", "error">>
        <5>1. Len(results[c]) = 2 /\ results[c][2] = "error"
          BY <4>2
        <5>2. QED
          BY <5>1
      <4>3. QED
        BY <3>1, <4>1, <4>2
    <3>3. task' = [task EXCEPT ![c] = "done"] /\ results' = results
      BY <1>13, <3>2 DEF CancelCommitting, PopSlot
    <3>4. QED
      BY <1>13, <2>1, <3>3 DEF CancelCommitting, PopSlot
  <2> QED BY <2>2, <2>3
<1>14. ASSUME NEW c \in Commands, Exits(c) PROVE ResultInv'
  <2>1. results[c] = <<>> /\ task' = [task EXCEPT ![c] = "committing"]
    BY <1>14 DEF Exits, Goto, Record
  <2>2. results' = IF exists THEN [results EXCEPT ![c] = <<"output">>] ELSE results
    BY <1>14, <2>1 DEF Exits, Goto, Record
  <2> QED BY <1>14, <2>1, <2>2 DEF Exits, Goto, Record
<1>15. ASSUME NEW h \in Halts, CancelBash(h) PROVE ResultInv'
  <2>1. slot \in Commands /\ Live(slot) /\ cancelled' = cancelled \cup {slot}
    BY <1>15 DEF CancelBash, Occupied
  <2>2. \A c \in Commands : Targeted(c)' <=> Targeted(c) \/ c = slot
    BY <1>15 DEF CancelBash, Alone, Occupied, JoinInv
  <2> QED BY <1>15, <2>1, <2>2 DEF CancelBash
<1>16. ASSUME NEW h \in Halts, NothingToCancel(h) PROVE ResultInv'
  BY <1>16 DEF NothingToCancel, Alone, Occupied, EndHalt
<1>17. ASSUME NEW h \in Halts, HaltEnds(h) PROVE ResultInv'
  BY <1>17 DEF HaltEnds, EndHalt
<1>18. ASSUME NEW c \in Commands, Started(c) PROVE ResultInv'
  BY <1>18 DEF Started, Goto
<1>19. ASSUME NEW c \in Commands, ShellEnds(c) PROVE ResultInv'
  BY <1>19 DEF ShellEnds, ShellGone
<1>20. ASSUME NEW c \in Commands, CancelLost(c) PROVE ResultInv'
  <2>1. results[c] = <<>> /\ task' = [task EXCEPT ![c] = "committing"]
    BY <1>20 DEF CancelLost
  <2>2. results' = IF exists THEN [results EXCEPT ![c] = <<"output">>] ELSE results
    BY <1>20, <2>1 DEF CancelLost, Record
  <2> QED BY <1>20, <2>1, <2>2 DEF CancelLost
<1>21. ASSUME NEW c \in Commands, CancelStarting(c) PROVE ResultInv'
  BY <1>21 DEF CancelStarting, ShellGone
<1>22. CASE UNCHANGED vars
  BY <1>22 DEF vars, histories
<1>23. QED
  BY <1>1, <1>2, <1>3, <1>4, <1>5, <1>6, <1>7, <1>8, <1>9, <1>10, <1>11, <1>12,
     <1>13, <1>14, <1>15, <1>16, <1>17, <1>18, <1>19,
     <1>20, <1>21, <1>22 DEF Next, Begin, Progress, Command, Halting

\* A task that has ended writes nothing.
LEMMA FinalStep ==
    ASSUME TypeOK, BeginInv, JoinInv, [Next]_vars
    PROVE  Final
<1> USE ShellAssumption DEF TypeOK, BeginPC, TaskPC, Groups, histories, BeginInv, JoinInv, Final
<1>1. ASSUME NEW c \in Commands, LogCommand(c) PROVE Final
  BY <1>1 DEF LogCommand, Occupied
<1>2. ASSUME NEW c \in Commands, StartTask(c) PROVE Final
  BY <1>2 DEF StartTask
<1>3. ASSUME NEW c \in Commands, CancelBegin(c) PROVE Final
  BY <1>3 DEF CancelBegin
<1>4. ASSUME NEW c \in Commands, Spawn(c) PROVE Final
  BY <1>4 DEF Spawn, Goto
<1>5. ASSUME NEW c \in Commands, SpawnFails(c) PROVE Final
  BY <1>5 DEF SpawnFails, Goto, Record
<1>6. ASSUME NEW c \in Commands, TimesOut(c) PROVE Final
  BY <1>6 DEF TimesOut, Goto
<1>7. ASSUME NEW c \in Commands, Escalates(c) PROVE Final
  BY <1>7 DEF Escalates, Goto
<1>8. ASSUME NEW c \in Commands, Drained(c) PROVE Final
  BY <1>8 DEF Drained, Goto, Record
<1>9. ASSUME NEW c \in Commands, Returns(c) PROVE Final
  BY <1>9 DEF Returns, Goto, PopSlot
<1>10. ASSUME NEW c \in Commands, CancelRunning(c) PROVE Final
  BY <1>10 DEF CancelRunning
<1>11. ASSUME NEW c \in Commands, Cleaned(c) PROVE Final
  BY <1>11 DEF Cleaned, Record
<1>12. ASSUME NEW c \in Commands, CancelUnstarted(c) PROVE Final
  BY <1>12 DEF CancelUnstarted
<1>13. ASSUME NEW c \in Commands, CancelCommitting(c) PROVE Final
  BY <1>13 DEF CancelCommitting, Record, PopSlot
<1>14. ASSUME NEW c \in Commands, Exits(c) PROVE Final
  BY <1>14 DEF Exits, Goto, Record
<1>15. ASSUME NEW h \in Halts, CancelBash(h) PROVE Final
  BY <1>15 DEF CancelBash, Alone, Occupied, Waiting
<1>16. ASSUME NEW h \in Halts, NothingToCancel(h) PROVE Final
  BY <1>16 DEF NothingToCancel, Alone, Occupied, EndHalt
<1>17. ASSUME NEW h \in Halts, HaltEnds(h) PROVE Final
  BY <1>17 DEF HaltEnds, EndHalt
<1>18. ASSUME NEW c \in Commands, Started(c) PROVE Final
  BY <1>18 DEF Started, Goto
<1>19. ASSUME NEW c \in Commands, ShellEnds(c) PROVE Final
  BY <1>19 DEF ShellEnds, ShellGone
<1>20. ASSUME NEW c \in Commands, CancelLost(c) PROVE Final
  BY <1>20 DEF CancelLost, Record
<1>21. ASSUME NEW c \in Commands, CancelStarting(c) PROVE Final
  BY <1>21 DEF CancelStarting, ShellGone
<1>22. CASE UNCHANGED vars
  BY <1>22 DEF vars, histories
<1>23. QED
  BY <1>1, <1>2, <1>3, <1>4, <1>5, <1>6, <1>7, <1>8, <1>9, <1>10, <1>11, <1>12,
     <1>13, <1>14, <1>15, <1>16, <1>17, <1>18, <1>19,
     <1>20, <1>21, <1>22 DEF Next, Begin, Progress, Command, Halting

-----------------------------------------------------------------------------
(* The theorems *)

\* The invariant holds in every behaviour.
THEOREM Invariant == Spec => []IInv
<1>1. IInv /\ [Next]_vars => IInv'
  BY TypeStep, GroupStep, BeginStep, SlotStep, JoinStep, ResultStep DEF IInv
<1>2. QED
  BY InitInv, <1>1, PTL DEF Spec

\* Every variable has a value of its type, the results their two kinds of rows.
THEOREM Types == Spec => []TypeOK
<1>1. IInv => TypeOK
  BY DEF IInv
<1>2. QED
  BY Invariant, <1>1, PTL

\* Of two commands at work one was taken out of the slot by a Stop or Delete, or by
\* the finally of such a one: begin_bash's check and the creation of its task
\* exclude each other, and only a Stop or Delete makes a first exception.
THEOREM StartsAreExclusive == Spec => []StartsExclude
<1>1. IInv => StartsExclude
  BY DEF IInv, SlotInv, StartsExclude
<1>2. QED
  BY Invariant, <1>1, PTL

\* When run_command has ended, so has the shell, and the whole group of a command
\* whose deadline passed or that was stopped while it ran.
THEOREM NoGroupIsLeft == Spec => []NoStrayGroup
<1>1. IInv => NoStrayGroup
  BY DEF IInv, GroupInv, NoStrayGroup
<1>2. QED
  BY Invariant, <1>1, PTL

\* A command that nobody stopped has exactly one result, a stopped one at most its
\* output and the report of the stop.
THEOREM ResultsAreComplete == Spec => []ResultsComplete
<1>1. IInv => ResultsComplete
  BY DEF IInv, ResultInv, ResultsComplete, Targeted
<1>2. QED
  BY Invariant, <1>1, PTL

\* After a Stop or Delete has returned, the command it stopped writes nothing.
THEOREM StopsAreFinal == Spec => StopIsFinal
<1>1. IInv /\ [Next]_vars => [Final]_vars
  BY FinalStep DEF IInv
<1>2. QED
  BY Invariant, <1>1, PTL DEF Spec, StopIsFinal, Final
=============================================================================
