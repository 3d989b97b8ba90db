-------------------------- MODULE SessionStreamProofs --------------------------
(***************************************************************************)
(* Theorems about SessionStream: subscribers show the session as it is,    *)
(* queues stay within their limit, a block of output gets one row but for   *)
(* a late end after an error, and no draft is lost silently, for any        *)
(* number of subscribers and blocks.                                        *)
(***************************************************************************)
EXTENDS SessionStream, FoldLemmas

Rows == [kind : Kinds, stream : Streams \cup {None}]

LogInv == log \in Seq(Rows)

\* A block that has a row is no draft any more; one that was cut has that of its
\* draft.
RowsInv ==
    \A i \in 1..Len(log) : log[i].stream # None =>
        /\ stage[log[i].stream] \in {"cut", "final", "late"}
        /\ stage[log[i].stream] = "cut" => log[i].kind = "interrupted"

\* What a client may show.
Views == [rows : Seq(Nat), drafts : SUBSET (Streams \X Nat), inbox : Seq(Nat), status : Statuses]

\* The rows r are the last ones of a transcript of n.
LastRows(r, n) ==
    /\ r = [i \in 1..Len(r) |-> n - Len(r) + i]
    /\ Len(r) <= n /\ (Len(r) = n \/ Len(r) >= ReplayLimit)

\* The client that shows v shows this session.
Shows(v, n, q, s, ds) ==
    v \in Views /\ v.inbox = q /\ v.status = s /\ v.drafts = ds /\ LastRows(v.rows, n)

\* Every live client shows the session as it is.
ViewInv ==
    /\ DOMAIN view = Clients
    /\ \A c \in Clients : conn[c] = "live" => Shows(view[c], Len(log), inbox, status, Drafts)

\* The message queue refers to rows, and a draft begins empty.
SourceInv == inbox \in Seq(Nat) /\ \A d \in Streams : stage[d] = "new" => revision[d] = 0

IInv == TypeOK /\ LogInv /\ RowsInv /\ OneRowPerStream /\ SourceInv /\ ViewInv

\* The rows r are each of another block: of a draft, which it ends or cuts, or of
\* a block that was cut, which ends late.
FreshRows(r) ==
    /\ \A i \in 1..Len(r) : r[i].stream # None =>
         \/ /\ stage[r[i].stream] = "draft" /\ stage'[r[i].stream] \in {"cut", "final"}
            /\ stage'[r[i].stream] = "cut" => r[i].kind = "interrupted"
         \/ /\ stage[r[i].stream] = "cut" /\ stage'[r[i].stream] = "late"
            /\ r[i].kind = "output"
    /\ \A i, j \in 1..Len(r) : r[i].stream # None /\ r[i].stream = r[j].stream => i = j

\* What a step that appends the rows r does to the transcript and the stages.
Appends(r) ==
    /\ r \in Seq(Rows) /\ log' = log \o r /\ FreshRows(r)
    /\ \A d \in Streams :
         /\ stage[d] \in {"final", "late"} => stage'[d] = stage[d]
         /\ stage[d] = "cut" => stage'[d] \in {"cut", "final", "late"}

\* What a step that interrupts the drafts ds does to them and to the stages.
Interrupts(ds) ==
    /\ ds \subseteq InStage("draft") /\ InterruptDrafts(ds)
    /\ stage' \in [Streams -> Stages]
    /\ \A d \in ds : stage'[d] \in {"cut", "final"}
    /\ \A d \in Streams \ ds : stage'[d] = stage[d] \/ (stage[d] = "cut" /\ stage'[d] = "final")

\* The steps that do.
Interruption ==
    CutDrafts \/ FailTurn \/ CloseDrafts \/ \E d \in Streams : InterruptBlock(d)

-----------------------------------------------------------------------------
(* Sequences of the elements of a set *)

\* SetToSeq lists each element of a finite set once.
LEMMA SetToSeqLists ==
    ASSUME NEW S, IsFiniteSet(S)
    PROVE  /\ SetToSeq(S) \in [1..Cardinality(S) -> S] /\ SetToSeq(S) \in Seq(S)
           /\ Cardinality(S) \in Nat /\ Len(SetToSeq(S)) = Cardinality(S)
           /\ \A i, j \in 1..Cardinality(S) : SetToSeq(S)[i] = SetToSeq(S)[j] => i = j
           /\ \A x \in S : \E i \in 1..Cardinality(S) : SetToSeq(S)[i] = x
<1> DEFINE n == Cardinality(S)
<1>1. n \in Nat /\ ExistsBijection(1..n, S)
  BY FS_CardinalityType
<1>2. \E f \in [1..n -> S] : IsInjective(f)
  BY <1>1 DEF ExistsBijection, Bijection, Injection
<1>3. SetToSeq(S) \in [1..n -> S] /\ IsInjective(SetToSeq(S))
  BY <1>2 DEF SetToSeq
<1>4. SetToSeq(S) \in Injection(1..n, S)
  BY <1>3 DEF Injection
<1>5. IsFiniteSet(1..n) /\ Cardinality(1..n) = n
  BY <1>1, FS_Interval
<1>6. SetToSeq(S) \in Surjection(1..n, S)
  BY <1>4, <1>5, FS_Injection
<1>7. \A x \in S : \E i \in 1..n : SetToSeq(S)[i] = x
  BY <1>6 DEF Surjection
<1>8. SetToSeq(S) \in Seq(S) /\ Len(SetToSeq(S)) = n
  BY <1>1, <1>3
<1>9. \A i, j \in 1..n : SetToSeq(S)[i] = SetToSeq(S)[j] => i = j
  BY <1>3 DEF IsInjective
<1>10. QED
  BY <1>1, <1>3, <1>7, <1>8, <1>9

\* The rows kept of a set of drafts: interrupted ones, and one for each of them.
LEMMA KeptRows ==
    ASSUME NEW ds \in SUBSET Streams
    PROVE  LET kept == SetToSeq({Of("interrupted", d) : d \in ds})
           IN  /\ kept \in Seq(Rows)
               /\ \A i \in 1..Len(kept) :
                    kept[i].stream \in ds /\ kept[i] = Of("interrupted", kept[i].stream)
               /\ \A i, j \in 1..Len(kept) : kept[i].stream = kept[j].stream => i = j
               /\ \A d \in ds : \E i \in 1..Len(kept) : kept[i].stream = d
<1> DEFINE S == {Of("interrupted", d) : d \in ds}
           kept == SetToSeq(S)
<1>1. IsFiniteSet(S)
  <2>1. IsFiniteSet(ds)
    BY StreamAssumption, FS_Subset
  <2>2. [d \in ds |-> Of("interrupted", d)] \in Surjection(ds, S)
    BY DEF Surjection
  <2>3. QED
    BY <2>1, <2>2, FS_Surjection
<1>2. \A x \in S : x \in Rows /\ x.stream \in ds /\ x = Of("interrupted", x.stream)
  BY DEF Rows, Of, Kinds
<1>3. /\ kept \in Seq(S) /\ Len(kept) = Cardinality(S) /\ Cardinality(S) \in Nat
      /\ kept \in [1..Cardinality(S) -> S]
      /\ \A i, j \in 1..Cardinality(S) : kept[i] = kept[j] => i = j
      /\ \A x \in S : \E i \in 1..Cardinality(S) : kept[i] = x
  BY <1>1, SetToSeqLists
<1>4. kept \in Seq(Rows)
  BY <1>2, <1>3
<1>5. \A i \in 1..Len(kept) :
           kept[i].stream \in ds /\ kept[i] = Of("interrupted", kept[i].stream)
  BY <1>2, <1>3
<1>6. \A i, j \in 1..Len(kept) : kept[i].stream = kept[j].stream => i = j
  <2> SUFFICES ASSUME NEW i \in 1..Len(kept), NEW j \in 1..Len(kept),
                      kept[i].stream = kept[j].stream
               PROVE  i = j
    OBVIOUS
  <2>1. kept[i] \in S /\ kept[j] \in S
    BY <1>3
  <2>2. /\ kept[i] = Of("interrupted", kept[i].stream)
        /\ kept[j] = Of("interrupted", kept[j].stream)
    BY <1>2, <2>1
  <2>3. QED
    BY <1>3, <2>2
<1>7. \A d \in ds : \E i \in 1..Len(kept) : kept[i].stream = d
  <2> SUFFICES ASSUME NEW d \in ds PROVE \E i \in 1..Len(kept) : kept[i].stream = d
    OBVIOUS
  <2> HIDE DEF kept
  <2>1. PICK i \in 1..Cardinality(S) : kept[i] = Of("interrupted", d)
    BY <1>3
  <2>2. kept[i].stream = d
    BY <2>1 DEF Of
  <2>3. QED
    BY <1>3, <2>2
<1>8. QED
  BY <1>4, <1>5, <1>6, <1>7

-----------------------------------------------------------------------------
(* The transcript *)

Recorded == (\E r : Appends(r)) \/ log' = <<>>

\* All of them interrupt some drafts.
LEMMA SomeAreInterrupted ==
    ASSUME TypeOK, Interruption
    PROVE  \E ds : Interrupts(ds)
<1> DEFINE all == InStage("draft")
<1>1. all \subseteq Streams /\ \A d \in all : stage[d] = "draft"
  BY DEF InStage
<1>2. stage \in [Streams -> Stages]
  BY DEF TypeOK
<1>3. ASSUME InterruptDrafts(all), NEW s \in {"cut", "final"}, MoveTo(all, s)
      PROVE  \E ds : Interrupts(ds)
  <2>1. stage' = [d \in Streams |-> IF d \in all THEN s ELSE stage[d]]
    BY <1>3 DEF MoveTo
  <2>2. s \in Stages
    BY DEF Stages
  <2> HIDE DEF all
  <2>3. /\ stage' \in [Streams -> Stages]
        /\ \A d \in all : stage'[d] \in {"cut", "final"}
        /\ \A d \in Streams \ all : stage'[d] = stage[d]
    BY <1>1, <1>2, <2>1, <2>2
  <2>4. all = InStage("draft")
    BY DEF all
  <2>5. Interrupts(all)
    BY <1>3, <2>3, <2>4 DEF Interrupts
  <2>6. QED
    BY <2>5
<1>4. ASSUME NEW d \in Streams, InterruptBlock(d) PROVE \E ds : Interrupts(ds)
  <2>1. /\ InterruptDrafts({d} \cap all) /\ stage[d] \in {"draft", "cut"}
        /\ stage' = [x \in Streams |-> IF x \in {d} THEN "final" ELSE stage[x]]
    BY <1>4 DEF InterruptBlock, MoveTo
  <2>2. "final" \in Stages
    BY DEF Stages
  <2>3. d \in all <=> stage[d] = "draft"
    BY DEF InStage
  <2> HIDE DEF all
  <2>4. /\ stage' \in [Streams -> Stages] /\ stage'[d] = "final"
        /\ \A x \in Streams \ {d} : stage'[x] = stage[x]
    BY <1>2, <2>1, <2>2
  <2>5. \A x \in Streams \ ({d} \cap all) :
           stage'[x] = stage[x] \/ (stage[x] = "cut" /\ stage'[x] = "final")
    <3>1. CASE d \in all
      BY <2>4, <3>1
    <3>2. CASE d \notin all
      <4>1. stage[d] = "cut" /\ stage'[d] = "final"
        BY <2>1, <2>3, <2>4, <3>2
      <4>2. QED
        BY <2>4, <4>1
    <3>3. QED
      BY <3>1, <3>2
  <2>6. Interrupts({d} \cap all)
    BY <1>1, <2>1, <2>4, <2>5 DEF Interrupts, all
  <2>7. QED
    BY <2>6
<1>5. QED
  BY <1>3, <1>4 DEF Interruption, CutDrafts, FailTurn, CloseDrafts

\* Drafts that are interrupted get a row each, or none.
LEMMA Interrupted ==
    ASSUME TypeOK, LogInv, NEW ds, Interrupts(ds)
    PROVE  Recorded
<1> DEFINE full == ds \cap substantive
           kept == SetToSeq({Of("interrupted", d) : d \in full})
<1>1. /\ full \in SUBSET Streams
      /\ \A d \in full : stage[d] = "draft" /\ stage'[d] \in {"cut", "final"}
      /\ \A d \in ds : stage[d] = "draft"
  BY DEF Interrupts, InStage
<1>2. /\ kept \in Seq(Rows)
      /\ \A i \in 1..Len(kept) :
            kept[i].stream \in full /\ kept[i] = Of("interrupted", kept[i].stream)
      /\ \A i, j \in 1..Len(kept) : kept[i].stream = kept[j].stream => i = j
  BY <1>1, KeptRows
<1>3. log' = log \o kept
  BY DEF Interrupts, InterruptDrafts
<1> HIDE DEF kept
<1>4. \A i \in 1..Len(kept) : /\ stage[kept[i].stream] = "draft"
                               /\ stage'[kept[i].stream] \in {"cut", "final"}
                               /\ kept[i].kind = "interrupted"
  <2>1. \A d : Of("interrupted", d).kind = "interrupted"
    BY DEF Of
  <2> HIDE DEF full
  <2>2. QED
    BY <1>1, <1>2, <2>1
<1>5. FreshRows(kept)
  BY <1>2, <1>4 DEF FreshRows
<1>6. Appends(kept)
  BY <1>1, <1>2, <1>3, <1>5 DEF Interrupts, Appends
<1>7. QED
  BY <1>6 DEF Recorded

\* Whatever happens, fresh rows are appended or the session is deleted.
LEMMA TranscriptStep ==
    ASSUME TypeOK, LogInv, [Next]_vars
    PROVE  Recorded
<1> USE StreamAssumption DEF Recorded
<1>1. ASSUME AcceptInput PROVE Recorded
  <2>1. Appends(Plain("input"))
    BY <1>1 DEF AcceptInput, Appends, FreshRows, Plain, Rows, Kinds
  <2>2. QED
    BY <2>1
<1>2. ASSUME Ship PROVE Recorded
  <2>1. Appends(Plain("shipped"))
    BY <1>2 DEF Ship, Appends, FreshRows, Plain, Rows, Kinds
  <2>2. QED
    BY <2>1
<1>3. ASSUME RecordEvent PROVE Recorded
  <2>1. Appends(Plain("event"))
    BY <1>3 DEF RecordEvent, Appends, FreshRows, Plain, Rows, Kinds
  <2>2. QED
    BY <2>1
<1>4. ASSUME RecordRequest PROVE Recorded
  <2>1. Appends(Plain("event"))
    BY <1>4 DEF RecordRequest, Appends, FreshRows, Plain, Rows, Kinds
  <2>2. QED
    BY <2>1
<1>5. ASSUME RecordResponse PROVE Recorded
  <2>1. Appends(Plain("event"))
    BY <1>5 DEF RecordResponse, Appends, FreshRows, Plain, Rows, Kinds
  <2>2. QED
    BY <2>1
<1>6. ASSUME GoIdle PROVE Recorded
  <2>1. Appends(<<>>)
    BY <1>6 DEF GoIdle, Appends, FreshRows, LogInv, TypeOK
  <2>2. QED
    BY <2>1
<1>7. ASSUME OpenRegistry PROVE Recorded
  <2>1. Appends(<<>>)
    BY <1>7 DEF OpenRegistry, Appends, FreshRows, LogInv, TypeOK
  <2>2. QED
    BY <2>1
<1>8. ASSUME Interruption PROVE Recorded
  BY <1>8, SomeAreInterrupted, Interrupted
<1>9. ASSUME PopRegistry PROVE Recorded
  <2>1. Appends(<<>>)
    BY <1>9 DEF PopRegistry, MoveTo, InStage, Appends, FreshRows, LogInv, TypeOK
  <2>2. QED
    BY <2>1
<1>10. ASSUME NEW d \in Streams, StartDraft(d) PROVE Recorded
  <2>1. Appends(<<>>)
    BY <1>10 DEF StartDraft, MoveTo, InStage, Appends, FreshRows, LogInv, TypeOK
  <2>2. QED
    BY <2>1
<1>11. ASSUME NEW d \in Streams, UpdateDraft(d) PROVE Recorded
  <2>1. Appends(<<>>)
    BY <1>11 DEF UpdateDraft, Appends, FreshRows, LogInv, TypeOK
  <2>2. QED
    BY <2>1
<1>12. ASSUME NEW d \in Streams, FinishDraft(d) PROVE Recorded
  <2>1. Appends(<<Of("output", d)>>)
    BY <1>12 DEF FinishDraft, MoveTo, InStage, Appends, FreshRows, Of, Rows, Kinds, LogInv, TypeOK
  <2>2. QED
    BY <2>1
<1>13. ASSUME ReportFailure PROVE Recorded
  <2>1. Appends(Plain("event"))
    BY <1>13 DEF ReportFailure, Appends, FreshRows, Plain, Rows, Kinds
  <2>2. QED
    BY <2>1
<1>14. ASSUME NEW c \in Clients, Connect(c) PROVE Recorded
  <2>1. Appends(<<>>)
    BY <1>14 DEF Connect, Welcome, session, Appends, FreshRows, LogInv, TypeOK
  <2>2. QED
    BY <2>1
<1>15. ASSUME NEW c \in Clients, Send(c) PROVE Recorded
  <2>1. Appends(<<>>)
    BY <1>15 DEF Send, session, Appends, FreshRows, LogInv, TypeOK
  <2>2. QED
    BY <2>1
<1>16. ASSUME NEW c \in Clients, Disconnect(c) PROVE Recorded
  <2>1. Appends(<<>>)
    BY <1>16 DEF Disconnect, session, Appends, FreshRows, LogInv, TypeOK
  <2>2. QED
    BY <2>1
<1>17. ASSUME NEW c \in Clients, LocalError(c) PROVE Recorded
  <2>1. Appends(<<>>)
    BY <1>17 DEF LocalError, session, Appends, FreshRows, LogInv, TypeOK
  <2>2. QED
    BY <2>1
<1>18. ASSUME DeleteSession PROVE Recorded
  BY <1>18 DEF DeleteSession
<1>19. ASSUME Crash PROVE Recorded
  <2>1. Appends(<<>>)
    BY <1>19 DEF Crash, MoveTo, InStage, Appends, FreshRows, LogInv, TypeOK
  <2>2. QED
    BY <2>1
<1>20. ASSUME UNCHANGED vars PROVE Recorded
  <2>1. Appends(<<>>)
    BY <1>20 DEF vars, session, Appends, FreshRows, LogInv, TypeOK
  <2>2. QED
    BY <2>1
<1>21. QED
  BY <1>1, <1>2, <1>3, <1>4, <1>5, <1>6, <1>7, <1>8, <1>9, <1>10, <1>11, <1>12, <1>13, <1>14,
       <1>15, <1>16, <1>17, <1>18, <1>19, <1>20
  DEF Next, Drafting, Interruption, DeltaFails, AgentFails

\* What a row consists of.
LEMMA RowTypes == \A x \in Rows : x.kind \in Kinds /\ x.stream \in Streams \cup {None}
  BY DEF Rows

\* Fresh rows keep one row per block.
LEMMA AppendStep ==
    ASSUME IInv, NEW r, Appends(r)
    PROVE  LogInv' /\ RowsInv' /\ OneRowPerStream'
<1>1. /\ log \in Seq(Rows) /\ r \in Seq(Rows) /\ log' = log \o r
      /\ Len(log') = Len(log) + Len(r) /\ Len(log) \in Nat /\ Len(r) \in Nat
  BY DEF IInv, LogInv, Appends
<1>2. LogInv'
  BY <1>1 DEF LogInv
<1>3. \A i \in 1..Len(log') :
         \/ i \in 1..Len(log) /\ log'[i] = log[i]
         \/ i > Len(log) /\ i - Len(log) \in 1..Len(r) /\ log'[i] = r[i - Len(log)]
  BY <1>1
<1>4. \A i \in 1..Len(log) : log[i].stream # None => log[i].stream \in Streams
  <2>1. \A i \in 1..Len(log) : log[i] \in Rows
    BY <1>1
  <2>2. QED
    BY <2>1, RowTypes
<1>5. RowsInv'
  <2> SUFFICES ASSUME NEW i \in 1..Len(log'), log'[i].stream # None
               PROVE  /\ stage'[log'[i].stream] \in {"cut", "final", "late"}
                      /\ stage'[log'[i].stream] = "cut" => log'[i].kind = "interrupted"
    BY DEF RowsInv
  <2>1. CASE i \in 1..Len(log) /\ log'[i] = log[i]
    <3>1. /\ stage[log[i].stream] \in {"cut", "final", "late"} /\ log[i].stream \in Streams
          /\ stage[log[i].stream] = "cut" => log[i].kind = "interrupted"
      BY <1>4, <2>1 DEF IInv, RowsInv
    <3>2. QED
      BY <2>1, <3>1 DEF Appends
  <2>2. CASE i - Len(log) \in 1..Len(r) /\ log'[i] = r[i - Len(log)]
    BY <2>2 DEF Appends, FreshRows
  <2>3. QED
    BY <1>3, <2>1, <2>2
<1>6. OneRowPerStream'
  <2> SUFFICES ASSUME NEW i \in 1..Len(log'), NEW j \in 1..Len(log'),
                      i < j, log'[i].stream # None, log'[i].stream = log'[j].stream
               PROVE  /\ stage'[log'[i].stream] = "late"
                      /\ log'[i].kind = "interrupted" /\ log'[j].kind = "output"
    BY DEF OneRowPerStream, SameBlock
  <2>1. CASE i \in 1..Len(log) /\ j \in 1..Len(log)
    <3>1. log'[i] = log[i] /\ log'[j] = log[j] /\ log[i].stream \in Streams
      BY <1>1, <1>4, <2>1
    <3>2. /\ stage[log[i].stream] = "late"
          /\ log[i].kind = "interrupted" /\ log[j].kind = "output"
      BY <2>1, <3>1 DEF IInv, OneRowPerStream, SameBlock
    <3>3. QED
      BY <3>1, <3>2 DEF Appends
  <2>2. CASE i > Len(log) /\ j > Len(log)
    <3>1. /\ i - Len(log) \in 1..Len(r) /\ log'[i] = r[i - Len(log)]
          /\ j - Len(log) \in 1..Len(r) /\ log'[j] = r[j - Len(log)]
      BY <1>3, <2>2
    <3>2. i - Len(log) = j - Len(log)
      BY <3>1 DEF Appends, FreshRows
    <3>3. QED
      BY <1>1, <3>2
  <2>3. CASE i \in 1..Len(log) /\ j > Len(log)
    <3>1. log'[i] = log[i] /\ j - Len(log) \in 1..Len(r) /\ log'[j] = r[j - Len(log)]
      BY <1>1, <1>3, <2>3
    <3>2. /\ stage[log[i].stream] \in {"cut", "final", "late"}
          /\ stage[log[i].stream] = "cut" => log[i].kind = "interrupted"
      BY <2>3, <3>1 DEF IInv, RowsInv
    <3>3. /\ stage[log[i].stream] = "cut" /\ stage'[log[i].stream] = "late"
          /\ r[j - Len(log)].kind = "output"
      BY <3>1, <3>2 DEF Appends, FreshRows
    <3>4. QED
      BY <3>1, <3>2, <3>3
  <2>4. QED
    BY <1>1, <1>3, <2>1, <2>2, <2>3
<1>7. QED
  BY <1>2, <1>5, <1>6

\* A block gets one row, from every state of the invariant.
LEMMA RowsStep ==
    ASSUME IInv, [Next]_vars
    PROVE  LogInv' /\ RowsInv' /\ OneRowPerStream'
<1>1. Recorded
  BY TranscriptStep DEF IInv
<1>2. CASE log' = <<>>
  BY <1>2 DEF LogInv, RowsInv, OneRowPerStream, SameBlock
<1>3. CASE \E r : Appends(r)
  BY <1>3, AppendStep
<1>4. QED
  BY <1>1, <1>2, <1>3 DEF Recorded

-----------------------------------------------------------------------------
(* Drafts that are lost *)

\* The action of NoSilentLoss.
Kept ==
    \A d \in Streams :
         stage[d] = "draft" /\ d \in substantive /\ stage'[d] # "draft" =>
             \/ \E i \in 1..Len(log') : log'[i].stream = d
             \/ Crash

\* An interrupted draft with content has its row.
LEMMA InterruptedKeeps ==
    ASSUME TypeOK, LogInv, NEW ds, Interrupts(ds)
    PROVE  Kept
<1> DEFINE full == ds \cap substantive
           kept == SetToSeq({Of("interrupted", d) : d \in full})
<1>1. full \in SUBSET Streams
  BY DEF Interrupts, InStage
<1>2. kept \in Seq(Rows) /\ \A d \in full : \E i \in 1..Len(kept) : kept[i].stream = d
  BY <1>1, KeptRows
<1>3. log' = log \o kept /\ \A d \in Streams \ ds : stage[d] = "draft" => stage'[d] = "draft"
  BY DEF Interrupts, InterruptDrafts
<1> SUFFICES ASSUME NEW d \in Streams, stage[d] = "draft", d \in substantive, stage'[d] # "draft"
             PROVE  \E i \in 1..Len(log') : log'[i].stream = d
  BY DEF Kept
<1>4. d \in full
  BY <1>3
<1> HIDE DEF kept, full
<1>5. PICK i \in 1..Len(kept) : kept[i].stream = d
  BY <1>2, <1>4
<1>6. Len(log) + i \in 1..Len(log') /\ log'[Len(log) + i] = kept[i]
  BY <1>2, <1>3 DEF LogInv
<1>7. QED
  BY <1>5, <1>6

\* No step loses a draft with content.
LEMMA LossStep ==
    ASSUME TypeOK, LogInv, [Next]_vars
    PROVE  Kept
<1>1. ASSUME AcceptInput PROVE Kept
  BY <1>1 DEF AcceptInput, Kept, TypeOK
<1>2. ASSUME Ship PROVE Kept
  BY <1>2 DEF Ship, Kept, TypeOK
<1>3. ASSUME RecordEvent PROVE Kept
  BY <1>3 DEF RecordEvent, Kept, TypeOK
<1>4. ASSUME RecordRequest PROVE Kept
  BY <1>4 DEF RecordRequest, Kept, TypeOK
<1>5. ASSUME RecordResponse PROVE Kept
  BY <1>5 DEF RecordResponse, Kept, TypeOK
<1>6. ASSUME GoIdle PROVE Kept
  BY <1>6 DEF GoIdle, Kept, TypeOK
<1>7. ASSUME OpenRegistry PROVE Kept
  BY <1>7 DEF OpenRegistry, Kept, TypeOK
<1>8. ASSUME Interruption PROVE Kept
  BY <1>8, SomeAreInterrupted, InterruptedKeeps
<1>9. ASSUME PopRegistry PROVE Kept
  BY <1>9 DEF PopRegistry, MoveTo, InStage, Kept, TypeOK
<1>10. ASSUME NEW d \in Streams, StartDraft(d) PROVE Kept
  BY <1>10 DEF StartDraft, MoveTo, Kept, TypeOK
<1>11. ASSUME NEW d \in Streams, UpdateDraft(d) PROVE Kept
  BY <1>11 DEF UpdateDraft, Kept, TypeOK
<1>12. ASSUME NEW d \in Streams, FinishDraft(d) PROVE Kept
  <2>1. \A x \in Streams : x # d => stage'[x] = stage[x]
    BY <1>12 DEF FinishDraft, MoveTo, TypeOK
  <2>2. log' = Append(log, Of("output", d)) /\ Of("output", d) \in Rows
    BY <1>12 DEF FinishDraft, Of, Rows, Kinds
  <2>3. Len(log') = Len(log) + 1 /\ log'[Len(log) + 1].stream = d
    BY <2>2 DEF LogInv, Of
  <2>4. QED
    BY <2>1, <2>3 DEF Kept, LogInv
<1>13. ASSUME ReportFailure PROVE Kept
  BY <1>13 DEF ReportFailure, Kept, TypeOK
<1>14. ASSUME NEW c \in Clients, Connect(c) PROVE Kept
  BY <1>14 DEF Connect, Welcome, session, Kept, TypeOK
<1>15. ASSUME NEW c \in Clients, Send(c) PROVE Kept
  BY <1>15 DEF Send, session, Kept, TypeOK
<1>16. ASSUME NEW c \in Clients, Disconnect(c) PROVE Kept
  BY <1>16 DEF Disconnect, session, Kept, TypeOK
<1>17. ASSUME NEW c \in Clients, LocalError(c) PROVE Kept
  BY <1>17 DEF LocalError, session, Kept, TypeOK
<1>18. ASSUME DeleteSession PROVE Kept
  BY <1>18 DEF DeleteSession, Kept, TypeOK
<1>19. ASSUME Crash PROVE Kept
  BY <1>19 DEF Kept
<1>20. ASSUME UNCHANGED vars PROVE Kept
  BY <1>20 DEF vars, session, Kept, TypeOK
<1>21. QED
  BY <1>1, <1>2, <1>3, <1>4, <1>5, <1>6, <1>7, <1>8, <1>9, <1>10, <1>11, <1>12, <1>13, <1>14,
       <1>15, <1>16, <1>17, <1>18, <1>19, <1>20
  DEF Next, Drafting, Interruption, DeltaFails, AgentFails

-----------------------------------------------------------------------------
(* Types *)

SessionOK ==
    /\ exists \in BOOLEAN /\ status \in Statuses
    /\ turn \in Turns /\ stage \in [Streams -> Stages]
    /\ revision \in [Streams -> 0..MaxRevision] /\ substantive \subseteq Streams

PeersOK ==
    /\ conn \in [Clients -> {"away", "live"}]
    /\ backlog \in [Clients -> 0..Capacity]

\* A commit whose frames do not fit retires the subscriber: no queue overflows.
LEMMA Published ==
    ASSUME PeersOK, NEW frames, Len(frames) \in Nat, Publish(frames)
    PROVE  PeersOK'
<1>1. Capacity \in Nat
  BY StreamAssumption DEF Capacity
<1>2. QED
  BY <1>1 DEF PeersOK, Publish, Fits

\* The frame of one row is one frame.
LEMMA OneRowFrames == \A k : NewRows(Plain(k)) = <<NewRows(Plain(k))[1]>>
  BY DEF NewRows, Plain

\* The replay with its last frames fits an empty queue.
LEMMA Greeting ==
    ASSUME LogInv
    PROVE  Len(Replay \o <<Snapshot(Drafts), InputQueue(inbox), Status(status)>>)
               \in 0..Capacity
<1> DEFINE first == IF Len(log) > ReplayLimit THEN Len(log) - ReplayLimit + 1 ELSE 1
           n == Len(log) - first + 1
           F == {Row(i, log[i]) : i \in 1..Len(log)}
                  \cup {Snapshot(Drafts), InputQueue(inbox), Status(status)}
<1>1. Len(log) \in Nat /\ first \in Nat \ {0} /\ n \in Nat /\ n <= ReplayLimit
  BY StreamAssumption DEF LogInv
<1>2. Replay = [i \in 1..n |-> Row(first + i - 1, log[first + i - 1])]
  BY DEF Replay
<1>3. \A i \in 1..n : first + i - 1 \in 1..Len(log)
  BY <1>1
<1>4. \A i \in 1..n : Row(first + i - 1, log[first + i - 1]) \in F
  BY <1>3
<1> HIDE DEF F, n, first
<1>5. Replay \in Seq(F) /\ Len(Replay) = n
  BY <1>1, <1>2, <1>4
<1>6. <<Snapshot(Drafts), InputQueue(inbox), Status(status)>> \in Seq(F)
  BY DEF F
<1>7. Len(Replay \o <<Snapshot(Drafts), InputQueue(inbox), Status(status)>>) = n + 3
  BY <1>1, <1>5, <1>6
<1>8. QED
  BY <1>1, <1>7, StreamAssumption DEF Capacity

\* The frames of an interruption are a sequence.
LEMMA InterruptedTypes ==
    ASSUME TypeOK, LogInv, SessionOK, PeersOK, NEW ds, Interrupts(ds)
    PROVE  PeersOK' /\ UNCHANGED <<exists, status, revision, substantive>>
<1> DEFINE full == ds \cap substantive
           empty == ds \ substantive
           kept == SetToSeq({Of("interrupted", d) : d \in full})
           G == {Removed(d) : d \in empty}
           gone == SetToSeq(G)
           F == {NewRows(kept)[i] : i \in 1..Len(kept)} \cup G
<1>1. kept \in Seq(Rows) /\ Len(kept) \in Nat
  <2>1. full \in SUBSET Streams
    BY DEF Interrupts, InStage
  <2>2. kept \in Seq(Rows)
    BY <2>1, KeptRows
  <2> HIDE DEF kept
  <2>3. QED
    BY <2>2
<1>2. IsFiniteSet(G)
  <2>1. empty \in SUBSET Streams
    BY DEF Interrupts, InStage
  <2>2. IsFiniteSet(empty)
    BY <2>1, StreamAssumption, FS_Subset
  <2>3. [d \in empty |-> Removed(d)] \in Surjection(empty, G)
    BY DEF Surjection
  <2>4. QED
    BY <2>2, <2>3, FS_Surjection
<1>3. gone \in Seq(G)
  BY <1>2, SetToSeqLists
<1>4. Publish(NewRows(kept) \o gone) /\ UNCHANGED <<exists, status, revision, substantive>>
  BY DEF Interrupts, InterruptDrafts
<1> HIDE DEF kept, gone, G
<1>5. NewRows(kept) \in Seq(F)
  BY <1>1 DEF NewRows
<1>6. gone \in Seq(F)
  BY <1>3
<1> HIDE DEF F
<1>7. Len(NewRows(kept) \o gone) \in Nat
  BY <1>5, <1>6
<1>8. QED
  BY <1>4, <1>7, Published

\* TypeOK in two halves.
LEMMA Halves == LogInv => (TypeOK <=> SessionOK /\ PeersOK)
<1>1. LogInv => \A i \in 1..Len(log) : log[i] \in Rows
  BY DEF LogInv
<1>2. QED
  BY <1>1, RowTypes DEF TypeOK, SessionOK, PeersOK

\* Every step keeps the types.
LEMMA TypeStep ==
    ASSUME TypeOK, LogInv, SessionOK, PeersOK, [Next]_vars
    PROVE  SessionOK' /\ PeersOK'
<1> USE StreamAssumption DEF SessionOK
<1>1. ASSUME AcceptInput PROVE SessionOK' /\ PeersOK'
  <2>1. Len(NewRows(Plain("input"))) \in Nat
    BY DEF NewRows, Plain
  <2>2. PeersOK'
    BY <1>1, <2>1, Published DEF AcceptInput
  <2>3. QED
    BY <1>1, <2>2 DEF AcceptInput, Statuses, Room
<1>2. ASSUME Ship PROVE SessionOK' /\ PeersOK'
  <2>1. Len(Append(NewRows(Plain("shipped")), Status("running"))) \in Nat
    <3>1. NewRows(Plain("shipped")) = <<NewRows(Plain("shipped"))[1]>>
      BY OneRowFrames
    <3>2. QED
      BY <3>1
  <2>2. PeersOK'
    BY <1>2, <2>1, Published DEF Ship
  <2>3. QED
    BY <1>2, <2>2 DEF Ship, Statuses, Room
<1>3. ASSUME RecordEvent PROVE SessionOK' /\ PeersOK'
  <2>1. Len(NewRows(Plain("event"))) \in Nat
    BY DEF NewRows, Plain
  <2>2. PeersOK'
    BY <1>3, <2>1, Published DEF RecordEvent
  <2>3. QED
    BY <1>3, <2>2 DEF RecordEvent, Statuses, Room
<1>4. ASSUME RecordRequest PROVE SessionOK' /\ PeersOK'
  <2>1. Len(<<Status("awaiting_approval")>> \o NewRows(Plain("event"))) \in Nat
    <3>1. NewRows(Plain("event")) = <<NewRows(Plain("event"))[1]>>
      BY OneRowFrames
    <3>2. QED
      BY <3>1
  <2>2. PeersOK'
    BY <1>4, <2>1, Published DEF RecordRequest
  <2>3. QED
    BY <1>4, <2>2 DEF RecordRequest, Statuses, Room
<1>5. ASSUME RecordResponse PROVE SessionOK' /\ PeersOK'
  <2>1. Len(Append(NewRows(Plain("event")), Status("running"))) \in Nat
    <3>1. NewRows(Plain("event")) = <<NewRows(Plain("event"))[1]>>
      BY OneRowFrames
    <3>2. QED
      BY <3>1
  <2>2. PeersOK'
    BY <1>5, <2>1, Published DEF RecordResponse
  <2>3. QED
    BY <1>5, <2>2 DEF RecordResponse, Statuses, Room
<1>6. ASSUME GoIdle PROVE SessionOK' /\ PeersOK'
  <2>1. Len(<<Status("idle")>>) \in Nat
    OBVIOUS
  <2>2. PeersOK'
    BY <1>6, <2>1, Published DEF GoIdle
  <2>3. QED
    BY <1>6, <2>2 DEF GoIdle, Statuses, Room
<1>7. ASSUME OpenRegistry PROVE SessionOK' /\ PeersOK'
  BY <1>7 DEF OpenRegistry, Turns, peers, PeersOK
<1>8. ASSUME Interruption PROVE SessionOK' /\ PeersOK'
  <2>1. PICK ds : Interrupts(ds)
    BY <1>8, SomeAreInterrupted
  <2>2. PeersOK' /\ UNCHANGED <<exists, status, revision, substantive>>
    BY <2>1, InterruptedTypes
  <2>3. turn' \in Turns
    BY <1>8 DEF Interruption, CutDrafts, FailTurn, CloseDrafts, InterruptBlock, Turns
  <2>4. QED
    BY <2>1, <2>2, <2>3 DEF Interrupts
<1>9. ASSUME PopRegistry PROVE SessionOK' /\ PeersOK'
  BY <1>9 DEF PopRegistry, MoveTo, Turns, Stages, peers, PeersOK
<1>10. ASSUME NEW d \in Streams, StartDraft(d) PROVE SessionOK' /\ PeersOK'
  <2>1. Len(<<Start(d)>>) \in Nat
    OBVIOUS
  <2>2. PeersOK'
    BY <1>10, <2>1, Published DEF StartDraft
  <2>3. QED
    BY <1>10, <2>2 DEF StartDraft, MoveTo, Stages
<1>11. ASSUME NEW d \in Streams, UpdateDraft(d) PROVE SessionOK' /\ PeersOK'
  <2>1. Len(<<Delta(d, revision[d] + 1)>>) \in Nat
    OBVIOUS
  <2>2. PeersOK'
    BY <1>11, <2>1, Published DEF UpdateDraft
  <2>3. QED
    BY <1>11, <2>2 DEF UpdateDraft, Statuses, Room
<1>12. ASSUME NEW d \in Streams, FinishDraft(d) PROVE SessionOK' /\ PeersOK'
  <2>1. Len(NewRows(<<Of("output", d)>>)) \in Nat
    BY DEF NewRows, Plain
  <2>2. PeersOK'
    BY <1>12, <2>1, Published DEF FinishDraft
  <2>3. QED
    BY <1>12, <2>2 DEF FinishDraft, MoveTo, Stages
<1>13. ASSUME ReportFailure PROVE SessionOK' /\ PeersOK'
  <2>1. Len(NewRows(Plain("event"))) \in Nat
    BY DEF NewRows, Plain
  <2>2. PeersOK'
    BY <1>13, <2>1, Published DEF ReportFailure
  <2>3. QED
    BY <1>13, <2>2 DEF ReportFailure, Turns
<1>14. ASSUME NEW c \in Clients, Connect(c) PROVE SessionOK' /\ PeersOK'
  <2>1. Len(Replay \o <<Snapshot(Drafts), InputQueue(inbox), Status(status)>>) \in 0..Capacity
    BY Greeting
  <2>2. PeersOK'
    BY <1>14, <2>1 DEF Connect, Welcome, PeersOK
  <2>3. QED
    BY <1>14, <2>2 DEF Connect, Welcome, session
<1>15. ASSUME NEW c \in Clients, Send(c) PROVE SessionOK' /\ PeersOK'
  <2>1. Capacity \in Nat
    BY StreamAssumption DEF Capacity
  <2>2. PeersOK'
    BY <1>15, <2>1 DEF Send, PeersOK
  <2>3. QED
    BY <1>15, <2>2 DEF Send, session, Statuses
<1>16. ASSUME NEW c \in Clients, Disconnect(c) PROVE SessionOK' /\ PeersOK'
  <2>1. Capacity \in Nat
    BY StreamAssumption DEF Capacity
  <2>2. PeersOK'
    BY <1>16, <2>1 DEF Disconnect, Retire, PeersOK
  <2>3. QED
    BY <1>16, <2>2 DEF Disconnect, Retire, session, Statuses
<1>17. ASSUME NEW c \in Clients, LocalError(c) PROVE SessionOK' /\ PeersOK'
  <2>1. Capacity \in Nat /\ Len(<<Error>>) = 1
    BY StreamAssumption DEF Capacity
  <2>2. PeersOK'
    BY <1>17, <2>1 DEF LocalError, Fits, Retire, PeersOK
  <2>3. QED
    BY <1>17, <2>2 DEF LocalError, session
<1>18. ASSUME DeleteSession PROVE SessionOK' /\ PeersOK'
  <2>1. Capacity \in Nat
    BY StreamAssumption DEF Capacity
  <2>2. PeersOK'
    BY <1>18, <2>1 DEF DeleteSession, PeersOK
  <2>3. QED
    BY <1>18, <2>2 DEF DeleteSession, Statuses
<1>19. ASSUME Crash PROVE SessionOK' /\ PeersOK'
  <2>1. Capacity \in Nat
    BY StreamAssumption DEF Capacity
  <2>2. PeersOK'
    BY <1>19, <2>1 DEF Crash, PeersOK
  <2>3. QED
    BY <1>19, <2>2 DEF Crash, MoveTo, Turns, Stages, Statuses
<1>20. ASSUME UNCHANGED vars PROVE SessionOK' /\ PeersOK'
  BY <1>20 DEF vars, session, peers, PeersOK
<1>21. QED
  BY <1>1, <1>2, <1>3, <1>4, <1>5, <1>6, <1>7, <1>8, <1>9, <1>10, <1>11, <1>12, <1>13, <1>14,
       <1>15, <1>16, <1>17, <1>18, <1>19, <1>20
  DEF Next, Drafting, Interruption, DeltaFails, AgentFails

-----------------------------------------------------------------------------
(* What a client makes of each frame *)

\* A client that has got nothing.
LEMMA BlankView == Blank \in Views
  BY DEF Blank, Views, Statuses

\* A row is shown, takes the place of the draft of its block, and is put in the
\* message queue or empties it.
LEMMA RowFrame ==
    ASSUME NEW v \in Views, NEW id \in Nat, NEW row \in Rows
    PROVE  /\ Apply(v, Row(id, row)) \in Views
           /\ Apply(v, Row(id, row)).rows = Append(v.rows, id)
           /\ Apply(v, Row(id, row)).drafts = Without(v.drafts, row.stream)
           /\ Apply(v, Row(id, row)).status = v.status
           /\ row.kind = "input" => Apply(v, Row(id, row)).inbox = Append(v.inbox, id)
           /\ row.kind = "shipped" => Apply(v, Row(id, row)).inbox = <<>>
           /\ row.kind \notin {"input", "shipped"} => Apply(v, Row(id, row)).inbox = v.inbox
<1> DEFINE q == CASE row.kind = "input" -> Append(v.inbox, id)
                  [] row.kind = "shipped" -> <<>>
                  [] OTHER -> v.inbox
           w == [v EXCEPT !.rows = Append(v.rows, id),
                          !.drafts = Without(v.drafts, row.stream), !.inbox = q]
<1>1. Apply(v, Row(id, row)) = w
  BY DEF Apply, Row
<1>2. v.rows \in Seq(Nat) /\ v.drafts \in SUBSET (Streams \X Nat) /\ v.inbox \in Seq(Nat)
      /\ v.status \in Statuses
  BY DEF Views
<1>3. Append(v.rows, id) \in Seq(Nat) /\ q \in Seq(Nat)
      /\ Without(v.drafts, row.stream) \in SUBSET (Streams \X Nat)
  BY <1>2 DEF Without
<1>4. /\ row.kind = "input" => q = Append(v.inbox, id)
      /\ row.kind = "shipped" => q = <<>>
      /\ row.kind \notin {"input", "shipped"} => q = v.inbox
  OBVIOUS
<1> HIDE DEF q
<1>5. /\ w \in Views /\ w.rows = Append(v.rows, id) /\ w.inbox = q
      /\ w.drafts = Without(v.drafts, row.stream) /\ w.status = v.status
  BY <1>2, <1>3 DEF Views
<1>6. QED
  BY <1>1, <1>4, <1>5

\* The status is shown.
LEMMA StatusFrame ==
    ASSUME NEW v \in Views, NEW s \in Statuses
    PROVE  /\ Apply(v, Status(s)) \in Views /\ Apply(v, Status(s)).status = s
           /\ Apply(v, Status(s)).rows = v.rows /\ Apply(v, Status(s)).inbox = v.inbox
           /\ Apply(v, Status(s)).drafts = v.drafts
<1>1. Apply(v, Status(s)) = [v EXCEPT !.status = s]
  BY DEF Apply, Status
<1>2. QED
  BY <1>1 DEF Views

\* A draft begins empty.
LEMMA StartFrame ==
    ASSUME NEW v \in Views, NEW d \in Streams
    PROVE  /\ Apply(v, Start(d)) \in Views /\ Apply(v, Start(d)).status = v.status
           /\ Apply(v, Start(d)).rows = v.rows /\ Apply(v, Start(d)).inbox = v.inbox
           /\ Apply(v, Start(d)).drafts = v.drafts \cup {<<d, 0>>}
<1>1. Apply(v, Start(d)) = [v EXCEPT !.drafts = v.drafts \cup {<<d, 0>>}]
  BY DEF Apply, Start
<1>2. v.drafts \cup {<<d, 0>>} \in SUBSET (Streams \X Nat)
  BY DEF Views
<1>3. QED
  BY <1>1, <1>2 DEF Views

\* A delta is applied to the draft it continues.
LEMMA DeltaFrame ==
    ASSUME NEW v \in Views, NEW d \in Streams, NEW n \in Nat, <<d, n>> \in v.drafts
    PROVE  LET w == Apply(v, Delta(d, n + 1))
           IN  /\ w \in Views /\ w.status = v.status
               /\ w.rows = v.rows /\ w.inbox = v.inbox
               /\ w.drafts = Without(v.drafts, d) \cup {<<d, n + 1>>}
<1>1. Apply(v, Delta(d, n + 1))
        = [v EXCEPT !.drafts = Without(v.drafts, d) \cup {<<d, n + 1>>}]
  <2>1. n + 1 - 1 = n
    OBVIOUS
  <2>2. QED
    BY <2>1 DEF Apply, Delta
<1>2. Without(v.drafts, d) \cup {<<d, n + 1>>} \in SUBSET (Streams \X Nat)
  BY DEF Views, Without
<1>3. QED
  BY <1>1, <1>2 DEF Views

\* An empty draft is taken away.
LEMMA RemovedFrame ==
    ASSUME NEW v \in Views, NEW d \in Streams
    PROVE  /\ Apply(v, Removed(d)) \in Views /\ Apply(v, Removed(d)).status = v.status
           /\ Apply(v, Removed(d)).rows = v.rows /\ Apply(v, Removed(d)).inbox = v.inbox
           /\ Apply(v, Removed(d)).drafts = Without(v.drafts, d)
<1>1. Apply(v, Removed(d)) = [v EXCEPT !.drafts = Without(v.drafts, d)]
  BY DEF Apply, Removed
<1>2. Without(v.drafts, d) \in SUBSET (Streams \X Nat)
  BY DEF Views, Without
<1>3. QED
  BY <1>1, <1>2 DEF Views

\* A snapshot replaces the drafts.
LEMMA SnapshotFrame ==
    ASSUME NEW v \in Views, NEW ds \in SUBSET (Streams \X Nat)
    PROVE  /\ Apply(v, Snapshot(ds)) \in Views /\ Apply(v, Snapshot(ds)).status = v.status
           /\ Apply(v, Snapshot(ds)).rows = v.rows /\ Apply(v, Snapshot(ds)).inbox = v.inbox
           /\ Apply(v, Snapshot(ds)).drafts = ds
<1>1. Apply(v, Snapshot(ds)) = [v EXCEPT !.drafts = ds]
  BY DEF Apply, Snapshot
<1>2. QED
  BY <1>1 DEF Views

\* A message queue replaces the one shown.
LEMMA QueueFrame ==
    ASSUME NEW v \in Views, NEW q \in Seq(Nat)
    PROVE  /\ Apply(v, InputQueue(q)) \in Views /\ Apply(v, InputQueue(q)).status = v.status
           /\ Apply(v, InputQueue(q)).rows = v.rows /\ Apply(v, InputQueue(q)).inbox = q
           /\ Apply(v, InputQueue(q)).drafts = v.drafts
<1>1. Apply(v, InputQueue(q)) = [v EXCEPT !.inbox = q]
  BY DEF Apply, InputQueue
<1>2. QED
  BY <1>1 DEF Views

-----------------------------------------------------------------------------
(* Frame by frame *)

\* t[i] is what a client shows that showed b, after the first i frames.
Trace(t, b, frames) ==
    /\ t[0] = b
    /\ \A i \in 1..Len(frames) : t[i] = Apply(t[i - 1], frames[i])

\* What it shows after all of them.
After(b, frames) == FoldLeft(Apply, b, frames)

\* A frame that a client can take, whatever it shows, and a sequence of these.
Takes(f) == \A v \in Views : Apply(v, f) \in Views

Readable(frames) ==
    /\ Len(frames) \in Nat /\ DOMAIN frames = 1..Len(frames)
    /\ \A i \in 1..Len(frames) : Takes(frames[i])

\* There is such a trace, and it ends in what the client shows after the frames.
LEMMA FrameByFrame ==
    ASSUME NEW b \in Views, NEW frames, Readable(frames)
    PROVE  \E t : Trace(t, b, frames) /\ After(b, frames) = t[Len(frames)]
<1> DEFINE n == Len(frames)
           h == [p \in (1..n) \X Views |-> Apply(p[2], frames[p[1]])]
           IsFold(k) == k = [U \in SUBSET (1..n) |->
                    IF U = {} THEN b ELSE Apply(k[U \ {Max(U)}], frames[Max(U)])]
           k == CHOOSE k : IsFold(k)
           t == [i \in 0..n |-> k[1..i]]
<1>1. n \in Nat /\ DOMAIN frames = 1..n
  BY DEF Readable
<1>2. h \in [(1..n) \X Views -> Views]
  BY DEF Readable, Takes
<1>3. PICK g \in [SUBSET (1..n) -> Views] : FoldsUpTo(g, n, b, h)
  <2> HIDE DEF n, h
  <2> QED BY <1>1, <1>2, PrefixFolds
<1>4. IsFold(g)
  <2>1. ASSUME NEW U \in SUBSET (1..n), U # {}
        PROVE  g[U] = Apply(g[U \ {Max(U)}], frames[Max(U)])
    <3>1. Max(U) \in 1..n /\ U \ {Max(U)} \in SUBSET (1..n)
      BY <1>1, <2>1, MaxPicks
    <3>2. QED
      BY <1>3, <2>1, <3>1 DEF FoldsUpTo
  <2>2. g[{}] = b
    BY <1>3 DEF FoldsUpTo
  <2>3. QED
    BY <1>3, <2>1, <2>2
<1>5. IsFold(k)
  BY <1>4
<1>6. After(b, frames) = k[1..n]
  BY <1>1 DEF After, FoldLeft, MapThenFoldSet
<1> HIDE DEF k
<1>7. Trace(t, b, frames)
  <2>1. t[0] = b
    <3>1. {} \in SUBSET (1..n) /\ 1..0 = {} /\ 0 \in 0..n
      BY <1>1
    <3>2. QED
      BY <1>5, <3>1
  <2>2. ASSUME NEW i \in 1..n PROVE t[i] = Apply(t[i - 1], frames[i])
    <3>1. /\ 1..i \in SUBSET (1..n) /\ 1..i # {} /\ (1..i) \ {i} = 1..(i - 1)
          /\ i \in 0..n /\ i - 1 \in 0..n
      BY <1>1
    <3>2. Max(1..i) = i
      BY MaxPicks, <1>1
    <3>3. QED
      BY <1>5, <3>1, <3>2
  <2>3. QED
    BY <2>1, <2>2 DEF Trace
<1>8. t[n] = k[1..n]
  BY <1>1
<1>9. QED
  BY <1>6, <1>7, <1>8

\* One frame.
LEMMA OneFrame ==
    ASSUME NEW b \in Views, NEW f, Takes(f)
    PROVE  After(b, <<f>>) = Apply(b, f)
<1>1. Readable(<<f>>)
  BY DEF Readable
<1>2. PICK t : Trace(t, b, <<f>>) /\ After(b, <<f>>) = t[Len(<<f>>)]
  BY <1>1, FrameByFrame
<1>3. Len(<<f>>) = 1 /\ <<f>>[1] = f /\ 1 \in 1..1 /\ 1 - 1 = 0
  OBVIOUS
<1>4. QED
  BY <1>2, <1>3 DEF Trace

\* p is <<f, g>>.
IsPair(p, f, g) == DOMAIN p = 1..2 /\ Len(p) = 2 /\ p[1] = f /\ p[2] = g

\* Two frames, one put before or after the other.
LEMMA Pairs ==
    ASSUME NEW f, NEW g
    PROVE  IsPair(Append(<<f>>, g), f, g) /\ IsPair(<<f>> \o <<g>>, f, g)
<1> DEFINE E == {f, g}
<1>1. <<f>> \in Seq(E) /\ <<g>> \in Seq(E) /\ g \in E
  OBVIOUS
<1> HIDE DEF E
<1>2. \A s, u \in Seq(E) : s = <<f>> /\ u = <<g>> =>
           IsPair(Append(s, g), f, g) /\ IsPair(s \o u, f, g)
  <2> TAKE s, u \in Seq(E)
  <2> HAVE s = <<f>> /\ u = <<g>>
  <2>1. Len(s) = 1 /\ s[1] = f /\ Len(u) = 1 /\ u[1] = g
    OBVIOUS
  <2>2. /\ Append(s, g) \in Seq(E) /\ Len(Append(s, g)) = 2
        /\ Append(s, g)[1] = f /\ Append(s, g)[2] = g
    BY <2>1, <1>1
  <2>3. s \o u \in Seq(E) /\ Len(s \o u) = 2 /\ (s \o u)[1] = f /\ (s \o u)[2] = g
    BY <2>1, <1>1
  <2>4. QED
    BY <2>2, <2>3 DEF IsPair
<1>3. QED
  BY <1>1, <1>2

\* Two frames.
LEMMA TwoFrames ==
    ASSUME NEW b \in Views, NEW f, Takes(f), NEW g, Takes(g), NEW p, IsPair(p, f, g)
    PROVE  After(b, p) = Apply(Apply(b, f), g)
<1>1. Readable(p)
  BY DEF Readable, IsPair
<1>2. PICK t : Trace(t, b, p) /\ After(b, p) = t[Len(p)]
  BY <1>1, FrameByFrame
<1>3. 1 \in 1..2 /\ 2 \in 1..2 /\ 1 - 1 = 0 /\ 2 - 1 = 1
  OBVIOUS
<1>4. t[0] = b /\ t[1] = Apply(t[0], f) /\ t[2] = Apply(t[1], g)
  BY <1>2, <1>3 DEF Trace, IsPair
<1>5. QED
  BY <1>2, <1>3, <1>4 DEF IsPair

-----------------------------------------------------------------------------
(* A client that shows the session *)

\* The frames bring a client that shows the session before the step to what it
\* is after the step.
Faithful(frames) ==
    \A v \in Views : Shows(v, Len(log), inbox, status, Drafts) =>
        Shows(After(v, frames), Len(log'), inbox', status', Drafts')

\* Such frames keep every live client exact.
LEMMA PublishStep ==
    ASSUME ViewInv, NEW frames, Publish(frames), Faithful(frames)
    PROVE  ViewInv'
<1>1. SUFFICES ASSUME NEW c \in Clients, conn'[c] = "live"
               PROVE  Shows(view'[c], Len(log'), inbox', status', Drafts')
  BY DEF ViewInv, Publish
<1>2. Fits(c, frames) /\ view'[c] = After(view[c], frames)
  BY <1>1 DEF Publish, After
<1>3. Shows(view[c], Len(log), inbox, status, Drafts)
  BY <1>2 DEF Fits, ViewInv
<1>4. QED
  BY <1>2, <1>3 DEF Faithful, Shows

\* The next row of the transcript is the next one shown.
LEMMA NextRow ==
    ASSUME NEW n \in Nat, NEW r \in Seq(Nat), LastRows(r, n)
    PROVE  LastRows(Append(r, n + 1), n + 1)
<1> DEFINE a == Append(r, n + 1)
<1>1. a \in Seq(Nat) /\ Len(a) = Len(r) + 1 /\ Len(r) \in Nat
  OBVIOUS
<1>2. \A i \in 1..Len(r) : a[i] = r[i] /\ r[i] = n - Len(r) + i
  <2>1. r = [i \in 1..Len(r) |-> n - Len(r) + i]
    BY DEF LastRows
  <2>2. \A i \in 1..Len(r) : r[i] = n - Len(r) + i
    <3> DEFINE m == Len(r)
               f == [i \in 1..m |-> n - m + i]
    <3>1. r = f
      BY <2>1
    <3>2. \A i \in 1..m : f[i] = n - m + i
      OBVIOUS
    <3>3. QED
      BY <3>1, <3>2
  <2>3. QED
    BY <2>2
<1>3. a[Len(r) + 1] = n + 1
  OBVIOUS
<1> HIDE DEF a
<1>4. \A i \in 1..Len(a) : a[i] = (n + 1) - Len(a) + i
  <2> TAKE i \in 1..Len(a)
  <2>1. CASE i \in 1..Len(r)
    BY <1>1, <1>2, <2>1
  <2>2. CASE i = Len(r) + 1
    BY <1>1, <1>3, <2>2
  <2>3. QED
    BY <1>1, <2>1, <2>2
<1>5. a = [i \in 1..Len(a) |-> (n + 1) - Len(a) + i]
  BY <1>1, <1>4
<1>6. Len(a) <= n + 1 /\ (Len(a) = n + 1 \/ Len(a) >= ReplayLimit)
  <2>1. Len(r) <= n /\ (Len(r) = n \/ Len(r) >= ReplayLimit)
    BY DEF LastRows
  <2>2. QED
    BY <1>1, <2>1, StreamAssumption
<1> SUFFICES LastRows(a, n + 1)
  BY DEF a
<1>7. QED
  BY <1>5, <1>6 DEF LastRows

\* A row that belongs to no block leaves the drafts.
LEMMA NoBlock ==
    ASSUME NEW ds \in SUBSET (Streams \X Nat)
    PROVE  Without(ds, None) = ds
  BY StreamAssumption DEF Without

\* A plain row, as the one frame it is.
LEMMA PlainRow ==
    ASSUME NEW k \in Kinds
    PROVE  /\ NewRows(Plain(k)) = <<Row(Len(log) + 1, Of(k, None))>>
           /\ Of(k, None) \in Rows /\ Of(k, None).kind = k /\ Of(k, None).stream = None
<1>1. Len(Plain(k)) = 1 /\ Plain(k)[1] = Of(k, None)
  BY DEF Plain, Of
<1>2. NewRows(Plain(k)) = [i \in 1..1 |-> Row(Len(log) + i, Of(k, None))]
  <2>1. \A i \in 1..1 : i = 1
    OBVIOUS
  <2>2. QED
    BY <1>1, <2>1 DEF NewRows
<1>3. NewRows(Plain(k)) = <<Row(Len(log) + 1, Of(k, None))>>
  BY <1>2
<1>4. QED
  BY <1>3 DEF Of, Rows

\* What the next row does to a client that shows the session.
LEMMA RowShows ==
    ASSUME NEW v, NEW n \in Nat, NEW q, NEW s, NEW ds, Shows(v, n, q, s, ds), NEW row \in Rows
    PROVE  LET w == Apply(v, Row(n + 1, row))
               left == Without(ds, row.stream)
           IN  /\ row.kind = "input" => Shows(w, n + 1, Append(q, n + 1), s, left)
               /\ row.kind = "shipped" => Shows(w, n + 1, <<>>, s, left)
               /\ row.kind \notin {"input", "shipped"} => Shows(w, n + 1, q, s, left)
<1> DEFINE w == Apply(v, Row(n + 1, row))
           left == Without(ds, row.stream)
<1>1. v \in Views /\ v.rows \in Seq(Nat) /\ n + 1 \in Nat
  BY DEF Shows, Views
<1>2. /\ w \in Views /\ w.rows = Append(v.rows, n + 1)
      /\ w.drafts = Without(v.drafts, row.stream) /\ w.status = v.status
  BY <1>1, RowFrame
<1>3. /\ row.kind = "input" => w.inbox = Append(v.inbox, n + 1)
      /\ row.kind = "shipped" => w.inbox = <<>>
      /\ row.kind \notin {"input", "shipped"} => w.inbox = v.inbox
  BY <1>1, RowFrame
<1>4. LastRows(w.rows, n + 1)
  BY <1>1, <1>2, NextRow DEF Shows
<1>5. w.drafts = left /\ w.status = s
  BY <1>2 DEF Shows
<1> HIDE DEF w, left
<1>6. /\ row.kind = "input" => Shows(w, n + 1, Append(q, n + 1), s, left)
      /\ row.kind = "shipped" => Shows(w, n + 1, <<>>, s, left)
      /\ row.kind \notin {"input", "shipped"} => Shows(w, n + 1, q, s, left)
  BY <1>2, <1>3, <1>4, <1>5 DEF Shows
<1>7. QED
  BY <1>6 DEF w, left

\* A status does not change what else is shown.
LEMMA StatusShows ==
    ASSUME NEW v, NEW n, NEW q, NEW s, NEW ds, Shows(v, n, q, s, ds), NEW t \in Statuses
    PROVE  Shows(Apply(v, Status(t)), n, q, t, ds)
  BY StatusFrame DEF Shows

-----------------------------------------------------------------------------
(* The frames of each commit are faithful *)

\* What a commit that leaves the drafts alone keeps.
LEMMA SameDrafts ==
    /\ TypeOK => Drafts \in SUBSET (Streams \X Nat) /\ Without(Drafts, None) = Drafts
    /\ UNCHANGED <<stage, revision>> => Drafts' = Drafts
<1>1. TypeOK => Drafts \in SUBSET (Streams \X Nat)
  BY StreamAssumption DEF TypeOK, Drafts, InStage
<1>2. UNCHANGED <<stage, revision>> => Drafts' = Drafts
  BY DEF Drafts, InStage
<1>3. QED
  BY <1>1, <1>2, NoBlock

\* A client can take any row, any status, any start of a draft or its removal.
LEMMA ReadableFrames ==
    /\ \A id \in Nat, row \in Rows : Takes(Row(id, row))
    /\ \A s \in Statuses : Takes(Status(s))
    /\ \A d \in Streams : Takes(Start(d)) /\ Takes(Removed(d))
  BY RowFrame, StatusFrame, StartFrame, RemovedFrame DEF Takes

\* An input, or an event.
LEMMA RowCommit ==
    ASSUME TypeOK, LogInv, NEW k \in {"input", "event"}, log' = log \o Plain(k),
           UNCHANGED <<status, stage, revision>>,
           inbox' = IF k = "input" THEN Append(inbox, Len(log) + 1) ELSE inbox
    PROVE  Faithful(NewRows(Plain(k)))
<1> DEFINE row == Of(k, None)
           f == Row(Len(log) + 1, row)
<1>1. /\ NewRows(Plain(k)) = <<f>> /\ row \in Rows /\ row.kind = k /\ row.stream = None
      /\ Len(log) \in Nat /\ Len(log') = Len(log) + 1
  <2>1. k \in Kinds
    BY DEF Kinds
  <2>2. QED
    BY <2>1, PlainRow DEF LogInv, Plain
<1> HIDE DEF row
<1>2. Takes(f)
  BY <1>1, ReadableFrames
<1>3. SUFFICES ASSUME NEW v \in Views, Shows(v, Len(log), inbox, status, Drafts)
               PROVE  Shows(After(v, <<f>>), Len(log) + 1, inbox', status, Drafts)
  BY <1>1, SameDrafts DEF Faithful
<1>4. After(v, <<f>>) = Apply(v, f)
  BY <1>2, OneFrame
<1>5. Shows(Apply(v, f), Len(log) + 1, inbox', status, Without(Drafts, row.stream))
  BY <1>1, <1>3, RowShows
<1>6. QED
  BY <1>1, <1>4, <1>5, SameDrafts

\* A row and then the status: the shipping of the queue, the answer to a request.
LEMMA RowStatusCommit ==
    ASSUME TypeOK, LogInv, NEW k \in {"shipped", "event"}, log' = log \o Plain(k),
           NEW s \in Statuses, status' = s, UNCHANGED <<stage, revision>>,
           inbox' = IF k = "shipped" THEN <<>> ELSE inbox
    PROVE  Faithful(Append(NewRows(Plain(k)), Status(s)))
<1> DEFINE row == Of(k, None)
           f == Row(Len(log) + 1, row)
<1>1. /\ NewRows(Plain(k)) = <<f>> /\ row \in Rows /\ row.kind = k /\ row.stream = None
      /\ Len(log) \in Nat /\ Len(log') = Len(log) + 1
  <2>1. k \in Kinds
    BY DEF Kinds
  <2>2. QED
    BY <2>1, PlainRow DEF LogInv, Plain
<1> HIDE DEF row
<1>2. Takes(f) /\ Takes(Status(s))
  BY <1>1, ReadableFrames
<1> DEFINE p == Append(NewRows(Plain(k)), Status(s))
<1>3. IsPair(p, f, Status(s))
  BY <1>1, Pairs
<1>4. SUFFICES ASSUME NEW v \in Views, Shows(v, Len(log), inbox, status, Drafts)
               PROVE  Shows(After(v, p), Len(log) + 1, inbox', s, Drafts)
  BY <1>1, SameDrafts DEF Faithful
<1> HIDE DEF p
<1>5. After(v, p) = Apply(Apply(v, f), Status(s))
  BY <1>2, <1>3, TwoFrames
<1>6. Shows(Apply(v, f), Len(log) + 1, inbox', status, Without(Drafts, row.stream))
  BY <1>1, <1>4, RowShows
<1>7. QED
  BY <1>1, <1>5, <1>6, SameDrafts, StatusShows

\* The status and then a row: a request that waits for the user.
LEMMA StatusRowCommit ==
    ASSUME TypeOK, LogInv, log' = log \o Plain("event"),
           NEW s \in Statuses, status' = s, UNCHANGED <<stage, revision, inbox>>
    PROVE  Faithful(<<Status(s)>> \o NewRows(Plain("event")))
<1> DEFINE row == Of("event", None)
           f == Row(Len(log) + 1, row)
<1>1. /\ NewRows(Plain("event")) = <<f>> /\ row \in Rows
      /\ row.kind = "event" /\ row.stream = None
      /\ Len(log) \in Nat /\ Len(log') = Len(log) + 1
  <2>1. "event" \in Kinds
    BY DEF Kinds
  <2>2. QED
    BY <2>1, PlainRow DEF LogInv, Plain
<1> HIDE DEF row
<1>2. Takes(f) /\ Takes(Status(s))
  BY <1>1, ReadableFrames
<1> DEFINE p == <<Status(s)>> \o NewRows(Plain("event"))
<1>3. IsPair(p, Status(s), f)
  BY <1>1, Pairs
<1>4. SUFFICES ASSUME NEW v \in Views, Shows(v, Len(log), inbox, status, Drafts)
               PROVE  Shows(After(v, p), Len(log) + 1, inbox, s, Drafts)
  BY <1>1, SameDrafts DEF Faithful
<1> HIDE DEF p
<1>5. After(v, p) = Apply(Apply(v, Status(s)), f)
  BY <1>2, <1>3, TwoFrames
<1>6. Shows(Apply(v, Status(s)), Len(log), inbox, s, Drafts)
  BY <1>4, StatusShows
<1> DEFINE u == Apply(v, Status(s))
<1> HIDE DEF u
<1>7. Shows(Apply(u, f), Len(log) + 1, inbox, s, Without(Drafts, row.stream))
  BY <1>1, <1>6, RowShows DEF u
<1>8. QED
  BY <1>1, <1>5, <1>7, SameDrafts DEF u

\* A status of its own.
LEMMA StatusCommit ==
    ASSUME TypeOK, NEW s \in Statuses, status' = s, UNCHANGED <<log, inbox, stage, revision>>
    PROVE  Faithful(<<Status(s)>>)
<1>1. \A v \in Views : After(v, <<Status(s)>>) = Apply(v, Status(s))
  BY ReadableFrames, OneFrame
<1>2. QED
  BY <1>1, SameDrafts, StatusShows DEF Faithful

\* A draft that begins.
LEMMA StartCommit ==
    ASSUME TypeOK, SourceInv, NEW d \in Streams, StartDraft(d)
    PROVE  Faithful(<<Start(d)>>)
<1>1. \A v \in Views : After(v, <<Start(d)>>) = Apply(v, Start(d))
  BY ReadableFrames, OneFrame
<1>2. Drafts' = Drafts \cup {<<d, 0>>}
  <2>1. revision[d] = 0 /\ revision' = revision
    BY DEF StartDraft, SourceInv
  <2>2. InStage("draft")' = InStage("draft") \cup {d}
    BY DEF StartDraft, MoveTo, InStage, TypeOK
  <2>3. QED
    BY <2>1, <2>2 DEF Drafts
<1>3. UNCHANGED <<log, inbox, status>>
  BY DEF StartDraft
<1>4. SUFFICES ASSUME NEW v \in Views, Shows(v, Len(log), inbox, status, Drafts)
               PROVE  Shows(Apply(v, Start(d)), Len(log), inbox, status, Drafts \cup {<<d, 0>>})
  BY <1>1, <1>2, <1>3 DEF Faithful
<1>5. /\ Apply(v, Start(d)) \in Views /\ Apply(v, Start(d)).status = v.status
      /\ Apply(v, Start(d)).rows = v.rows /\ Apply(v, Start(d)).inbox = v.inbox
      /\ Apply(v, Start(d)).drafts = v.drafts \cup {<<d, 0>>}
  BY StartFrame
<1>6. QED
  BY <1>4, <1>5 DEF Shows

\* A draft that goes on.
LEMMA UpdateCommit ==
    ASSUME TypeOK, NEW d \in Streams, UpdateDraft(d)
    PROVE  Faithful(<<Delta(d, revision[d] + 1)>>)
<1> DEFINE n == revision[d]
           f == Delta(d, n + 1)
<1>1. n \in Nat /\ n + 1 \in Nat /\ <<d, n>> \in Drafts
  BY StreamAssumption DEF TypeOK, UpdateDraft, Drafts, InStage
<1>2. Drafts' = Without(Drafts, d) \cup {<<d, n + 1>>}
  <2>1. revision' = [revision EXCEPT ![d] = n + 1] /\ d \in InStage("draft")
    BY DEF UpdateDraft, InStage
  <2>2. InStage("draft")' = InStage("draft")
    BY DEF UpdateDraft, InStage
  <2>3. revision'[d] = n + 1 /\ \A x \in Streams : x # d => revision'[x] = revision[x]
    BY <2>1 DEF TypeOK
  <2>4. InStage("draft") \in SUBSET Streams
    BY DEF InStage
  <2> HIDE DEF n
  <2>5. QED
    BY <2>1, <2>2, <2>3, <2>4 DEF Drafts, Without
<1> HIDE DEF n
<1>3. Takes(f)
  <2>1. n + 1 - 1 = n
    BY <1>1
  <2>2. ASSUME NEW v \in Views, <<d, n>> \notin v.drafts PROVE Apply(v, f) = v
    <3>1. f.type = "delta" /\ f.stream = d /\ f.revision = n + 1
      BY DEF Delta
    <3> HIDE DEF f
    <3>2. f.revision - 1 = n
      BY <1>1, <3>1
    <3>3. QED
      BY <2>2, <3>1, <3>2 DEF Apply
  <2>3. QED
    BY <1>1, <2>2, DeltaFrame DEF Takes
<1>4. \A v \in Views : After(v, <<f>>) = Apply(v, f)
  BY <1>3, OneFrame
<1>5. SUFFICES ASSUME NEW v \in Views, Shows(v, Len(log), inbox, status, Drafts)
               PROVE  Shows(Apply(v, f), Len(log), inbox, status, Drafts')
  BY <1>4 DEF Faithful, UpdateDraft, n
<1>6. LET w == Apply(v, f)
      IN  /\ w \in Views /\ w.status = v.status
          /\ w.rows = v.rows /\ w.inbox = v.inbox
          /\ w.drafts = Without(v.drafts, d) \cup {<<d, n + 1>>}
  BY <1>1, <1>5, DeltaFrame DEF Shows
<1>7. QED
  BY <1>2, <1>5, <1>6 DEF Shows

\* A block whose row takes the place of its draft, if it has one.
LEMMA FinishCommit ==
    ASSUME TypeOK, LogInv, NEW d \in Streams, FinishDraft(d)
    PROVE  Faithful(NewRows(<<Of("output", d)>>))
<1> DEFINE row == Of("output", d)
           f == Row(Len(log) + 1, row)
<1>1. row \in Rows /\ row.kind = "output" /\ row.stream = d /\ Len(log) \in Nat
  BY DEF Of, Rows, Kinds, LogInv
<1>2. NewRows(<<row>>) = <<f>>
  BY DEF NewRows
<1> HIDE DEF row
<1>3. Len(log') = Len(log) + 1
  BY <1>1 DEF FinishDraft, LogInv, row
<1>4. Drafts' = Without(Drafts, d)
  <2>1. InStage("draft")' = InStage("draft") \ {d}
    BY DEF FinishDraft, MoveTo, InStage, TypeOK
  <2>2. revision' = revision
    BY DEF FinishDraft
  <2>3. QED
    BY <2>1, <2>2 DEF Drafts, Without
<1>5. Takes(f)
  BY <1>1, ReadableFrames
<1>6. \A v \in Views : After(v, <<f>>) = Apply(v, f)
  BY <1>5, OneFrame
<1>7. SUFFICES ASSUME NEW v \in Views, Shows(v, Len(log), inbox, status, Drafts)
               PROVE  Shows(Apply(v, f), Len(log) + 1, inbox, status, Without(Drafts, d))
  BY <1>2, <1>3, <1>4, <1>6 DEF Faithful, FinishDraft, row
<1>8. QED
  BY <1>1, <1>7, RowShows

\* The frames r are those of s and then those of u.
Joins(r, s, u) ==
    /\ Len(r) = Len(s) + Len(u) /\ DOMAIN r = 1..(Len(s) + Len(u))
    /\ \A i \in 1..Len(s) : r[i] = s[i]
    /\ \A i \in 1..Len(u) : r[Len(s) + i] = u[i]

\* So it is when they are put together.
LEMMA Joined ==
    ASSUME NEW F, NEW s \in Seq(F), NEW u \in Seq(F)
    PROVE  Joins(s \o u, s, u)
  BY DEF Joins

\* The rows of the drafts that were interrupted, and the removals of the empty ones.
LEMMA InterruptCommit ==
    ASSUME TypeOK, LogInv, NEW ds, Interrupts(ds)
    PROVE  \E frames : Publish(frames) /\ Faithful(frames)
<1> DEFINE full  == ds \cap substantive
           empty == ds \ substantive
           kept  == SetToSeq({Of("interrupted", d) : d \in full})
           G     == {Removed(d) : d \in empty}
           gone  == SetToSeq(G)
           rows  == NewRows(kept)
           frames == rows \o gone
           k == Len(kept)
           m == Len(gone)
           n == Len(log)
           stream(i) == IF i <= k THEN kept[i].stream ELSE gone[i - k].stream
           left(i) == {x \in Drafts : \A j \in 1..i : x[1] # stream(j)}
           upto(i) == IF i <= k THEN n + i ELSE n + k
<1>1. /\ full \in SUBSET Streams /\ empty \in SUBSET Streams /\ full \cup empty = ds
      /\ ds \in SUBSET Streams
  BY DEF Interrupts, InStage, TypeOK
<1>2. Publish(frames) /\ log' = log \o kept /\ UNCHANGED <<inbox, status, revision>>
  BY DEF Interrupts, InterruptDrafts
<1>3. /\ kept \in Seq(Rows) /\ k \in Nat
      /\ \A i \in 1..k : /\ kept[i].stream \in full /\ kept[i] \in Rows
                         /\ kept[i] = Of("interrupted", kept[i].stream)
      /\ \A d \in full : \E i \in 1..k : kept[i].stream = d
  <2>1. /\ kept \in Seq(Rows)
        /\ \A i \in 1..Len(kept) :
              kept[i].stream \in full /\ kept[i] = Of("interrupted", kept[i].stream)
        /\ \A d \in full : \E i \in 1..Len(kept) : kept[i].stream = d
    BY <1>1, KeptRows
  <2> HIDE DEF kept
  <2>2. QED
    BY <2>1
<1>4. /\ gone \in Seq(G) /\ m \in Nat
      /\ \A i \in 1..m : gone[i] \in G
      /\ \A x \in G : \E i \in 1..m : gone[i] = x
  <2>1. IsFiniteSet(G)
    <3>1. IsFiniteSet(empty)
      BY <1>1, StreamAssumption, FS_Subset
    <3>2. [d \in empty |-> Removed(d)] \in Surjection(empty, G)
      BY DEF Surjection
    <3>3. QED
      BY <3>1, <3>2, FS_Surjection
  <2> HIDE DEF G
  <2>2. /\ gone \in Seq(G) /\ Cardinality(G) \in Nat /\ Len(gone) = Cardinality(G)
        /\ \A x \in G : \E i \in 1..Cardinality(G) : gone[i] = x
    BY <2>1, SetToSeqLists
  <2> HIDE DEF gone
  <2>3. QED
    BY <2>2
<1>5. /\ \A i \in 1..m : gone[i].stream \in empty /\ gone[i] = Removed(gone[i].stream)
      /\ \A d \in empty : \E i \in 1..m : gone[i].stream = d
  <2>1. \A x \in G : x.stream \in empty /\ x = Removed(x.stream)
    BY DEF Removed
  <2>2. \A d \in empty : Removed(d) \in G /\ Removed(d).stream = d
    BY DEF Removed
  <2> HIDE DEF G, gone, empty
  <2>3. QED
    BY <1>4, <2>1, <2>2
<1> HIDE DEF full, empty, kept, G, gone
<1>6. n \in Nat /\ log \in Seq(Rows)
  BY DEF LogInv
<1>7. /\ Len(frames) = k + m /\ DOMAIN frames = 1..(k + m)
      /\ \A i \in 1..k : frames[i] = Row(n + i, kept[i])
      /\ \A i \in 1..m : frames[k + i] = gone[i]
  <2> DEFINE F == {rows[i] : i \in 1..k} \cup G
  <2>1. rows = [i \in 1..k |-> Row(n + i, kept[i])]
    BY DEF NewRows
  <2>2. rows \in Seq(F) /\ Len(rows) = k
    BY <1>3, <2>1
  <2>3. gone \in Seq(F)
    BY <1>4
  <2> HIDE DEF F, rows, m, k
  <2>4. /\ Len(frames) = k + m /\ DOMAIN frames = 1..(k + m)
        /\ \A i \in 1..k : frames[i] = rows[i]
        /\ \A i \in 1..m : frames[k + i] = gone[i]
    <3>1. Len(gone) = m
      BY DEF m
    <3>2. Joins(frames, rows, gone)
      BY <2>2, <2>3, Joined
    <3> HIDE DEF frames
    <3>3. QED
      BY <2>2, <3>1, <3>2 DEF Joins
  <2>5. \A i \in 1..k : rows[i] = Row(n + i, kept[i])
    BY <2>1
  <2>6. QED
    BY <2>4, <2>5
<1>8. \A i \in 1..(k + m) :
         \/ i \in 1..k /\ i <= k
         \/ i - k \in 1..m /\ ~(i <= k) /\ k + (i - k) = i
  BY <1>3, <1>4
<1> HIDE DEF frames, n, k, m
<1>9. Readable(frames)
  <2>1. ASSUME NEW i \in 1..(k + m) PROVE Takes(frames[i])
    <3>1. CASE i \in 1..k
      <4>1. frames[i] = Row(n + i, kept[i]) /\ n + i \in Nat /\ kept[i] \in Rows
        BY <3>1, <1>3, <1>6, <1>7
      <4>2. QED
        BY <4>1, ReadableFrames
    <3>2. CASE i - k \in 1..m /\ k + (i - k) = i
      <4>1. frames[i] = gone[i - k] /\ gone[i - k].stream \in Streams
        BY <3>2, <1>1, <1>5, <1>7
      <4>2. QED
        BY <4>1, <3>2, <1>5, ReadableFrames
    <3>3. QED
      BY <1>8, <3>1, <3>2
  <2>2. k + m \in Nat
    BY <1>3, <1>4
  <2>3. QED
    BY <1>7, <2>1, <2>2 DEF Readable
<1>10. SUFFICES ASSUME NEW v \in Views, Shows(v, n, inbox, status, Drafts)
                PROVE  Shows(After(v, frames), Len(log'), inbox', status', Drafts')
  BY <1>2 DEF Faithful, n
<1>11. PICK t : Trace(t, v, frames) /\ After(v, frames) = t[k + m]
  BY <1>7, <1>9, <1>10, FrameByFrame
<1>12. t[0] = v /\ \A i \in 1..(k + m) : t[i] = Apply(t[i - 1], frames[i])
  BY <1>7, <1>11 DEF Trace
<1>13. \A i \in 1..(k + m) : left(i) = Without(left(i - 1), stream(i))
  <2> TAKE i \in 1..(k + m)
  <2>1. i \in 1..i /\ \A j \in 1..i : j \in 1..(i - 1) \/ j = i
    BY <1>3, <1>4
  <2>2. \A j \in 1..(i - 1) : j \in 1..i
    BY <1>3, <1>4
  <2> HIDE DEF stream
  <2>3. QED
    BY <2>1, <2>2 DEF Without
<1> DEFINE good == {i \in 0..(k + m) : Shows(t[i], upto(i), inbox, status, left(i))}
<1>14. 0 \in good
  <2>1. left(0) = Drafts /\ upto(0) = n /\ 0 \in 0..(k + m)
    BY <1>3, <1>4, <1>6
  <2> HIDE DEF left, upto
  <2>2. QED
    BY <1>10, <1>12, <2>1
<1>15. ASSUME NEW i \in 1..(k + m), i - 1 \in good PROVE i \in good
  <2>1. /\ Shows(t[i - 1], upto(i - 1), inbox, status, left(i - 1))
        /\ t[i] = Apply(t[i - 1], frames[i])
    BY <1>12, <1>15
  <2>2. CASE i \in 1..k
    <3>1. upto(i - 1) = n + i - 1 /\ upto(i) = n + i /\ stream(i) = kept[i].stream
      BY <2>2, <1>3, <1>4, <1>6
    <3>2. /\ kept[i] \in Rows /\ kept[i].kind = "interrupted"
          /\ frames[i] = Row(n + i, kept[i])
      <4>1. \A x : Of("interrupted", x).kind = "interrupted"
        BY DEF Of
      <4>2. kept[i] = Of("interrupted", kept[i].stream) /\ kept[i] \in Rows
        BY <2>2, <1>3
      <4>3. kept[i].kind = "interrupted"
        BY <4>1, <4>2
      <4>4. QED
        BY <2>2, <1>7, <4>2, <4>3
    <3>3. n + i - 1 \in Nat /\ n + i - 1 + 1 = n + i
      BY <2>2, <1>6, <1>3
    <3> HIDE DEF upto, stream, left
    <3>4. Shows(t[i], n + i, inbox, status, Without(left(i - 1), kept[i].stream))
      BY <2>1, <3>1, <3>2, <3>3, RowShows
    <3>5. Shows(t[i], upto(i), inbox, status, left(i))
      BY <1>13, <3>1, <3>4
    <3>6. QED
      BY <3>5
  <2>3. CASE i - k \in 1..m /\ ~(i <= k) /\ k + (i - k) = i
    <3>1. upto(i - 1) = upto(i) /\ stream(i) = gone[i - k].stream
      BY <2>3, <1>3, <1>4, <1>6
    <3>2. frames[i] = Removed(stream(i)) /\ stream(i) \in Streams
      <4>1. frames[i] = gone[i - k]
        BY <2>3, <1>7
      <4>2. gone[i - k] = Removed(gone[i - k].stream) /\ gone[i - k].stream \in Streams
        BY <2>3, <1>1, <1>5
      <4> HIDE DEF stream
      <4>3. QED
        BY <3>1, <4>1, <4>2
    <3> HIDE DEF upto, stream, left
    <3> DEFINE w == Apply(t[i - 1], Removed(stream(i)))
    <3>3. /\ w \in Views /\ w.status = t[i - 1].status
          /\ w.rows = t[i - 1].rows /\ w.inbox = t[i - 1].inbox
          /\ w.drafts = Without(t[i - 1].drafts, stream(i))
      <4>1. t[i - 1] \in Views
        BY <2>1 DEF Shows
      <4>2. QED
        BY <3>2, <4>1, RemovedFrame
    <3>4. t[i] = w
      BY <2>1, <3>2
    <3> HIDE DEF w
    <3>5. Shows(t[i], upto(i), inbox, status, left(i))
      BY <1>13, <2>1, <3>1, <3>3, <3>4 DEF Shows
    <3>6. QED
      BY <3>5
  <2>4. QED
    BY <1>8, <2>2, <2>3
<1>16. k + m \in good
  <2>1. k + m \in Nat /\ k + m \in 0..(k + m)
    BY <1>3, <1>4
  <2> HIDE DEF good
  <2>2. 0..(k + m) \subseteq good
    BY <2>1, <1>14, <1>15, Upward
  <2>3. QED
    BY <2>1, <2>2
<1>17. Len(log') = upto(k + m)
  <2>1. Len(log') = n + k
    BY <1>2, <1>3, <1>6 DEF n, k
  <2>2. QED
    BY <2>1, <1>3, <1>4, <1>6
<1>18. Drafts' = left(k + m)
  <2>1. \A d \in Streams : d \in ds <=> \E j \in 1..(k + m) : stream(j) = d
    <3> TAKE d \in Streams
    <3>1. ASSUME NEW j \in 1..(k + m) PROVE stream(j) \in ds
      BY <1>1, <1>3, <1>5, <1>8
    <3>2. ASSUME d \in full PROVE \E j \in 1..(k + m) : stream(j) = d
      <4>1. PICK j \in 1..k : kept[j].stream = d
        BY <1>3, <3>2
      <4>2. j \in 1..(k + m) /\ stream(j) = d
        BY <1>3, <1>4, <4>1
      <4>3. QED
        BY <4>2
    <3>3. ASSUME d \in empty PROVE \E j \in 1..(k + m) : stream(j) = d
      <4>1. PICK j \in 1..m : gone[j].stream = d
        BY <1>5, <3>3
      <4> DEFINE i == k + j
      <4>2. i \in 1..(k + m) /\ ~(i <= k) /\ i - k = j
        BY <1>3, <1>4, <4>1
      <4> HIDE DEF i
      <4>3. stream(i) = gone[j].stream
        BY <4>2
      <4>4. QED
        BY <4>1, <4>2, <4>3
    <3> HIDE DEF stream
    <3>4. QED
      BY <1>1, <3>1, <3>2, <3>3
  <2>2. InStage("draft")' = InStage("draft") \ ds
    BY DEF Interrupts, InStage
  <2>3. InStage("draft") \in SUBSET Streams /\ revision' = revision
    BY <1>2 DEF InStage
  <2> HIDE DEF stream
  <2>4. Drafts' = {<<d, revision[d]>> : d \in InStage("draft") \ ds}
    BY <2>2, <2>3 DEF Drafts
  <2>5. left(k + m) = {x \in Drafts : x[1] \notin ds}
    <3>1. \A x \in Drafts : x[1] \in Streams
      BY <2>3 DEF Drafts
    <3>2. QED
      BY <2>1, <3>1
  <2>6. {x \in Drafts : x[1] \notin ds} = {<<d, revision[d]>> : d \in InStage("draft") \ ds}
    BY DEF Drafts
  <2>7. QED
    BY <2>4, <2>5, <2>6
<1>19. Shows(t[k + m], upto(k + m), inbox, status, left(k + m))
  BY <1>16
<1> HIDE DEF upto, left, good
<1>20. QED
  BY <1>2, <1>11, <1>17, <1>18, <1>19

-----------------------------------------------------------------------------
(* A subscriber that connects *)

\* The replay with the drafts, the message queue and the status after it shows
\* the session to a client that showed nothing.
LEMMA WelcomeShows ==
    ASSUME TypeOK, LogInv, SourceInv
    PROVE  Shows(After(Blank,
                       Replay \o <<Snapshot(Drafts), InputQueue(inbox), Status(status)>>),
                 Len(log), inbox, status, Drafts)
<1> DEFINE n == Len(log)
           first == IF n > ReplayLimit THEN n - ReplayLimit + 1 ELSE 1
           m == n - first + 1
           tail == <<Snapshot(Drafts), InputQueue(inbox), Status(status)>>
           frames == Replay \o tail
           F == {Row(i, log[i]) : i \in 1..n}
                  \cup {Snapshot(Drafts), InputQueue(inbox), Status(status)}
<1>1. /\ n \in Nat /\ first \in Nat \ {0} /\ m \in Nat /\ m <= n
      /\ m = n \/ m = ReplayLimit
  BY StreamAssumption DEF LogInv
<1>2. Replay = [i \in 1..m |-> Row(first + i - 1, log[first + i - 1])]
  BY DEF Replay
<1>3. \A i \in 1..m : /\ first + i - 1 \in 1..n /\ first + i - 1 = n - m + i
                       /\ first + i - 1 \in Nat /\ log[first + i - 1] \in Rows
  <2>1. \A i \in 1..m : first + i - 1 \in 1..n /\ first + i - 1 = n - m + i
    BY <1>1
  <2>2. \A i \in 1..n : i \in Nat /\ log[i] \in Rows
    BY <1>1 DEF LogInv
  <2> HIDE DEF n, m, first
  <2>3. QED
    BY <2>1, <2>2
<1> HIDE DEF n, m, first
<1>4. Replay \in Seq(F) /\ Len(Replay) = m
  <2>1. \A i \in 1..m : Row(first + i - 1, log[first + i - 1]) \in F
    BY <1>3
  <2> HIDE DEF F
  <2>2. QED
    BY <1>1, <1>2, <2>1
<1>5. tail \in Seq(F) /\ Len(tail) = 3
  OBVIOUS
<1>6. /\ Len(frames) = m + 3 /\ DOMAIN frames = 1..(m + 3)
      /\ \A i \in 1..m : frames[i] = Row(first + i - 1, log[first + i - 1])
      /\ frames[m + 1] = Snapshot(Drafts) /\ frames[m + 2] = InputQueue(inbox)
      /\ frames[m + 3] = Status(status)
  <2>1. tail[1] = Snapshot(Drafts) /\ tail[2] = InputQueue(inbox) /\ tail[3] = Status(status)
    OBVIOUS
  <2>2. 1 \in 1..3 /\ 2 \in 1..3 /\ 3 \in 1..3
    OBVIOUS
  <2> HIDE DEF F, tail
  <2>3. /\ frames \in Seq(F) /\ Len(frames) = m + 3
        /\ \A i \in 1..m : frames[i] = Replay[i]
        /\ \A i \in 1..3 : frames[m + i] = tail[i]
    <3>1. frames \in Seq(F) /\ Joins(frames, Replay, tail)
      BY <1>4, <1>5, Joined
    <3> HIDE DEF frames
    <3>2. QED
      BY <1>4, <1>5, <3>1 DEF Joins
  <2> HIDE DEF frames
  <2>6. \A i \in 1..m : frames[i] = Row(first + i - 1, log[first + i - 1])
    BY <1>2, <2>3
  <2>7. frames[m + 1] = tail[1] /\ frames[m + 2] = tail[2] /\ frames[m + 3] = tail[3]
    BY <2>2, <2>3
  <2>8. QED
    BY <1>1, <2>1, <2>3, <2>6, <2>7
<1> HIDE DEF F, frames
<1>7. Drafts \in SUBSET (Streams \X Nat) /\ inbox \in Seq(Nat) /\ status \in Statuses
  BY SameDrafts DEF SourceInv, TypeOK
<1>8. /\ Takes(Snapshot(Drafts)) /\ Takes(InputQueue(inbox)) /\ Takes(Status(status))
  BY <1>7, SnapshotFrame, QueueFrame, StatusFrame DEF Takes
<1>9. Readable(frames)
  <2>1. ASSUME NEW i \in 1..m PROVE Takes(frames[i])
    <3>1. /\ frames[i] = Row(first + i - 1, log[first + i - 1])
          /\ first + i - 1 \in Nat /\ log[first + i - 1] \in Rows
      BY <1>3, <1>6
    <3>2. QED
      BY <3>1, ReadableFrames
  <2>2. \A i \in 1..(m + 3) : i \in 1..m \/ i = m + 1 \/ i = m + 2 \/ i = m + 3
    BY <1>1
  <2>3. m + 3 \in Nat
    BY <1>1
  <2>4. QED
    BY <1>6, <1>8, <2>1, <2>2, <2>3 DEF Readable
<1>10. PICK t : Trace(t, Blank, frames) /\ After(Blank, frames) = t[m + 3]
  BY <1>6, <1>9, BlankView, FrameByFrame
<1>11. t[0] = Blank /\ \A i \in 1..(m + 3) : t[i] = Apply(t[i - 1], frames[i])
  BY <1>6, <1>10 DEF Trace
<1> DEFINE good == {i \in 0..m : /\ t[i] \in Views /\ Len(t[i].rows) = i
                                 /\ \A j \in 1..i : t[i].rows[j] = n - m + j}
<1>12. 0 \in good
  <2>1. t[0] \in Views /\ t[0].rows = <<>> /\ 0 \in 0..m
    BY <1>1, <1>11, BlankView DEF Blank
  <2>2. QED
    BY <2>1
<1>13. ASSUME NEW i \in 1..m, i - 1 \in good PROVE i \in good
  <2>1. /\ t[i - 1] \in Views /\ Len(t[i - 1].rows) = i - 1
        /\ \A j \in 1..(i - 1) : t[i - 1].rows[j] = n - m + j
        /\ t[i - 1].rows \in Seq(Nat) /\ i \in 1..(m + 3) /\ i \in 0..m
    BY <1>1, <1>13 DEF Views
  <2>2. t[i] = Apply(t[i - 1], Row(first + i - 1, log[first + i - 1]))
    BY <1>6, <1>11, <2>1
  <2>3. first + i - 1 \in Nat /\ log[first + i - 1] \in Rows /\ first + i - 1 = n - m + i
    BY <1>3
  <2>4. t[i] \in Views /\ t[i].rows = Append(t[i - 1].rows, first + i - 1)
    <3> DEFINE id == first + i - 1
               v == t[i - 1]
    <3>1. v \in Views /\ id \in Nat /\ log[id] \in Rows /\ t[i] = Apply(v, Row(id, log[id]))
      BY <2>1, <2>2, <2>3
    <3> HIDE DEF id, v
    <3>2. t[i] \in Views /\ t[i].rows = Append(v.rows, id)
      BY <3>1, RowFrame
    <3>3. QED
      BY <3>2 DEF id, v
  <2> DEFINE r == t[i - 1].rows
             a == Append(r, first + i - 1)
  <2>5. r \in Seq(Nat) /\ Len(r) = i - 1 /\ \A j \in 1..(i - 1) : r[j] = n - m + j
    BY <2>1
  <2> HIDE DEF r
  <2>6. Len(a) = i /\ (\A j \in 1..(i - 1) : a[j] = r[j]) /\ a[i] = first + i - 1
    BY <2>3, <2>5
  <2> HIDE DEF a
  <2>7. \A j \in 1..i : j \in 1..(i - 1) \/ j = i
    OBVIOUS
  <2>8. Len(a) = i /\ \A j \in 1..i : a[j] = n - m + j
    BY <2>3, <2>5, <2>6, <2>7
  <2>9. t[i].rows = a
    BY <2>4 DEF a, r
  <2>10. QED
    BY <2>1, <2>4, <2>8, <2>9
<1>14. m \in good
  <2>1. m \in 0..m
    BY <1>1
  <2> HIDE DEF good
  <2>2. 0..m \subseteq good
    BY <1>1, <1>12, <1>13, Upward
  <2>3. QED
    BY <2>1, <2>2
<1>15. t[m] \in Views /\ LastRows(t[m].rows, n)
  <2> DEFINE r == t[m].rows
  <2>1. t[m] \in Views /\ r \in Seq(Nat) /\ Len(r) = m /\ \A j \in 1..m : r[j] = n - m + j
    BY <1>14 DEF Views
  <2> HIDE DEF r
  <2>2. r = [j \in 1..Len(r) |-> n - Len(r) + j]
    BY <2>1
  <2>3. Len(r) <= n /\ (Len(r) = n \/ Len(r) >= ReplayLimit)
    BY <1>1, <2>1, StreamAssumption
  <2>4. LastRows(r, n)
    BY <2>2, <2>3 DEF LastRows
  <2>5. QED
    BY <2>1, <2>4 DEF r
<1>16. /\ t[m + 1] = Apply(t[m], Snapshot(Drafts))
       /\ t[m + 2] = Apply(t[m + 1], InputQueue(inbox))
       /\ t[m + 3] = Apply(t[m + 2], Status(status))
  <2> DEFINE i == m + 1
             j == m + 2
             k == m + 3
  <2>1. /\ i \in 1..k /\ j \in 1..k /\ k \in 1..k
        /\ i - 1 = m /\ j - 1 = i /\ k - 1 = j
    BY <1>1
  <2>2. \A x \in 1..k : t[x] = Apply(t[x - 1], frames[x])
    BY <1>11
  <2> HIDE DEF i, j, k
  <2>3. /\ t[i] = Apply(t[m], frames[i]) /\ t[j] = Apply(t[i], frames[j])
        /\ t[k] = Apply(t[j], frames[k])
    BY <2>1, <2>2
  <2>4. QED
    BY <1>6, <2>3 DEF i, j, k
<1>17. /\ t[m + 1] \in Views /\ t[m + 1].rows = t[m].rows /\ t[m + 1].drafts = Drafts
  BY <1>7, <1>15, <1>16, SnapshotFrame
<1>18. /\ t[m + 2] \in Views /\ t[m + 2].rows = t[m].rows /\ t[m + 2].drafts = Drafts
       /\ t[m + 2].inbox = inbox
  BY <1>7, <1>16, <1>17, QueueFrame
<1>19. /\ t[m + 3] \in Views /\ t[m + 3].rows = t[m].rows /\ t[m + 3].drafts = Drafts
       /\ t[m + 3].inbox = inbox /\ t[m + 3].status = status
  BY <1>7, <1>16, <1>18, StatusFrame
<1>20. Shows(t[m + 3], n, inbox, status, Drafts)
  BY <1>15, <1>19 DEF Shows
<1>21. QED
  BY <1>10, <1>20 DEF frames, n

\* A live client that does not get a frame still shows the session, if that is
\* as before.
LEMMA QuietStep ==
    ASSUME ViewInv, UNCHANGED <<log, inbox, status>>, Drafts' = Drafts, DOMAIN view' = Clients,
           \A c \in Clients : conn'[c] = "live" => conn[c] = "live" /\ view'[c] = view[c]
    PROVE  ViewInv'
  BY DEF ViewInv, Shows

-----------------------------------------------------------------------------
(* Every step *)

\* A live client shows the session after every step.
LEMMA ViewStep ==
    ASSUME TypeOK, LogInv, SourceInv, ViewInv, [Next]_vars
    PROVE  ViewInv'
<1>1. ASSUME AcceptInput PROVE ViewInv'
  <2>1. Faithful(NewRows(Plain("input")))
    BY <1>1, RowCommit DEF AcceptInput
  <2>2. QED
    BY <1>1, <2>1, PublishStep DEF AcceptInput
<1>2. ASSUME Ship PROVE ViewInv'
  <2>1. Faithful(Append(NewRows(Plain("shipped")), Status("running")))
    BY <1>2, RowStatusCommit DEF Ship, Statuses
  <2>2. QED
    BY <1>2, <2>1, PublishStep DEF Ship
<1>3. ASSUME RecordEvent PROVE ViewInv'
  <2>1. Faithful(NewRows(Plain("event")))
    BY <1>3, RowCommit DEF RecordEvent
  <2>2. QED
    BY <1>3, <2>1, PublishStep DEF RecordEvent
<1>4. ASSUME RecordRequest PROVE ViewInv'
  <2>1. Faithful(<<Status("awaiting_approval")>> \o NewRows(Plain("event")))
    BY <1>4, StatusRowCommit DEF RecordRequest, Statuses
  <2>2. QED
    BY <1>4, <2>1, PublishStep DEF RecordRequest
<1>5. ASSUME RecordResponse PROVE ViewInv'
  <2>1. Faithful(Append(NewRows(Plain("event")), Status("running")))
    BY <1>5, RowStatusCommit DEF RecordResponse, Statuses
  <2>2. QED
    BY <1>5, <2>1, PublishStep DEF RecordResponse
<1>6. ASSUME GoIdle PROVE ViewInv'
  <2>1. Faithful(<<Status("idle")>>)
    BY <1>6, StatusCommit DEF GoIdle, Statuses
  <2>2. QED
    BY <1>6, <2>1, PublishStep DEF GoIdle
<1>7. ASSUME OpenRegistry PROVE ViewInv'
  <2>1. /\ UNCHANGED <<log, inbox, status, stage, revision>> /\ DOMAIN view' = Clients
        /\ \A x \in Clients : conn'[x] = "live" => conn[x] = "live" /\ view'[x] = view[x]
    BY <1>7 DEF ViewInv, OpenRegistry, peers
  <2>2. QED
    BY <2>1, SameDrafts, QuietStep
<1>8. ASSUME Interruption PROVE ViewInv'
  BY <1>8, SomeAreInterrupted, InterruptCommit, PublishStep
<1>9. ASSUME PopRegistry PROVE ViewInv'
  <2>1. /\ UNCHANGED <<log, inbox, status>> /\ DOMAIN view' = Clients
        /\ \A x \in Clients : conn'[x] = "live" => conn[x] = "live" /\ view'[x] = view[x]
    BY <1>9 DEF ViewInv, PopRegistry, peers
  <2>2. InStage("draft")' = InStage("draft") /\ revision' = revision
    BY <1>9 DEF PopRegistry, MoveTo, InStage, TypeOK
  <2>3. Drafts' = Drafts
    BY <2>2 DEF Drafts
  <2>4. QED
    BY <2>1, <2>3, QuietStep
<1>10. ASSUME NEW d \in Streams, StartDraft(d) PROVE ViewInv'
  BY <1>10, StartCommit, PublishStep DEF StartDraft
<1>11. ASSUME NEW d \in Streams, UpdateDraft(d) PROVE ViewInv'
  BY <1>11, UpdateCommit, PublishStep DEF UpdateDraft
<1>12. ASSUME NEW d \in Streams, FinishDraft(d) PROVE ViewInv'
  BY <1>12, FinishCommit, PublishStep DEF FinishDraft
<1>13. ASSUME ReportFailure PROVE ViewInv'
  <2>1. Faithful(NewRows(Plain("event")))
    BY <1>13, RowCommit DEF ReportFailure
  <2>2. QED
    BY <1>13, <2>1, PublishStep DEF ReportFailure
<1>14. ASSUME NEW c \in Clients, Connect(c) PROVE ViewInv'
  <2>1. UNCHANGED session /\ Drafts' = Drafts
    BY <1>14, SameDrafts DEF Connect, Welcome, session
  <2>2. \A x \in Clients : x # c /\ conn'[x] = "live" => conn[x] = "live" /\ view'[x] = view[x]
    BY <1>14 DEF Connect, Welcome, ViewInv, TypeOK
  <2>3. conn'[c] = "live" =>
           view'[c] = After(Blank,
                            Replay \o <<Snapshot(Drafts), InputQueue(inbox), Status(status)>>)
    BY <1>14 DEF Connect, Welcome, After, ViewInv, TypeOK
  <2>4. DOMAIN view' = Clients
    BY <1>14 DEF Connect, Welcome, ViewInv
  <2>5. QED
    BY <2>1, <2>2, <2>3, <2>4, WelcomeShows DEF ViewInv, session
<1>15. ASSUME NEW c \in Clients, Send(c) PROVE ViewInv'
  <2>1. /\ UNCHANGED <<log, inbox, status, stage, revision>> /\ DOMAIN view' = Clients
        /\ \A x \in Clients : conn'[x] = "live" => conn[x] = "live" /\ view'[x] = view[x]
    BY <1>15 DEF ViewInv, Send, session
  <2>2. QED
    BY <2>1, SameDrafts, QuietStep
<1>16. ASSUME NEW c \in Clients, Disconnect(c) PROVE ViewInv'
  <2>1. /\ UNCHANGED <<log, inbox, status, stage, revision>> /\ DOMAIN view' = Clients
        /\ \A x \in Clients : conn'[x] = "live" => conn[x] = "live" /\ view'[x] = view[x]
    BY <1>16 DEF ViewInv, Disconnect, Retire, session, TypeOK
  <2>2. QED
    BY <2>1, SameDrafts, QuietStep
<1>17. ASSUME NEW c \in Clients, LocalError(c) PROVE ViewInv'
  <2>1. CASE UNCHANGED <<conn, view>>
    <3>1. /\ UNCHANGED <<log, inbox, status, stage, revision>> /\ DOMAIN view' = Clients
          /\ \A x \in Clients : conn'[x] = "live" => conn[x] = "live" /\ view'[x] = view[x]
      BY <1>17, <2>1 DEF LocalError, session, ViewInv
    <3>2. QED
      BY <3>1, SameDrafts, QuietStep
  <2>2. CASE Retire(c)
    <3>1. /\ UNCHANGED <<log, inbox, status, stage, revision>> /\ DOMAIN view' = Clients
          /\ \A x \in Clients : conn'[x] = "live" => conn[x] = "live" /\ view'[x] = view[x]
      BY <1>17, <2>2 DEF LocalError, Retire, session, TypeOK, ViewInv
    <3>2. QED
      BY <3>1, SameDrafts, QuietStep
  <2>3. QED
    BY <1>17, <2>1, <2>2 DEF LocalError
<1>18. ASSUME DeleteSession PROVE ViewInv'
  BY <1>18 DEF DeleteSession, ViewInv
<1>19. ASSUME Crash PROVE ViewInv'
  BY <1>19 DEF Crash, ViewInv
<1>20. ASSUME UNCHANGED vars PROVE ViewInv'
  <2>1. /\ UNCHANGED <<log, inbox, status, stage, revision>> /\ DOMAIN view' = Clients
        /\ \A x \in Clients : conn'[x] = "live" => conn[x] = "live" /\ view'[x] = view[x]
    BY <1>20 DEF ViewInv, vars, session, peers
  <2>2. QED
    BY <2>1, SameDrafts, QuietStep
<1>21. QED
  BY <1>1, <1>2, <1>3, <1>4, <1>5, <1>6, <1>7, <1>8, <1>9, <1>10, <1>11, <1>12, <1>13, <1>14,
       <1>15, <1>16, <1>17, <1>18, <1>19, <1>20
  DEF Next, Drafting, Interruption, DeltaFails, AgentFails

\* The message queue refers to rows, and a draft begins empty, after every step.
LEMMA SourceStep ==
    ASSUME TypeOK, LogInv, SourceInv, [Next]_vars
    PROVE  SourceInv'
<1> USE DEF SourceInv
<1>1. ASSUME AcceptInput PROVE SourceInv'
  BY <1>1 DEF AcceptInput, LogInv
<1>2. ASSUME Ship PROVE SourceInv'
  BY <1>2 DEF Ship
<1>3. ASSUME RecordEvent PROVE SourceInv'
  BY <1>3 DEF RecordEvent
<1>4. ASSUME RecordRequest PROVE SourceInv'
  BY <1>4 DEF RecordRequest
<1>5. ASSUME RecordResponse PROVE SourceInv'
  BY <1>5 DEF RecordResponse
<1>6. ASSUME GoIdle PROVE SourceInv'
  BY <1>6 DEF GoIdle
<1>7. ASSUME OpenRegistry PROVE SourceInv'
  BY <1>7 DEF OpenRegistry
<1>8. ASSUME Interruption PROVE SourceInv'
  <2>1. PICK ds : Interrupts(ds)
    BY <1>8, SomeAreInterrupted
  <2>2. UNCHANGED <<inbox, revision>> /\ \A d \in Streams : stage'[d] = "new" => stage[d] = "new"
    BY <2>1 DEF Interrupts, InterruptDrafts
  <2>3. QED
    BY <2>2
<1>9. ASSUME PopRegistry PROVE SourceInv'
  BY <1>9 DEF PopRegistry, MoveTo
<1>10. ASSUME NEW d \in Streams, StartDraft(d) PROVE SourceInv'
  BY <1>10 DEF StartDraft, MoveTo, TypeOK
<1>11. ASSUME NEW d \in Streams, UpdateDraft(d) PROVE SourceInv'
  BY <1>11 DEF UpdateDraft, TypeOK
<1>12. ASSUME NEW d \in Streams, FinishDraft(d) PROVE SourceInv'
  BY <1>12 DEF FinishDraft, MoveTo, TypeOK
<1>13. ASSUME ReportFailure PROVE SourceInv'
  BY <1>13 DEF ReportFailure
<1>14. ASSUME NEW c \in Clients, Connect(c) PROVE SourceInv'
  BY <1>14 DEF Connect, Welcome, session
<1>15. ASSUME NEW c \in Clients, Send(c) PROVE SourceInv'
  BY <1>15 DEF Send, session
<1>16. ASSUME NEW c \in Clients, Disconnect(c) PROVE SourceInv'
  BY <1>16 DEF Disconnect, session
<1>17. ASSUME NEW c \in Clients, LocalError(c) PROVE SourceInv'
  BY <1>17 DEF LocalError, session
<1>18. ASSUME DeleteSession PROVE SourceInv'
  BY <1>18 DEF DeleteSession
<1>19. ASSUME Crash PROVE SourceInv'
  BY <1>19 DEF Crash, MoveTo
<1>20. ASSUME UNCHANGED vars PROVE SourceInv'
  BY <1>20 DEF vars, session
<1>21. QED
  BY <1>1, <1>2, <1>3, <1>4, <1>5, <1>6, <1>7, <1>8, <1>9, <1>10, <1>11, <1>12, <1>13, <1>14,
       <1>15, <1>16, <1>17, <1>18, <1>19, <1>20
  DEF Next, Drafting, Interruption, DeltaFails, AgentFails

\* A client that shows the session shows it exactly.
LEMMA ViewsAreExact == TypeOK /\ LogInv /\ ViewInv => StreamExact
<1> SUFFICES ASSUME TypeOK, LogInv, ViewInv, NEW c \in Clients, conn[c] = "live"
             PROVE  LET v == view[c]
                        first == Len(log) - Len(v.rows) + 1
                    IN  /\ v.status = status /\ v.inbox = inbox /\ v.drafts = Drafts
                        /\ v.rows = [i \in 1..Len(v.rows) |-> first + i - 1]
                        /\ first = 1 \/ Len(v.rows) >= ReplayLimit
  BY DEF StreamExact
<1> DEFINE v == view[c]
           r == v.rows
           n == Len(log)
           m == Len(r)
<1>1. v \in Views /\ v.inbox = inbox /\ v.status = status /\ v.drafts = Drafts /\ LastRows(r, n)
  BY DEF ViewInv, Shows
<1>2. m \in Nat /\ n \in Nat
  BY <1>1 DEF Views, LogInv
<1>3. r = [i \in 1..m |-> n - m + i] /\ (m = n \/ m >= ReplayLimit)
  BY <1>1 DEF LastRows
<1>4. \A i \in 1..m : n - m + i = n - m + 1 + i - 1
  BY <1>2
<1>5. [i \in 1..m |-> n - m + i] = [i \in 1..m |-> n - m + 1 + i - 1]
  BY <1>4
<1>6. n - m + 1 = 1 \/ m >= ReplayLimit
  BY <1>2, <1>3
<1>7. QED
  BY <1>1, <1>3, <1>5, <1>6

-----------------------------------------------------------------------------
(* Theorems *)

\* The invariant holds in every behaviour.
THEOREM Invariant == Spec => []IInv
<1>1. Init => IInv
  <2>1. Init => LogInv /\ RowsInv /\ OneRowPerStream
    BY DEF Init, LogInv, RowsInv, OneRowPerStream, SameBlock
  <2>2. Init => SessionOK /\ PeersOK
    BY StreamAssumption DEF Init, SessionOK, PeersOK, Statuses, Turns, Stages, Capacity
  <2>3. Init => SourceInv /\ ViewInv
    BY DEF Init, SourceInv, ViewInv
  <2>4. QED
    BY <2>1, <2>2, <2>3, Halves DEF IInv
<1>2. IInv /\ [Next]_vars => IInv'
  <2> SUFFICES ASSUME IInv, [Next]_vars PROVE IInv'
    OBVIOUS
  <2>1. LogInv' /\ RowsInv' /\ OneRowPerStream'
    BY RowsStep
  <2>2. SessionOK' /\ PeersOK'
    BY TypeStep, Halves DEF IInv
  <2>3. TypeOK'
    <3>1. \A i \in 1..Len(log') : log'[i] \in Rows
      BY <2>1 DEF LogInv
    <3>2. QED
      BY <2>2, <3>1, RowTypes DEF TypeOK, SessionOK, PeersOK
  <2>4. SourceInv'
    BY SourceStep DEF IInv
  <2>5. ViewInv'
    BY ViewStep DEF IInv
  <2>6. QED
    BY <2>1, <2>3, <2>4, <2>5 DEF IInv
<1>3. QED
  BY <1>1, <1>2, PTL DEF Spec

\* Every variable has a value of its type; in particular no outbound queue ever
\* holds more frames than its capacity.
THEOREM Types == Spec => []TypeOK
<1>1. IInv => TypeOK
  BY DEF IInv
<1>2. QED
  BY Invariant, <1>1, PTL

\* Whatever commits and connections come and go, a live subscriber that has been
\* sent its queue shows the session: its status, message queue and drafts, and
\* the last rows of its transcript, none missing and none twice.
THEOREM ViewsFollow == Spec => []StreamExact
<1>1. IInv => StreamExact
  BY ViewsAreExact DEF IInv
<1>2. QED
  BY Invariant, <1>1, PTL

\* A block of output has one row, its final event or its interrupted draft, unless
\* an error cut its draft and it ended late: then it has these two, in this order.
THEOREM OneRow == Spec => []OneRowPerStream
<1>1. IInv => OneRowPerStream
  BY DEF IInv
<1>2. QED
  BY Invariant, <1>1, PTL

\* A draft with content leaves the registry only together with a row that keeps it.
THEOREM NothingIsLost == Spec => NoSilentLoss
<1>1. IInv /\ [Next]_vars => [Kept]_vars
  BY LossStep DEF IInv
<1>2. QED
  BY Invariant, <1>1, PTL DEF Spec, NoSilentLoss, Kept
=============================================================================
