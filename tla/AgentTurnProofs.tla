---------------------------- MODULE AgentTurnProofs ---------------------------
(***************************************************************************)
(* Theorems about AgentTurn: commands run by approval, the lock is held by *)
(* a live call, a request has one reply, Stop starts nothing and a turn    *)
(* leaves nothing, for any number of requests and calls.                   *)
(***************************************************************************)
EXTENDS AgentTurn, FoldLemmas

\* The line has no call twice, its calls are those in line and the first is served.
LineInv ==
    /\ \A i, j \in 1 .. Len(line) : line[i] = line[j] => i = j
    /\ \A i \in 1 .. Len(line) : InLine(line[i])
    /\ \A c \in Calls : InLine(c) => \E i \in 1 .. Len(line) : line[i] = c
    /\ \A c \in Calls : call[c] \in {"asking", "running", "cleaning"} =>
          line # <<>> /\ Head(line) = c

\* The agent has asked x and has no reply to it.
Open(x) == x \in sent /\ replies[x] = 0

Same(m1, m2) == m1[1] = m2[1] /\ m1[2] = m2[2]

\* A request in the agent's output is there once, and nowhere else.
PipeInv ==
    /\ \A i, j \in 1 .. Len(pipe) :
          pipe[i][1] \in {"native", "call"} /\ Same(pipe[i], pipe[j]) => i = j
    /\ \A i \in 1 .. Len(pipe) :
          LET x == pipe[i][2] IN
          /\ pipe[i][1] = "call" => x \in Calls /\ Open(x) /\ call[x] = "none"
          /\ pipe[i][1] = "native" =>
                x \in Natives /\ Open(x) /\ x # held /\ x \notin resolvers

\* So is a request that waits for the generator.
EventInv ==
    /\ \A i, j \in 1 .. Len(events) :
          events[i][1] = "native" /\ Same(events[i], events[j]) => i = j
    /\ \A i \in 1 .. Len(events) :
          LET x == events[i][2] IN
          /\ events[i][1] = "native" =>
                /\ claude /\ x \in Natives /\ Open(x) /\ x # held
                /\ \A j \in 1 .. Len(pipe) : ~Same(pipe[j], events[i])
          /\ events[i][1] = "approval" => x \in Asks

\* What a call has been replied in each of its states.
CallReplies(c) ==
    /\ c \notin sent => call[c] = "none"
    /\ call[c] = "none" \/ InLine(c) \/ call[c] = "created" => replies[c] = 0
    /\ call[c] \in {"replying", "failing", "replied"} => replies[c] = 1
    /\ call[c] = "dropped" => replies[c] <= 1 /\ (claude => replies[c] = 0)
    /\ call[c] = "late" => pi /\ replies[c] <= 2

\* What is asked for or executed has no reply yet.
ReplyInv ==
    /\ \A c \in Calls : CallReplies(c)
    /\ \A n \in Natives : replies[n] <= 1
    /\ \A x \in Asks : x \notin sent => replies[x] = 0
    /\ held # None => claude /\ Open(held)
    /\ \A n \in resolvers : pi /\ Open(n)

\* Once Stop has begun the calls only end, and the reader makes none.
StopInv ==
    /\ stop # "none" =>
          /\ \A c \in Calls : call[c] \notin {"created", "queued", "asking", "running"}
          /\ (claude => reader = "done") /\ (pi => ~registered)
    /\ stop = "cleared" \/ stop = "stopped" => LiveCalls = {}

\* What each step of the finally has ended stays ended.
PhaseInv ==
    /\ claude => resolvers = {}
    /\ gen \in {"reading", "joining", "stopping", "killed", "ended", "cut"} => reader = "done"
    /\ gen \in {"stopping", "killed", "ended"} => LiveCalls = {}
    /\ pi /\ gen \in {"stopping", "killed"} => pending = {}
    /\ gen = "ended" => pending = {} /\ resolvers = {}

\* A process that is registered no more has been killed, save Pi's by the turn that
\* is about to do so, or by Stop, which has found it then.
ProcInv ==
    /\ gen \in {"killed", "ended"} => proc # "up"
    /\ gen = "ended" => ~registered
    /\ claude /\ ~registered => proc # "up"
    /\ pi /\ ~registered /\ ~found => gen \in {"stopping", "killed", "ended", "cut"}
    /\ stop = "none" => ~found
    /\ (stop = "cleared" \/ stop = "stopped") /\ ~found => ~registered
    /\ stop = "stopped" /\ found => ~registered /\ proc # "up"

IInv ==
    /\ TypeOK /\ RunsByApproval /\ StopInv /\ PhaseInv /\ ProcInv
    /\ LineInv /\ PipeInv /\ EventInv /\ ReplyInv

\* The step of StopStartsNothing.
StartsNothing ==
    stop # "none" =>
         \A c \in Calls : call'[c] \in {"asking", "running"} => call'[c] = call[c]

-----------------------------------------------------------------------------
(* Sequences *)

\* The elements of a sequence without its first.
LEMMA TailIndex ==
    ASSUME NEW E, NEW q \in Seq(E), q # <<>>
    PROVE  /\ Len(q) \in Nat \ {0} /\ Head(q) = q[1] /\ 1 \in 1 .. Len(q) /\ Head(q) \in E
           /\ Tail(q) \in Seq(E) /\ Len(Tail(q)) = Len(q) - 1
           /\ \A i \in 1 .. Len(Tail(q)) :
                 Tail(q)[i] = q[i + 1] /\ i + 1 \in 1 .. Len(q) /\ i + 1 # 1
           /\ \A i \in 1 .. Len(q) : i # 1 => i - 1 \in 1 .. Len(Tail(q)) /\ q[i] = Tail(q)[i - 1]
  OBVIOUS

\* The elements of a sequence with one more.
LEMMA AppendIndex ==
    ASSUME NEW E, NEW q \in Seq(E), NEW e \in E
    PROVE  /\ Append(q, e) \in Seq(E) /\ Len(q) \in Nat /\ Len(Append(q, e)) = Len(q) + 1
           /\ \A i \in 1 .. Len(q) : Append(q, e)[i] = q[i] /\ i \in 1 .. Len(Append(q, e))
           /\ Append(q, e)[Len(q) + 1] = e /\ Len(q) + 1 \in 1 .. Len(Append(q, e))
           /\ \A i \in 1 .. Len(Append(q, e)) : i \in 1 .. Len(q) \/ i = Len(q) + 1
           /\ Append(q, e) # <<>>
           /\ q = <<>> => Head(Append(q, e)) = e
           /\ q # <<>> => Head(Append(q, e)) = Head(q)
<1>1. /\ Append(q, e) \in Seq(E) /\ Len(q) \in Nat /\ Len(Append(q, e)) = Len(q) + 1
      /\ \A i \in 1 .. Len(q) : Append(q, e)[i] = q[i]
      /\ Append(q, e)[Len(q) + 1] = e
  OBVIOUS
<1>2. /\ \A i \in 1 .. Len(q) : i \in 1 .. Len(Append(q, e))
      /\ Len(q) + 1 \in 1 .. Len(Append(q, e))
      /\ \A i \in 1 .. Len(Append(q, e)) : i \in 1 .. Len(q) \/ i = Len(q) + 1
  BY <1>1
<1>3. Append(q, e) # <<>>
  BY <1>1
<1>4. Head(Append(q, e)) = Append(q, e)[1]
  BY <1>1, <1>3
<1>5. q = <<>> => Head(Append(q, e)) = e
  BY <1>1, <1>4
<1>6. q # <<>> => Head(Append(q, e)) = Head(q)
  <2>1. q # <<>> => Len(q) > 0 /\ Head(q) = q[1]
    OBVIOUS
  <2>2. QED
    BY <1>1, <1>4, <2>1
<1>7. QED
  BY <1>1, <1>2, <1>3, <1>5, <1>6

\* What the fold in Without goes through.
WithoutTrace(g, q, S) ==
    /\ g[0] = <<>>
    /\ \A i \in 1 .. Len(q) : g[i] = IF q[i] \in S THEN g[i - 1] ELSE Append(g[i - 1], q[i])

\* It is the value of Without.
LEMMA WithoutFolds ==
    ASSUME NEW E, NEW q \in Seq(E), NEW S
    PROVE  \E g : WithoutTrace(g, q, S) /\ Without(q, S) = g[Len(q)]
<1> DEFINE n == Len(q)
           h == [p \in (1 .. n) \X Seq(E) |->
                    IF q[p[1]] \in S THEN p[2] ELSE Append(p[2], q[p[1]])]
           IsFold(k) == k = [U \in SUBSET (1 .. n) |->
                    IF U = {} THEN <<>>
                    ELSE IF q[Max(U)] \in S THEN k[U \ {Max(U)}]
                         ELSE Append(k[U \ {Max(U)}], q[Max(U)])]
           k == CHOOSE k : IsFold(k)
           t == [i \in 0 .. n |-> k[1 .. i]]
<1>1. n \in Nat /\ DOMAIN q = 1 .. n /\ <<>> \in Seq(E)
  OBVIOUS
<1>2. h \in [(1 .. n) \X Seq(E) -> Seq(E)]
  OBVIOUS
<1>3. PICK g \in [SUBSET (1 .. n) -> Seq(E)] : FoldsUpTo(g, n, <<>>, h)
  <2> HIDE DEF n, h
  <2> QED BY <1>1, <1>2, PrefixFolds
<1>4. IsFold(g)
  <2>1. ASSUME NEW U \in SUBSET (1 .. n), U # {}
        PROVE  g[U] = IF q[Max(U)] \in S THEN g[U \ {Max(U)}]
                      ELSE Append(g[U \ {Max(U)}], q[Max(U)])
    <3>1. Max(U) \in 1 .. n /\ U \ {Max(U)} \in SUBSET (1 .. n)
      BY <1>1, <2>1, MaxPicks
    <3>2. QED
      BY <1>3, <2>1, <3>1 DEF FoldsUpTo
  <2>2. g[{}] = <<>>
    BY <1>3 DEF FoldsUpTo
  <2>3. QED
    BY <1>3, <2>1, <2>2
<1>5. IsFold(k)
  BY <1>4
<1>6. Without(q, S) = k[1 .. n]
  BY <1>1 DEF Without, FoldLeft, MapThenFoldSet
<1> HIDE DEF k
<1>7. WithoutTrace(t, q, S)
  <2>1. t[0] = <<>>
    <3>1. {} \in SUBSET (1 .. n) /\ 1 .. 0 = {} /\ 0 \in 0 .. n
      BY <1>1
    <3>2. QED
      BY <1>5, <3>1
  <2>2. ASSUME NEW i \in 1 .. n
        PROVE  t[i] = IF q[i] \in S THEN t[i - 1] ELSE Append(t[i - 1], q[i])
    <3>1. /\ 1 .. i \in SUBSET (1 .. n) /\ 1 .. i # {} /\ (1 .. i) \ {i} = 1 .. (i - 1)
          /\ i \in 0 .. n /\ i - 1 \in 0 .. n
      BY <1>1
    <3>2. Max(1 .. i) = i
      BY MaxPicks, <1>1
    <3>3. QED
      BY <1>5, <3>1, <3>2
  <2>3. QED
    BY <2>1, <2>2 DEF WithoutTrace
<1>8. t[n] = k[1 .. n]
  BY <1>1
<1>9. QED
  BY <1>6, <1>7, <1>8

\* Those that stay keep their places, the first among them, and no others do.
Keeps(r, q, S, n) ==
    /\ \A i, j \in 1 .. Len(r) : r[i] = r[j] => i = j
    /\ \A i \in 1 .. Len(r) : r[i] \notin S /\ \E j \in 1 .. n : q[j] = r[i]
    /\ \A j \in 1 .. n : q[j] \notin S => \E i \in 1 .. Len(r) : r[i] = q[j]
    /\ n > 0 /\ q[1] \notin S => r # <<>> /\ Head(r) = q[1]

\* So it is with what Without leaves of a line nobody is in twice.
LEMMA WithoutKeeps ==
    ASSUME NEW E, NEW q \in Seq(E), NEW S,
           \A i, j \in 1 .. Len(q) : q[i] = q[j] => i = j
    PROVE  Without(q, S) \in Seq(E) /\ Keeps(Without(q, S), q, S, Len(q))
<1> PICK g : WithoutTrace(g, q, S) /\ Without(q, S) = g[Len(q)]
  BY WithoutFolds
<1> DEFINE Good(i) == g[i] \in Seq(E) /\ Keeps(g[i], q, S, i)
           Bad == {i \in 0 .. Len(q) : ~Good(i)}
<1>1. Len(q) \in Nat /\ \A i \in 1 .. Len(q) : q[i] \in E
  OBVIOUS
<1>2. Good(0)
  <2>1. g[0] = <<>> /\ <<>> \in Seq(E) /\ Len(<<>>) = 0
    BY DEF WithoutTrace
  <2>2. QED
    BY <2>1 DEF Keeps
<1>3. ASSUME NEW i \in 1 .. Len(q), Good(i - 1) PROVE Good(i)
  <2> DEFINE r == g[i - 1]
  <2>1. i \in Nat /\ i - 1 \in Nat /\ \A j \in 1 .. i : j \in 1 .. (i - 1) \/ j = i
    BY <1>1
  <2>2. r \in Seq(E) /\ Keeps(r, q, S, i - 1)
    BY <1>3
  <2>3. \A j \in 1 .. (i - 1) : q[j] # q[i]
    BY <1>1
  <2>4. CASE q[i] \in S
    <3>1. g[i] = r
      BY <2>4 DEF WithoutTrace
    <3> HIDE DEF r
    <3>2. Keeps(r, q, S, i)
      <4>1. i > 0 /\ q[1] \notin S => i - 1 > 0
        BY <2>4, <2>1
      <4>2. \A j \in 1 .. (i - 1) : j \in 1 .. i
        BY <2>1
      <4>3. QED
        BY <2>1, <2>2, <2>4, <4>1, <4>2 DEF Keeps
    <3>3. QED
      BY <2>2, <3>1, <3>2
  <2>5. CASE q[i] \notin S
    <3> DEFINE a == Append(r, q[i])
    <3>1. g[i] = a
      BY <2>5 DEF WithoutTrace
    <3> HIDE DEF r
    <3>2. /\ a \in Seq(E) /\ Len(r) \in Nat /\ Len(a) = Len(r) + 1
          /\ \A k \in 1 .. Len(r) : a[k] = r[k] /\ k \in 1 .. Len(a)
          /\ a[Len(r) + 1] = q[i] /\ Len(r) + 1 \in 1 .. Len(a)
          /\ \A k \in 1 .. Len(a) : k \in 1 .. Len(r) \/ k = Len(r) + 1
          /\ a # <<>>
          /\ r = <<>> => Head(a) = q[i]
          /\ r # <<>> => Head(a) = Head(r)
      BY <1>1, <2>2, AppendIndex
    <3> HIDE DEF a
    <3>3. \A k \in 1 .. Len(r) : r[k] # q[i]
      BY <2>2, <2>3 DEF Keeps
    <3>4. \A k, m \in 1 .. Len(a) : a[k] = a[m] => k = m
      BY <2>2, <3>2, <3>3 DEF Keeps
    <3>5. \A k \in 1 .. Len(a) : a[k] \notin S /\ \E j \in 1 .. i : q[j] = a[k]
      <4>1. i \in 1 .. i /\ \A j \in 1 .. (i - 1) : j \in 1 .. i
        BY <2>1
      <4>2. ASSUME NEW k \in 1 .. Len(r)
            PROVE  a[k] \notin S /\ \E j \in 1 .. i : q[j] = a[k]
        <5>1. a[k] = r[k] /\ r[k] \notin S /\ \E j \in 1 .. (i - 1) : q[j] = r[k]
          BY <2>2, <3>2 DEF Keeps
        <5>2. QED
          BY <4>1, <5>1
      <4>3. a[Len(r) + 1] \notin S /\ \E j \in 1 .. i : q[j] = a[Len(r) + 1]
        BY <2>5, <3>2, <4>1
      <4>4. QED
        BY <3>2, <4>2, <4>3
    <3>6. \A j \in 1 .. i : q[j] \notin S => \E k \in 1 .. Len(a) : a[k] = q[j]
      BY <2>1, <2>2, <3>2 DEF Keeps
    <3>7. q[1] \notin S => Head(a) = q[1]
      <4>1. CASE i = 1
        <5>1. \A k \in 1 .. Len(r) : FALSE
          BY <2>2, <4>1 DEF Keeps
        <5>2. r = <<>>
          BY <2>2, <3>2, <5>1
        <5>3. QED
          BY <3>2, <4>1, <5>2
      <4>2. CASE i # 1
        <5>1. i - 1 > 0
          BY <2>1, <4>2
        <5>2. QED
          BY <2>2, <3>2, <5>1 DEF Keeps
      <4>3. QED
        BY <4>1, <4>2
    <3>8. Keeps(a, q, S, i)
      BY <3>2, <3>4, <3>5, <3>6, <3>7 DEF Keeps
    <3>9. QED
      BY <3>1, <3>2, <3>8
  <2>6. QED
    BY <2>4, <2>5
<1> HIDE DEF Good
<1>4. Bad = {}
  <2>1. SUFFICES ASSUME Bad # {} PROVE FALSE
    OBVIOUS
  <2>2. Bad \in SUBSET Nat
    BY <1>1
  <2>3. PICK i \in Bad : \A m \in Bad : i <= m
    <3> HIDE DEF Bad
    <3> QED BY <2>1, <2>2, LeastNumber
  <2>4. i # 0 /\ i \in 0 .. Len(q) /\ ~Good(i)
    BY <1>2, <2>3
  <2>5. i \in 1 .. Len(q) /\ i - 1 \in 0 .. Len(q) /\ ~(i <= i - 1)
    BY <1>1, <2>4
  <2>6. i - 1 \notin Bad
    BY <2>3, <2>5
  <2>7. Good(i - 1)
    BY <2>5, <2>6
  <2>8. QED
    BY <1>3, <2>4, <2>5, <2>7
<1>5. Good(Len(q))
  BY <1>1, <1>4
<1>6. QED
  BY <1>5 DEF Good

-----------------------------------------------------------------------------
(* What several steps do *)

\* The next message, and those behind it.
LEMMA NextMessage ==
    ASSUME TypeOK, PipeInv, pipe # <<>>
    PROVE  LET m == Head(pipe)
               x == Head(pipe)[2]
               rest == Tail(pipe)
           IN  /\ rest \in Seq(Messages) /\ x \in Asks \cup {None}
               /\ m[1] = "call" => x \in Calls /\ Open(x) /\ call[x] = "none"
               /\ m[1] = "native" => x \in Natives /\ Open(x) /\ x # held /\ x \notin resolvers
               /\ \A i \in 1 .. Len(rest) : m[1] \in {"native", "call"} => ~Same(m, rest[i])
               /\ \A i \in 1 .. Len(rest) : \E j \in 1 .. Len(pipe) : rest[i] = pipe[j]
               /\ \A i, j \in 1 .. Len(rest) :
                     rest[i][1] \in {"native", "call"} /\ Same(rest[i], rest[j]) => i = j
<1>1. /\ Len(pipe) \in Nat \ {0} /\ Head(pipe) = pipe[1] /\ 1 \in 1 .. Len(pipe)
      /\ Head(pipe) \in Messages
      /\ Tail(pipe) \in Seq(Messages) /\ Len(Tail(pipe)) = Len(pipe) - 1
      /\ \A i \in 1 .. Len(Tail(pipe)) :
            Tail(pipe)[i] = pipe[i + 1] /\ i + 1 \in 1 .. Len(pipe) /\ i + 1 # 1
  <2>1. pipe \in Seq(Messages)
    BY DEF TypeOK
  <2> HIDE DEF Messages
  <2>2. QED
    BY <2>1, TailIndex
<1>2. Head(pipe)[2] \in Asks \cup {None}
  BY <1>1 DEF Messages
<1>3. \A i \in 1 .. Len(Tail(pipe)) :
         Head(pipe)[1] \in {"native", "call"} => ~Same(Head(pipe), Tail(pipe)[i])
  BY <1>1 DEF PipeInv
<1>4. \A i, j \in 1 .. Len(Tail(pipe)) :
         Tail(pipe)[i][1] \in {"native", "call"} /\ Same(Tail(pipe)[i], Tail(pipe)[j]) => i = j
  <2> SUFFICES ASSUME NEW i \in 1 .. Len(Tail(pipe)), NEW j \in 1 .. Len(Tail(pipe)),
                      Tail(pipe)[i][1] \in {"native", "call"},
                      Same(Tail(pipe)[i], Tail(pipe)[j])
               PROVE  i = j
    OBVIOUS
  <2>1. i + 1 = j + 1
    BY <1>1 DEF PipeInv
  <2>2. QED
    BY <1>1, <2>1
<1>5. \A i \in 1 .. Len(Tail(pipe)) : \E j \in 1 .. Len(pipe) : Tail(pipe)[i] = pipe[j]
  BY <1>1
<1>6. QED
  BY <1>1, <1>2, <1>3, <1>4, <1>5 DEF PipeInv

\* The next event, and those behind it.
LEMMA NextEvent ==
    ASSUME TypeOK, EventInv, events # <<>>
    PROVE  LET m == Head(events)
               x == Head(events)[2]
               rest == Tail(events)
           IN  /\ rest \in Seq(Messages)
               /\ m[1] = "native" => /\ claude /\ x \in Natives /\ Open(x) /\ x # held
                                     /\ \A j \in 1 .. Len(pipe) : ~Same(pipe[j], m)
               /\ m[1] = "approval" => x \in Asks
               /\ \A i \in 1 .. Len(rest) : m[1] = "native" => ~Same(m, rest[i])
               /\ \A i \in 1 .. Len(rest) : \E j \in 1 .. Len(events) : rest[i] = events[j]
               /\ \A i, j \in 1 .. Len(rest) :
                     rest[i][1] = "native" /\ Same(rest[i], rest[j]) => i = j
<1>1. /\ Len(events) \in Nat \ {0} /\ Head(events) = events[1] /\ 1 \in 1 .. Len(events)
      /\ Tail(events) \in Seq(Messages) /\ Len(Tail(events)) = Len(events) - 1
      /\ \A i \in 1 .. Len(Tail(events)) :
            Tail(events)[i] = events[i + 1] /\ i + 1 \in 1 .. Len(events) /\ i + 1 # 1
  <2>1. events \in Seq(Messages)
    BY DEF TypeOK
  <2> HIDE DEF Messages
  <2>2. QED
    BY <2>1, TailIndex
<1>2. \A i \in 1 .. Len(Tail(events)) :
         Head(events)[1] = "native" => ~Same(Head(events), Tail(events)[i])
  BY <1>1 DEF EventInv
<1>3. \A i, j \in 1 .. Len(Tail(events)) :
         Tail(events)[i][1] = "native" /\ Same(Tail(events)[i], Tail(events)[j]) => i = j
  <2> SUFFICES ASSUME NEW i \in 1 .. Len(Tail(events)), NEW j \in 1 .. Len(Tail(events)),
                      Tail(events)[i][1] = "native", Same(Tail(events)[i], Tail(events)[j])
               PROVE  i = j
    OBVIOUS
  <2>1. i + 1 = j + 1
    BY <1>1 DEF EventInv
  <2>2. QED
    BY <1>1, <2>1
<1>4. \A i \in 1 .. Len(Tail(events)) : \E j \in 1 .. Len(events) : Tail(events)[i] = events[j]
  BY <1>1
<1>5. QED
  BY <1>1, <1>2, <1>3, <1>4 DEF EventInv

\* The call that is served goes on, or leaves the line to the next.
LEMMA ServedStep ==
    ASSUME TypeOK, LineInv, NEW c \in Calls, call[c] \in {"asking", "running", "cleaning"},
           \/ \E v \in {"replying", "failing", "dropped"} :
                 call' = [call EXCEPT ![c] = v] /\ line' = Tail(line)
           \/ call' = [call EXCEPT ![c] = "running"] /\ line' = line
    PROVE  LineInv'
<1> USE DEF InLine
<1>1. line # <<>> /\ Head(line) = c
  BY DEF LineInv
<1>2. line \in Seq(Calls)
  BY DEF TypeOK
<1>3. /\ Len(line) \in Nat \ {0} /\ line[1] = c /\ 1 \in 1 .. Len(line)
      /\ Tail(line) \in Seq(Calls)
      /\ \A i \in 1 .. Len(Tail(line)) :
            Tail(line)[i] = line[i + 1] /\ i + 1 \in 1 .. Len(line) /\ i + 1 # 1
      /\ \A i \in 1 .. Len(line) :
            i # 1 => i - 1 \in 1 .. Len(Tail(line)) /\ line[i] = Tail(line)[i - 1]
  BY <1>1, <1>2, TailIndex
<1>4. \A d \in Calls : call[d] \in {"asking", "running", "cleaning"} => d = c
  BY <1>1 DEF LineInv
<1>5. CASE call' = [call EXCEPT ![c] = "running"] /\ line' = line
  <2>1. \A d \in Calls : call'[d] = IF d = c THEN "running" ELSE call[d]
    BY <1>5 DEF TypeOK
  <2>2. \A i \in 1 .. Len(line) : line[i] \in Calls
    BY <1>2
  <2>3. QED
    BY <1>1, <1>4, <1>5, <2>1, <2>2 DEF LineInv
<1>6. CASE \E v \in {"replying", "failing", "dropped"} :
             call' = [call EXCEPT ![c] = v] /\ line' = Tail(line)
  <2> PICK v \in {"replying", "failing", "dropped"} : call' = [call EXCEPT ![c] = v]
    BY <1>6
  <2>1. \A d \in Calls : call'[d] = IF d = c THEN v ELSE call[d]
    BY DEF TypeOK
  <2>2. \A i, j \in 1 .. Len(line') : line'[i] = line'[j] => i = j
    <3> SUFFICES ASSUME NEW i \in 1 .. Len(line'), NEW j \in 1 .. Len(line'),
                        line'[i] = line'[j]
                 PROVE  i = j
      OBVIOUS
    <3>1. i + 1 = j + 1
      BY <1>3, <1>6 DEF LineInv
    <3>2. QED
      BY <1>3, <1>6, <3>1
  <2>3. ASSUME NEW i \in 1 .. Len(line')
        PROVE  call'[line'[i]] \in {"queued", "asking", "running", "cleaning"}
    <3>1. line'[i] = line[i + 1] /\ i + 1 \in 1 .. Len(line) /\ i + 1 # 1
      BY <1>3, <1>6
    <3>2. line[i + 1] # c /\ line[i + 1] \in Calls
      BY <1>2, <1>3, <3>1 DEF LineInv
    <3>3. call[line[i + 1]] \in {"queued", "asking", "running", "cleaning"}
      BY <3>1 DEF LineInv
    <3>4. QED
      BY <2>1, <3>1, <3>2, <3>3
  <2>4. ASSUME NEW d \in Calls, call'[d] \in {"queued", "asking", "running", "cleaning"}
        PROVE  \E i \in 1 .. Len(line') : line'[i] = d
    <3>1. d # c /\ InLine(d)
      BY <2>1, <2>4
    <3>2. PICK i \in 1 .. Len(line) : line[i] = d
      BY <3>1 DEF LineInv
    <3>3. i # 1
      BY <1>3, <3>1, <3>2
    <3>4. QED
      BY <1>3, <1>6, <3>2, <3>3
  <2>5. \A d \in Calls : call'[d] \notin {"asking", "running", "cleaning"}
    BY <1>4, <2>1
  <2>6. QED
    BY <2>2, <2>3, <2>4, <2>5 DEF LineInv
<1>7. QED
  BY <1>5, <1>6

\* Calls that are cancelled leave the line unless they run, and the others keep
\* their places.
LEMMA CancelStep ==
    ASSUME TypeOK, LineInv, NEW S \in SUBSET LiveCalls, CancelCalls(S)
    PROVE  /\ LineInv' /\ line' \in Seq(Calls) /\ pending' \subseteq Asks
           /\ call' \in [Calls -> CallStates]
           /\ replies' \in [Asks -> Nat]
           /\ \A c \in Calls : call'[c] = IF c \in S THEN Cancelled(c) ELSE call[c]
           /\ \A x \in Asks : replies'[x] = IF x \in S \cap ToldOfCancel THEN replies[x] + 1
                                            ELSE replies[x]
<1> DEFINE Gone == {c \in S : Cancelled(c) = "dropped"}
<1>0. S \subseteq Calls
  BY DEF LiveCalls
<1>1. /\ call' \in [Calls -> CallStates]
      /\ \A c \in Calls : call'[c] = IF c \in S THEN Cancelled(c) ELSE call[c]
  BY DEF CancelCalls, TypeOK, CallStates, Cancelled
<1>2. /\ replies' \in [Asks -> Nat] /\ pending' \subseteq Asks
      /\ \A x \in Asks : replies'[x] = IF x \in S \cap ToldOfCancel THEN replies[x] + 1
                                       ELSE replies[x]
  BY DEF CancelCalls, TypeOK
<1>3. line \in Seq(Calls)
  BY DEF TypeOK
<1>4. line' \in Seq(Calls) /\ Keeps(line', line, Gone, Len(line))
  BY <1>3, WithoutKeeps DEF CancelCalls, LineInv
<1>5. \A c \in Calls :
         /\ InLine(c) /\ c \notin Gone => InLine(c)'
         /\ InLine(c)' => InLine(c) /\ c \notin Gone
         /\ call'[c] \in {"asking", "running", "cleaning"} =>
               call[c] \in {"asking", "running", "cleaning"}
  BY <1>0, <1>1 DEF InLine, Cancelled
<1> HIDE DEF Gone
<1>6. LineInv'
  <2>1. \A i, j \in 1 .. Len(line') : line'[i] = line'[j] => i = j
    BY <1>4 DEF Keeps
  <2>2. \A i \in 1 .. Len(line') : call'[line'[i]] \in {"queued", "asking", "running", "cleaning"}
    <3> SUFFICES ASSUME NEW i \in 1 .. Len(line')
                 PROVE  call'[line'[i]] \in {"queued", "asking", "running", "cleaning"}
      OBVIOUS
    <3>1. PICK j \in 1 .. Len(line) : line[j] = line'[i]
      BY <1>4 DEF Keeps
    <3>2. line'[i] \notin Gone /\ line'[i] \in Calls
      BY <1>4 DEF Keeps
    <3>3. InLine(line'[i])
      BY <3>1 DEF LineInv, InLine
    <3>4. QED
      BY <1>5, <3>2, <3>3 DEF InLine
  <2>3. ASSUME NEW c \in Calls, call'[c] \in {"queued", "asking", "running", "cleaning"}
        PROVE  \E i \in 1 .. Len(line') : line'[i] = c
    <3>1. c \notin Gone /\ InLine(c)
      BY <1>5, <2>3 DEF InLine
    <3>2. PICK j \in 1 .. Len(line) : line[j] = c
      BY <3>1 DEF LineInv
    <3>3. QED
      BY <1>4, <3>1, <3>2 DEF Keeps
  <2>4. ASSUME NEW c \in Calls, call'[c] \in {"asking", "running", "cleaning"}
        PROVE  line' # <<>> /\ Head(line') = c
    <3>1. c \notin Gone /\ call[c] \in {"asking", "running", "cleaning"}
      BY <1>5, <2>4 DEF InLine
    <3>2. line # <<>> /\ Head(line) = c
      BY <3>1 DEF LineInv
    <3>3. Len(line) > 0 /\ line[1] = c
      BY <1>3, <3>2
    <3>4. QED
      BY <1>4, <3>1, <3>3 DEF Keeps
  <2>5. QED
    BY <2>1, <2>2, <2>3, <2>4 DEF LineInv, InLine
<1>7. QED
  BY <1>1, <1>2, <1>4, <1>6

\* Events stay as they are while what they ask is open and their requests are not
\* in the agent's output.
LEMMA EventsKept ==
    ASSUME EventInv, UNCHANGED <<kind, events>>,
           \A i \in 1 .. Len(pipe') :
              pipe'[i][1] = "native" => \E j \in 1 .. Len(pipe) : pipe'[i] = pipe[j],
           \A i \in 1 .. Len(events) : events[i][1] = "native" =>
              events[i][2] \in sent' /\ replies'[events[i][2]] = 0 /\ events[i][2] # held'
    PROVE  EventInv'
<1>1. ASSUME NEW i \in 1 .. Len(events), events[i][1] = "native", NEW j \in 1 .. Len(pipe')
      PROVE  ~Same(pipe'[j], events[i])
  <2>1. \A k \in 1 .. Len(pipe) : ~Same(pipe[k], events[i])
    BY <1>1 DEF EventInv
  <2>2. QED
    BY <1>1, <2>1 DEF Same
<1>2. QED
  BY <1>1 DEF EventInv, Open, claude

\* So they do when nothing of them changes.
LEMMA EventsUntouched ==
    ASSUME EventInv, UNCHANGED <<kind, pipe, events, sent, held, replies>>
    PROVE  EventInv'
<1>1. \A i \in 1 .. Len(events) : events[i][1] = "native" =>
         events[i][2] \in sent' /\ replies'[events[i][2]] = 0 /\ events[i][2] # held'
  BY DEF EventInv, Open
<1>2. QED
  BY <1>1, EventsKept

\* So they do when one or two that are not requests of Claude follow.
LEMMA EventsAppended ==
    ASSUME TypeOK, EventInv, UNCHANGED kind, NEW m \in Messages, NEW k \in Messages,
           m[1] # "native", k[1] # "native", m[1] = "approval" => m[2] \in Asks,
           k[1] # "approval",
           \/ events' = Append(events, m)
           \/ events' = events \o <<m>>
           \/ events' = events \o <<m, k>>,
           \A i \in 1 .. Len(pipe') :
              pipe'[i][1] = "native" => \E j \in 1 .. Len(pipe) : pipe'[i] = pipe[j],
           \A i \in 1 .. Len(events) : events[i][1] = "native" =>
              events[i][2] \in sent' /\ replies'[events[i][2]] = 0 /\ events[i][2] # held'
    PROVE  EventInv'
<1>1. ASSUME NEW i \in 1 .. Len(events), events[i][1] = "native", NEW j \in 1 .. Len(pipe')
      PROVE  ~Same(pipe'[j], events[i])
  <2>1. \A h \in 1 .. Len(pipe) : ~Same(pipe[h], events[i])
    BY <1>1 DEF EventInv
  <2>2. QED
    BY <1>1, <2>1 DEF Same
<1>2. events \in Seq(Messages)
  BY DEF TypeOK
<1>3. /\ Len(events) \in Nat
      /\ \A i \in 1 .. Len(events) : events'[i] = events[i]
      /\ \A i \in 1 .. Len(events') : i \in 1 .. Len(events) \/ events'[i] \in {m, k}
  <2>1. CASE events' = Append(events, m)
    BY <1>2, <2>1, AppendIndex
  <2>2. CASE events' = events \o <<m>>
    BY <1>2, <2>2
  <2>3. CASE events' = events \o <<m, k>>
    BY <1>2, <2>3
  <2>4. QED
    BY <2>1, <2>2, <2>3
<1>4. \A i, j \in 1 .. Len(events') :
         events'[i][1] = "native" /\ Same(events'[i], events'[j]) => i = j
  BY <1>3 DEF EventInv, Same
<1>5. ASSUME NEW i \in 1 .. Len(events')
      PROVE  /\ events'[i][1] = "native" =>
                  /\ claude' /\ events'[i][2] \in Natives
                  /\ events'[i][2] \in sent' /\ replies'[events'[i][2]] = 0
                  /\ events'[i][2] # held'
                  /\ \A j \in 1 .. Len(pipe') : ~Same(pipe'[j], events'[i])
             /\ events'[i][1] = "approval" => events'[i][2] \in Asks
  <2>1. CASE i \in 1 .. Len(events)
    BY <1>1, <1>3, <2>1 DEF EventInv, claude
  <2>2. CASE events'[i] \in {m, k}
    BY <2>2
  <2>3. QED
    BY <1>3, <2>1, <2>2
<1>6. QED
  BY <1>4, <1>5 DEF EventInv, Open

\* A call that is cancelled has the replies its new state goes with.
LEMMA CancelledReplies ==
    ASSUME TypeOK, ReplyInv, NEW S \in SUBSET LiveCalls, UNCHANGED <<kind, sent>>,
           \A c \in Calls : call'[c] = IF c \in S THEN Cancelled(c) ELSE call[c],
           \A y \in Asks : replies'[y] = IF y \in S \cap ToldOfCancel THEN replies[y] + 1
                                         ELSE replies[y]
    PROVE  /\ \A c \in Calls : CallReplies(c)'
           /\ \A y \in Asks : y \notin sent => replies'[y] = 0
           /\ \A n \in Natives : replies'[n] = replies[n]
<1> USE AgentTurnAssumption DEF Asks
<1>1. S \subseteq Calls
  BY DEF LiveCalls
<1>2. \A n \in Natives : n \notin S
  BY <1>1
<1>3. \A c \in S : call[c] # "none" /\ c \in sent
  BY <1>1 DEF ReplyInv, CallReplies, LiveCalls, Live, InLine
<1>4. ASSUME NEW c \in Calls PROVE CallReplies(c)'
  <2>0. CallReplies(c) /\ replies[c] \in Nat /\ call[c] \in CallStates
    BY DEF ReplyInv, TypeOK
  <2>1. CASE c \notin S
    BY <2>0, <2>1 DEF CallReplies, InLine, claude, pi
  <2>2. CASE c \in S
    <3>1. call'[c] = Cancelled(c)
          /\ replies'[c] = IF pi /\ call[c] \in {"queued", "asking", "replying"}
                           THEN replies[c] + 1 ELSE replies[c]
      BY <2>2 DEF ToldOfCancel
    <3>2. Live(c) /\ c \in sent
      BY <1>3, <2>2 DEF LiveCalls
    <3>3. QED
      BY <2>0, <3>1, <3>2 DEF CallReplies, InLine, Live, Cancelled, claude, pi
  <2>3. QED
    BY <2>1, <2>2
<1>5. QED
  BY <1>1, <1>2, <1>3, <1>4 DEF ReplyInv

\* So it is when calls are cancelled.
LEMMA CancelReplies ==
    ASSUME TypeOK, LineInv, ReplyInv, NEW S \in SUBSET LiveCalls, CancelCalls(S),
           UNCHANGED <<kind, sent>>
    PROVE  /\ \A c \in Calls : CallReplies(c)'
           /\ \A y \in Asks : y \notin sent => replies'[y] = 0
           /\ \A n \in Natives : replies'[n] = replies[n]
<1>1. /\ \A c \in Calls : call'[c] = IF c \in S THEN Cancelled(c) ELSE call[c]
      /\ \A y \in Asks : replies'[y] = IF y \in S \cap ToldOfCancel THEN replies[y] + 1
                                       ELSE replies[y]
  BY CancelStep
<1>2. QED
  BY <1>1, CancelledReplies

-----------------------------------------------------------------------------
(* Each part of the invariant *)

\* The initial state: nothing has been asked.
LEMMA InitInv == Init => IInv
<1> SUFFICES ASSUME Init PROVE IInv
  OBVIOUS
<1> USE AgentTurnAssumption DEF Init, Asks
<1>1. TypeOK
  <2>1. <<>> \in Seq(Messages) /\ <<>> \in Seq(Calls)
    OBVIOUS
  <2>2. QED
    BY <2>1 DEF TypeOK, CallStates
<1>2. RunsByApproval /\ StopInv /\ PhaseInv /\ ProcInv
  BY DEF RunsByApproval, StopInv, PhaseInv, ProcInv, LiveCalls, Live, InLine, claude, pi
<1>3. LineInv
  BY DEF LineInv, InLine
<1>4. PipeInv /\ EventInv
  BY DEF PipeInv, EventInv
<1>5. ReplyInv
  BY DEF ReplyInv, CallReplies, InLine
<1>6. QED
  BY <1>1, <1>2, <1>3, <1>4, <1>5 DEF IInv

\* Every step keeps the types.
LEMMA TypeStep ==
    ASSUME TypeOK, LineInv, PipeInv, EventInv, [Next]_vars
    PROVE  TypeOK'
<1> USE AgentTurnAssumption DEF Asks, Replied, claude, pi, agentVars, futureVars, turnVars
<1>1. ASSUME NEW x \in Asks, AgentAsks(x) PROVE TypeOK'
  <2>1. pipe' \in Seq(Messages)
    <3>1. pipe \in Seq(Messages) /\ \A t \in {"native", "call", "cancel", "done"} :
             \A y \in Asks \cup {None} : <<t, y>> \in Messages
      BY DEF Messages, TypeOK
    <3>2. QED
      BY <1>1, <3>1 DEF AgentAsks, AgentSays
  <2>2. QED
    BY <1>1, <2>1 DEF AgentAsks, AgentSays, TypeOK
<1>2. ASSUME NEW c \in Calls, AgentWithdraws(c) PROVE TypeOK'
  <2>1. pipe' \in Seq(Messages)
    <3>1. pipe \in Seq(Messages) /\ \A t \in {"native", "call", "cancel", "done"} :
             \A y \in Asks \cup {None} : <<t, y>> \in Messages
      BY DEF Messages, TypeOK
    <3>2. QED
      BY <1>2, <3>1 DEF AgentWithdraws, AgentSays
  <2>2. QED
    BY <1>2, <2>1 DEF AgentWithdraws, AgentSays, TypeOK
<1>3. ASSUME AgentSettles PROVE TypeOK'
  <2>1. pipe' \in Seq(Messages)
    <3>1. pipe \in Seq(Messages) /\ \A t \in {"native", "call", "cancel", "done"} :
             \A y \in Asks \cup {None} : <<t, y>> \in Messages
      BY DEF Messages, TypeOK
    <3>2. QED
      BY <1>3, <3>1 DEF AgentSettles, AgentSays
  <2>2. QED
    BY <1>3, <2>1 DEF AgentSettles, AgentSays, TypeOK
<1>4. ASSUME AgentExits PROVE TypeOK'
  BY <1>4 DEF AgentExits, TypeOK
<1>5. ASSUME Read PROVE TypeOK'
  <2> DEFINE m == Head(pipe)
             x == Head(pipe)[2]
  <2>1. /\ pipe' \in Seq(Messages) /\ x \in Asks \cup {None}
        /\ m[1] = "call" => x \in Calls
        /\ m[1] = "native" => x \in Natives
    BY <1>5, NextMessage DEF Read
  <2>2. /\ UNCHANGED <<kind, proc, sent, withdrawn, reader, decision, registered, found, turnVars,
                      stop>>
        /\ \/ m[1] = "native" /\ claude /\ events' = Append(events, m)
              /\ UNCHANGED <<call, line, pending, replies, resolvers>>
           \/ m[1] = "native" /\ pi /\ events' = Append(events, <<"approval", x>>)
              /\ pending' = pending \cup {x} /\ resolvers' = resolvers \cup {x}
              /\ UNCHANGED <<call, line, replies>>
           \/ m[1] = "call" /\ ReadCall(x) /\ UNCHANGED <<events, line, pending, resolvers>>
           \/ m[1] = "cancel" /\ CancelCalls({x} \cap LiveCalls) /\ UNCHANGED <<events, resolvers>>
           \/ m[1] = "done"
              /\ events' = events \o (IF pi THEN <<m, <<"eof", None>> >> ELSE <<m>>)
              /\ UNCHANGED <<call, line, pending, replies, resolvers>>
    BY <1>5 DEF Read
  <2>3. m \in Messages /\ <<"approval", x>> \in Messages /\ <<"eof", None>> \in Messages
    <3>1. m \in Messages
      BY <1>5 DEF Read, TypeOK
    <3>2. QED
      BY <2>1, <3>1 DEF Messages
  <2>4. /\ events' \in Seq(Messages) /\ pending' \subseteq Asks /\ resolvers' \subseteq Natives
        /\ call' \in [Calls -> CallStates]
        /\ line' \in Seq(Calls) /\ replies' \in [Asks -> Nat]
    <3>0. /\ events \in Seq(Messages) /\ pending \subseteq Asks /\ resolvers \subseteq Natives
          /\ call \in [Calls -> CallStates]
          /\ line \in Seq(Calls) /\ replies \in [Asks -> Nat]
      BY DEF TypeOK
    <3> HIDE DEF m, x
    <3>1. CASE m[1] = "native" /\ claude
      <4>1. events' = Append(events, m) /\ UNCHANGED <<call, line, pending, replies, resolvers>>
        BY <2>2, <3>1
      <4>2. Append(events, m) \in Seq(Messages)
        BY <2>3, <3>0, AppendIndex
      <4>3. QED
        BY <3>0, <4>1, <4>2
    <3>2. CASE m[1] = "native" /\ pi
      <4>1. /\ events' = Append(events, <<"approval", x>>)
            /\ pending' = pending \cup {x} /\ resolvers' = resolvers \cup {x}
            /\ UNCHANGED <<call, line, replies>> /\ x \in Natives
        BY <2>1, <2>2, <3>2
      <4>2. Append(events, <<"approval", x>>) \in Seq(Messages)
        BY <2>3, <3>0, AppendIndex
      <4>3. QED
        BY <3>0, <4>1, <4>2
    <3>3. CASE m[1] = "call"
      <4>1. ReadCall(x) /\ UNCHANGED <<events, line, pending, resolvers>> /\ x \in Calls
        BY <2>1, <2>2, <3>3
      <4>2. /\ call' = [call EXCEPT ![x] = "replied"] \/ call' = [call EXCEPT ![x] = "created"]
            /\ replies' = replies \/ replies' = [replies EXCEPT ![x] = @ + 1]
        BY <4>1 DEF ReadCall, Create
      <4>3. [replies EXCEPT ![x] = @ + 1] \in [Asks -> Nat]
        BY <3>0, <4>1
      <4>4. call' \in [Calls -> CallStates]
        BY <3>0, <4>2 DEF CallStates
      <4>5. QED
        BY <3>0, <4>1, <4>2, <4>3, <4>4
    <3>4. CASE m[1] = "cancel"
      <4>1. CancelCalls({x} \cap LiveCalls) /\ UNCHANGED <<events, resolvers>>
        BY <2>2, <3>4
      <4>2. QED
        BY <3>0, <4>1, CancelStep
    <3>5. CASE m[1] = "done"
      <4>1. /\ events' = events \o <<m, <<"eof", None>> >> \/ events' = events \o <<m>>
            /\ UNCHANGED <<call, line, pending, replies, resolvers>>
        BY <2>2, <3>5
      <4>2. <<m, <<"eof", None>> >> \in Seq(Messages) /\ <<m>> \in Seq(Messages)
        BY <2>3
      <4>3. \A t \in Seq(Messages) : events \o t \in Seq(Messages)
        BY <3>0
      <4>4. events' \in Seq(Messages)
        BY <4>1, <4>2, <4>3
      <4>5. QED
        BY <3>0, <4>1, <4>4
    <3>6. QED
      BY <2>2, <3>1, <3>2, <3>3, <3>4, <3>5
  <2>5. QED
    BY <2>1, <2>2, <2>4 DEF TypeOK
<1>6. ASSUME ReadEOF PROVE TypeOK'
  <2>1. events' \in Seq(Messages) /\ reader' \in {"on", "done"}
    <3>1. <<"eof", None>> \in Messages /\ events \in Seq(Messages)
      BY DEF Messages, TypeOK
    <3>2. Append(events, <<"eof", None>>) \in Seq(Messages)
      BY <3>1, AppendIndex
    <3>3. /\ events' = events \/ events' = Append(events, <<"eof", None>>)
          /\ reader' = reader \/ reader' = "done"
      BY <1>6 DEF ReadEOF, ReaderEnds
    <3>4. QED
      BY <3>1, <3>2, <3>3 DEF TypeOK
  <2>2. QED
    BY <1>6, <2>1 DEF ReadEOF, ReaderEnds, TypeOK
<1>7. ASSUME ReadFails PROVE TypeOK'
  <2>1. events' \in Seq(Messages) /\ reader' \in {"on", "done"}
    <3>1. <<"eof", None>> \in Messages /\ events \in Seq(Messages)
      BY DEF Messages, TypeOK
    <3>2. Append(events, <<"eof", None>>) \in Seq(Messages)
      BY <3>1, AppendIndex
    <3>3. /\ events' = events \/ events' = Append(events, <<"eof", None>>)
          /\ reader' = reader \/ reader' = "done"
      BY <1>7 DEF ReadFails, ReaderEnds
    <3>4. QED
      BY <3>1, <3>2, <3>3 DEF TypeOK
  <2>2. pipe' \in Seq(Messages)
    BY <1>7, NextMessage DEF ReadFails
  <2>3. QED
    BY <1>7, <2>1, <2>2 DEF ReadFails, ReaderEnds, TypeOK
<1>8. ASSUME Handshake PROVE TypeOK'
  BY <1>8 DEF Handshake, Killed, TypeOK
<1>9. ASSUME Take PROVE TypeOK'
  <2> DEFINE x == Head(events)[2]
  <2>1. /\ events' \in Seq(Messages)
        /\ Head(events)[1] = "native" => x \in Natives
        /\ Head(events)[1] = "approval" => x \in Asks
    BY <1>9, NextEvent DEF Take
  <2>2. /\ pending' \subseteq Asks /\ shown' \subseteq Asks
        /\ gen' \in {"running", "held", "exiting"} /\ held' \in Natives \cup {None}
        /\ gen' = "held" <=> held' # None
    BY <1>9, <2>1 DEF Take, TypeOK
  <2>3. QED
    BY <1>9, <2>1, <2>2 DEF Take, TypeOK
<1>10. ASSUME Resume PROVE TypeOK'
  <2>1. held \in Asks
    BY <1>10 DEF Resume, TypeOK
  <2>2. replies' \in [Asks -> Nat] /\ pending' \subseteq Asks
    <3>1. replies \in [Asks -> Nat] /\ pending \subseteq Asks
      BY DEF TypeOK
    <3>2. replies' = replies \/ replies' = [replies EXCEPT ![held] = @ + 1]
      BY <1>10 DEF Resume
    <3>3. pending' \subseteq pending
      BY <1>10 DEF Resume
    <3>4. QED
      BY <2>1, <3>1, <3>2, <3>3
  <2>3. QED
    BY <1>10, <2>2 DEF Resume, TypeOK
<1>11. ASSUME Exited PROVE TypeOK'
  BY <1>11 DEF Exited, Killed, TypeOK
<1>12. ASSUME Close PROVE TypeOK'
  <2>1. events' \in Seq(Messages) /\ reader' \in {"on", "done"}
    <3>1. <<"eof", None>> \in Messages /\ events \in Seq(Messages)
      BY DEF Messages, TypeOK
    <3>2. Append(events, <<"eof", None>>) \in Seq(Messages)
      BY <3>1, AppendIndex
    <3>3. /\ events' = events \/ events' = Append(events, <<"eof", None>>)
          /\ reader' = reader \/ reader' = "done"
      BY <1>12 DEF Close, CloseTools, ReaderStops, ReaderEnds
    <3>4. QED
      BY <3>1, <3>2, <3>3 DEF TypeOK
  <2>2. CancelCalls(LiveCalls) \/ UNCHANGED <<call, line, pending, replies>>
    BY <1>12 DEF Close, CloseTools
  <2>3. CASE CancelCalls(LiveCalls)
    BY <1>12, <2>1, <2>3, CancelStep DEF Close, TypeOK
  <2>4. CASE UNCHANGED <<call, line, pending, replies>>
    BY <1>12, <2>1, <2>4 DEF Close, TypeOK
  <2>5. QED
    BY <2>2, <2>3, <2>4
<1>13. ASSUME CloseCalls PROVE TypeOK'
  BY <1>13, CancelStep DEF CloseCalls, TypeOK
<1>14. ASSUME Joined PROVE TypeOK'
  BY <1>14 DEF Joined, Clear, TypeOK
<1>15. ASSUME Kill PROVE TypeOK'
  BY <1>15 DEF Kill, Killed, TypeOK
<1>16. ASSUME Finish PROVE TypeOK'
  BY <1>16 DEF Finish, Clear, TypeOK
<1>17. ASSUME Cancel PROVE TypeOK'
  BY <1>17 DEF Cancel, Awaiting, TypeOK
<1>18. ASSUME CancelFinally PROVE TypeOK'
  BY <1>18 DEF CancelFinally, TypeOK
<1>19. ASSUME StopBegins PROVE TypeOK'
  <2>1. events' \in Seq(Messages) /\ reader' \in {"on", "done"}
    <3>1. <<"eof", None>> \in Messages /\ events \in Seq(Messages)
      BY DEF Messages, TypeOK
    <3>2. Append(events, <<"eof", None>>) \in Seq(Messages)
      BY <3>1, AppendIndex
    <3>3. /\ events' = events \/ events' = Append(events, <<"eof", None>>)
          /\ reader' = reader \/ reader' = "done"
      BY <1>19 DEF StopBegins, CloseTools, ReaderStops, ReaderEnds
    <3>4. QED
      BY <3>1, <3>2, <3>3 DEF TypeOK
  <2>2. CancelCalls(LiveCalls)
    BY <1>19 DEF StopBegins, CloseTools
  <2>3. QED
    BY <1>19, <2>1, <2>2, CancelStep DEF StopBegins, TypeOK
<1>20. ASSUME StopClears PROVE TypeOK'
  BY <1>20 DEF StopClears, Clear, TypeOK
<1>21. ASSUME StopKills PROVE TypeOK'
  BY <1>21 DEF StopKills, Killed, TypeOK
<1>22. ASSUME NEW c \in Calls, Enter(c) PROVE TypeOK'
  <2>1. line' \in Seq(Calls) /\ call' \in [Calls -> CallStates]
    BY <1>22, AppendIndex DEF Enter, TypeOK, CallStates
  <2>2. QED
    BY <1>22, <2>1 DEF Enter, TypeOK
<1>23. ASSUME NEW c \in Calls, TakeLock(c) PROVE TypeOK'
  <2>1. <<"approval", c>> \in Messages /\ events \in Seq(Messages)
    BY DEF Messages, TypeOK
  <2>2. events' \in Seq(Messages)
    BY <1>23, <2>1 DEF TakeLock
  <2>3. /\ call' \in [Calls -> CallStates]
        /\ pending' \subseteq Asks
    BY <1>23 DEF TakeLock, TypeOK, CallStates
  <2>4. QED
    BY <1>23, <2>2, <2>3 DEF TakeLock, TypeOK
<1>24. ASSUME NEW c \in Calls, Decided(c) PROVE TypeOK'
  <2>1. line # <<>> /\ line \in Seq(Calls) /\ Tail(line) \in Seq(Calls)
    BY <1>24 DEF Decided, Answers, LineInv, TypeOK
  <2>2. /\ call' \in [Calls -> CallStates]
        /\ line' \in Seq(Calls) /\ replies' \in [Asks -> Nat] /\ pending' \subseteq Asks
    <3>0. /\ replies \in [Asks -> Nat] /\ pending \subseteq Asks /\ call \in [Calls -> CallStates]
      BY DEF TypeOK
    <3>1. /\ \E v \in CallStates : call' = [call EXCEPT ![c] = v]
          /\ line' = line \/ line' = Tail(line)
          /\ replies' = replies \/ replies' = [replies EXCEPT ![c] = @ + 1]
          /\ pending' \subseteq pending
      BY <1>24 DEF Decided, Answers, CallStates
    <3>2. call' \in [Calls -> CallStates]
      BY <3>0, <3>1
    <3>3. replies' \in [Asks -> Nat]
      BY <3>0, <3>1
    <3>4. QED
      BY <2>1, <3>0, <3>1, <3>2, <3>3
  <2>3. QED
    BY <1>24, <2>2 DEF Decided, TypeOK
<1>25. ASSUME NEW c \in Calls, Executed(c) PROVE TypeOK'
  <2>1. line # <<>> /\ line \in Seq(Calls) /\ Tail(line) \in Seq(Calls)
    BY <1>25 DEF Executed, Answers, LineInv, TypeOK
  <2>2. /\ call' \in [Calls -> CallStates]
        /\ line' \in Seq(Calls) /\ replies' \in [Asks -> Nat] /\ pending' \subseteq Asks
    <3>0. /\ replies \in [Asks -> Nat] /\ pending \subseteq Asks /\ call \in [Calls -> CallStates]
      BY DEF TypeOK
    <3>1. /\ \E v \in CallStates : call' = [call EXCEPT ![c] = v]
          /\ line' = line \/ line' = Tail(line)
          /\ replies' = replies \/ replies' = [replies EXCEPT ![c] = @ + 1]
          /\ pending' \subseteq pending
      BY <1>25 DEF Executed, Answers, CallStates
    <3>2. call' \in [Calls -> CallStates]
      BY <3>0, <3>1
    <3>3. replies' \in [Asks -> Nat]
      BY <3>0, <3>1
    <3>4. QED
      BY <2>1, <3>0, <3>1, <3>2, <3>3
  <2>3. QED
    BY <1>25, <2>2 DEF Executed, TypeOK
<1>26. ASSUME NEW c \in Calls, Cleaned(c) PROVE TypeOK'
  <2>1. line # <<>> /\ line \in Seq(Calls) /\ Tail(line) \in Seq(Calls)
    BY <1>26 DEF Cleaned, LineInv, TypeOK
  <2>2. /\ call' \in [Calls -> CallStates]
        /\ line' \in Seq(Calls) /\ replies' \in [Asks -> Nat] /\ pending' \subseteq Asks
    <3>0. /\ replies \in [Asks -> Nat] /\ pending \subseteq Asks /\ call \in [Calls -> CallStates]
      BY DEF TypeOK
    <3>1. /\ \E v \in CallStates : call' = [call EXCEPT ![c] = v]
          /\ line' = line \/ line' = Tail(line)
          /\ replies' = replies \/ replies' = [replies EXCEPT ![c] = @ + 1]
          /\ pending' \subseteq pending
      BY <1>26 DEF Cleaned, CallStates
    <3>2. call' \in [Calls -> CallStates]
      BY <3>0, <3>1
    <3>3. replies' \in [Asks -> Nat]
      BY <3>0, <3>1
    <3>4. QED
      BY <2>1, <3>0, <3>1, <3>2, <3>3
  <2>3. QED
    BY <1>26, <2>2 DEF Cleaned, TypeOK
<1>27. ASSUME NEW c \in Calls, Drained(c) PROVE TypeOK'
  BY <1>27 DEF Drained, TypeOK, CallStates
<1>28. ASSUME NEW n \in Natives, ResolveNative(n) PROVE TypeOK'
  BY <1>28 DEF ResolveNative, TypeOK
<1>29. ASSUME NEW x \in Asks, NEW b \in {"allow", "deny"}, Answer(x, b) PROVE TypeOK'
  BY <1>29 DEF Answer, TypeOK
<1>30. CASE UNCHANGED vars
  BY <1>30 DEF vars, TypeOK
<1>31. QED
  BY <1>1, <1>2, <1>3, <1>4, <1>5, <1>6, <1>7, <1>8, <1>9, <1>10, <1>11, <1>12,
     <1>13, <1>14, <1>15, <1>16, <1>17, <1>18, <1>19, <1>20, <1>21, <1>22, <1>23,
     <1>24, <1>25, <1>26, <1>27, <1>28, <1>29, <1>30 DEF Next, Agent, Turn, Stop, Call

\* A call joins the line when its task begins and leaves it when it ends.
LEMMA LineStep ==
    ASSUME TypeOK, LineInv, PipeInv, [Next]_vars
    PROVE  LineInv'
<1> USE AgentTurnAssumption DEF Asks, Replied, claude, pi, agentVars, futureVars, turnVars, InLine
<1>1. ASSUME NEW x \in Asks, AgentAsks(x) PROVE LineInv'
  BY <1>1 DEF AgentAsks, AgentSays, LineInv
<1>2. ASSUME NEW c \in Calls, AgentWithdraws(c) PROVE LineInv'
  BY <1>2 DEF AgentWithdraws, AgentSays, LineInv
<1>3. ASSUME AgentSettles PROVE LineInv'
  BY <1>3 DEF AgentSettles, AgentSays, LineInv
<1>4. ASSUME AgentExits PROVE LineInv'
  BY <1>4 DEF AgentExits, LineInv
<1>5. ASSUME Read PROVE LineInv'
  <2> DEFINE m == Head(pipe)
             x == Head(pipe)[2]
  <2>1. m[1] = "call" => x \in Calls /\ call[x] = "none"
    BY <1>5, NextMessage DEF Read
  <2>2. \/ UNCHANGED <<call, line>>
        \/ m[1] = "call" /\ ReadCall(x)
        \/ CancelCalls({x} \cap LiveCalls)
    BY <1>5 DEF Read
  <2>3. CASE UNCHANGED <<call, line>>
    BY <2>3 DEF LineInv
  <2>4. CASE m[1] = "call" /\ ReadCall(x)
    <3>1. x \in Calls /\ call[x] = "none"
      BY <2>1, <2>4
    <3> HIDE DEF x, m
    <3>2. PICK v \in {"replied", "created"} : call' = [call EXCEPT ![x] = v]
      BY <2>4 DEF ReadCall, Create
    <3>3. UNCHANGED line
      BY <1>5, <2>4 DEF Read, m
    <3>4. \A c \in Calls : call'[c] = IF c = x THEN v ELSE call[c]
      BY <3>2 DEF TypeOK
    <3>5. \A i \in 1 .. Len(line) : line[i] \in Calls /\ line[i] # x
      <4>1. line \in Seq(Calls)
        BY DEF TypeOK
      <4>2. \A i \in 1 .. Len(line) : call[line[i]] # "none"
        BY DEF LineInv
      <4>3. QED
        BY <3>1, <4>1, <4>2
    <3>6. QED
      BY <3>1, <3>3, <3>4, <3>5 DEF LineInv
  <2>5. CASE CancelCalls({x} \cap LiveCalls)
    BY <2>5, CancelStep
  <2>6. QED
    BY <2>2, <2>3, <2>4, <2>5
<1>6. ASSUME ReadEOF PROVE LineInv'
  BY <1>6 DEF ReadEOF, ReaderEnds, LineInv
<1>7. ASSUME ReadFails PROVE LineInv'
  BY <1>7 DEF ReadFails, ReaderEnds, LineInv
<1>8. ASSUME Handshake PROVE LineInv'
  BY <1>8 DEF Handshake, LineInv
<1>9. ASSUME Take PROVE LineInv'
  BY <1>9 DEF Take, LineInv
<1>10. ASSUME Resume PROVE LineInv'
  BY <1>10 DEF Resume, LineInv
<1>11. ASSUME Exited PROVE LineInv'
  BY <1>11 DEF Exited, LineInv
<1>12. ASSUME Close PROVE LineInv'
  <2>1. CancelCalls(LiveCalls) \/ UNCHANGED <<call, line>>
    BY <1>12 DEF Close, CloseTools
  <2>2. CASE UNCHANGED <<call, line>>
    BY <2>2 DEF LineInv
  <2>3. QED
    BY <2>1, <2>2, CancelStep
<1>13. ASSUME CloseCalls PROVE LineInv'
  BY <1>13, CancelStep DEF CloseCalls
<1>14. ASSUME Joined PROVE LineInv'
  BY <1>14 DEF Joined, Clear, LineInv
<1>15. ASSUME Kill PROVE LineInv'
  BY <1>15 DEF Kill, LineInv
<1>16. ASSUME Finish PROVE LineInv'
  BY <1>16 DEF Finish, Clear, LineInv
<1>17. ASSUME Cancel PROVE LineInv'
  BY <1>17 DEF Cancel, LineInv
<1>18. ASSUME CancelFinally PROVE LineInv'
  BY <1>18 DEF CancelFinally, LineInv
<1>19. ASSUME StopBegins PROVE LineInv'
  BY <1>19, CancelStep DEF StopBegins, CloseTools
<1>20. ASSUME StopClears PROVE LineInv'
  BY <1>20 DEF StopClears, Clear, LineInv
<1>21. ASSUME StopKills PROVE LineInv'
  BY <1>21 DEF StopKills, LineInv
<1>22. ASSUME NEW c \in Calls, Enter(c) PROVE LineInv'
  <2>1. call[c] = "created" /\ \A d \in Calls : call'[d] = IF d = c THEN "queued" ELSE call[d]
    BY <1>22 DEF Enter, TypeOK
  <2>2. \A i \in 1 .. Len(line) : line[i] \in Calls /\ line[i] # c
    <3>1. line \in Seq(Calls)
      BY DEF TypeOK
    <3>2. \A i \in 1 .. Len(line) : call[line[i]] # "created"
      BY DEF LineInv
    <3>3. QED
      BY <2>1, <3>1, <3>2
  <2>3. line' = Append(line, c) /\ line \in Seq(Calls)
    BY <1>22 DEF Enter, TypeOK
  <2>4. /\ Len(line) \in Nat /\ Len(line') = Len(line) + 1
        /\ \A i \in 1 .. Len(line) : line'[i] = line[i] /\ i \in 1 .. Len(line')
        /\ line'[Len(line) + 1] = c /\ Len(line) + 1 \in 1 .. Len(line')
        /\ \A i \in 1 .. Len(line') : i \in 1 .. Len(line) \/ i = Len(line) + 1
        /\ line' # <<>>
        /\ line # <<>> => Head(line') = Head(line)
    BY <2>3, AppendIndex
  <2>5. \A i, j \in 1 .. Len(line') : line'[i] = line'[j] => i = j
    BY <2>2, <2>4 DEF LineInv
  <2>6. \A i \in 1 .. Len(line') : call'[line'[i]] \in {"queued", "asking", "running", "cleaning"}
    BY <2>1, <2>2, <2>4 DEF LineInv
  <2>7. \A d \in Calls : call'[d] \in {"queued", "asking", "running", "cleaning"} =>
           \E i \in 1 .. Len(line') : line'[i] = d
    BY <2>1, <2>4 DEF LineInv
  <2>8. \A d \in Calls : call'[d] \in {"asking", "running", "cleaning"} =>
           line' # <<>> /\ Head(line') = d
    BY <2>1, <2>4 DEF LineInv
  <2>9. QED
    BY <2>5, <2>6, <2>7, <2>8 DEF LineInv
<1>23. ASSUME NEW c \in Calls, TakeLock(c) PROVE LineInv'
  <2>1. \A d \in Calls : /\ d # c => call'[d] = call[d]
                         /\ call'[c] \in {"asking", "running"} /\ call[c] = "queued"
    BY <1>23 DEF TakeLock, TypeOK
  <2>2. line' = line /\ Head(line) = c
    BY <1>23 DEF TakeLock
  <2>3. line # <<>> /\ \A d \in Calls : call[d] \notin {"asking", "running", "cleaning"}
    BY <2>1, <2>2 DEF LineInv, TypeOK
  <2>4. \A i \in 1 .. Len(line) : line[i] \in Calls
    BY DEF TypeOK
  <2>5. QED
    BY <2>1, <2>2, <2>3, <2>4 DEF LineInv
<1>24. ASSUME NEW c \in Calls, Decided(c) PROVE LineInv'
  <2>1. /\ call[c] = "asking"
        /\ \/ \E v \in {"replying", "failing", "dropped"} :
                 call' = [call EXCEPT ![c] = v] /\ line' = Tail(line)
           \/ call' = [call EXCEPT ![c] = "running"] /\ line' = line
    BY <1>24 DEF Decided, Answers
  <2>2. QED
    BY <2>1, ServedStep
<1>25. ASSUME NEW c \in Calls, Executed(c) PROVE LineInv'
  <2>1. /\ call[c] = "running"
        /\ \E v \in {"replying", "failing", "dropped"} :
              call' = [call EXCEPT ![c] = v] /\ line' = Tail(line)
    BY <1>25 DEF Executed, Answers
  <2>2. QED
    BY <2>1, ServedStep
<1>26. ASSUME NEW c \in Calls, Cleaned(c) PROVE LineInv'
  <2>1. /\ call[c] = "cleaning"
        /\ \E v \in {"replying", "failing", "dropped"} :
              call' = [call EXCEPT ![c] = v] /\ line' = Tail(line)
    BY <1>26 DEF Cleaned
  <2>2. QED
    BY <2>1, ServedStep
<1>27. ASSUME NEW c \in Calls, Drained(c) PROVE LineInv'
  <2>1. /\ call[c] \in {"replying", "failing"} /\ UNCHANGED line
        /\ \A d \in Calls : call'[d] = IF d = c THEN "replied" ELSE call[d]
    BY <1>27 DEF Drained, TypeOK
  <2>2. \A i \in 1 .. Len(line) : line[i] \in Calls
    BY DEF TypeOK
  <2>3. QED
    BY <2>1, <2>2 DEF LineInv
<1>28. ASSUME NEW n \in Natives, ResolveNative(n) PROVE LineInv'
  BY <1>28 DEF ResolveNative, LineInv
<1>29. ASSUME NEW x \in Asks, NEW b \in {"allow", "deny"}, Answer(x, b) PROVE LineInv'
  BY <1>29 DEF Answer, LineInv
<1>30. CASE UNCHANGED vars
  BY <1>30 DEF vars, LineInv
<1>31. QED
  BY <1>1, <1>2, <1>3, <1>4, <1>5, <1>6, <1>7, <1>8, <1>9, <1>10, <1>11, <1>12,
     <1>13, <1>14, <1>15, <1>16, <1>17, <1>18, <1>19, <1>20, <1>21, <1>22, <1>23,
     <1>24, <1>25, <1>26, <1>27, <1>28, <1>29, <1>30 DEF Next, Agent, Turn, Stop, Call

\* The agent asks once, and what is read leaves its output.
LEMMA PipeStep ==
    ASSUME TypeOK, LineInv, PipeInv, EventInv, ReplyInv, [Next]_vars
    PROVE  PipeInv'
<1> USE AgentTurnAssumption DEF Asks, Replied, claude, pi, agentVars, futureVars, turnVars
<1>1. ASSUME NEW x \in Asks, AgentAsks(x) PROVE PipeInv'
  <2> DEFINE m == <<IF x \in Calls THEN "call" ELSE "native", x>>
  <2>1. /\ x \notin sent /\ pipe' = Append(pipe, m) /\ sent' = sent \cup {x}
        /\ UNCHANGED <<replies, call, held, resolvers>>
    BY <1>1 DEF AgentAsks, AgentSays
  <2>2. pipe \in Seq(Messages) /\ m \in Messages
    BY DEF TypeOK, Messages
  <2>3. m[1] \in {"call", "native"} /\ m[2] = x /\ (m[1] = "call" <=> x \in Calls)
    OBVIOUS
  <2>4. replies[x] = 0 /\ x # held /\ x \notin resolvers /\ (x \in Calls => call[x] = "none")
    BY <2>1 DEF ReplyInv, CallReplies, Open
  <2>5. \A i \in 1 .. Len(pipe) : pipe[i][1] \in {"native", "call"} => pipe[i][2] # x
    BY <2>1 DEF PipeInv, Open
  <2> HIDE DEF m
  <2>6. /\ Len(pipe) \in Nat /\ Len(pipe') = Len(pipe) + 1
        /\ \A i \in 1 .. Len(pipe) : pipe'[i] = pipe[i] /\ i \in 1 .. Len(pipe')
        /\ pipe'[Len(pipe) + 1] = m
        /\ \A i \in 1 .. Len(pipe') : i \in 1 .. Len(pipe) \/ i = Len(pipe) + 1
    BY <2>1, <2>2, AppendIndex
  <2>7. \A i, j \in 1 .. Len(pipe') :
           pipe'[i][1] \in {"native", "call"} /\ Same(pipe'[i], pipe'[j]) => i = j
    BY <2>3, <2>5, <2>6 DEF PipeInv, Same
  <2>8. ASSUME NEW i \in 1 .. Len(pipe')
        PROVE  LET y == pipe'[i][2] IN
               /\ pipe'[i][1] = "call" => y \in Calls /\ y \in sent' /\ replies'[y] = 0 /\ call'[y] = "none"
               /\ pipe'[i][1] = "native" =>
                     y \in Natives /\ y \in sent' /\ replies'[y] = 0 /\ y # held' /\ y \notin resolvers'
    <3>1. CASE i \in 1 .. Len(pipe)
      BY <2>1, <2>6, <3>1 DEF PipeInv, Open
    <3>2. CASE i = Len(pipe) + 1
      BY <2>1, <2>3, <2>4, <2>6, <3>2 DEF Open
    <3>3. QED
      BY <2>6, <3>1, <3>2
  <2>9. QED
    BY <2>7, <2>8 DEF PipeInv, Open, Same
<1>2. ASSUME NEW c \in Calls, AgentWithdraws(c) PROVE PipeInv'
  BY <1>2 DEF AgentWithdraws, AgentSays, PipeInv, Open, Same, TypeOK
<1>3. ASSUME AgentSettles PROVE PipeInv'
  BY <1>3 DEF AgentSettles, AgentSays, PipeInv, Open, Same, TypeOK
<1>4. ASSUME AgentExits PROVE PipeInv'
  BY <1>4 DEF AgentExits, PipeInv, Open, Same, TypeOK
<1>5. ASSUME Read PROVE PipeInv'
  <2> DEFINE m == Head(pipe)
             x == Head(pipe)[2]
  <2>1. /\ pipe' = Tail(pipe)
        /\ m[1] = "call" => x \in Calls
        /\ m[1] = "native" => x \in Natives
        /\ \A i \in 1 .. Len(pipe') : m[1] \in {"native", "call"} => ~Same(m, pipe'[i])
        /\ \A i \in 1 .. Len(pipe') : \E j \in 1 .. Len(pipe) : pipe'[i] = pipe[j]
        /\ \A i, j \in 1 .. Len(pipe') :
              pipe'[i][1] \in {"native", "call"} /\ Same(pipe'[i], pipe'[j]) => i = j
    BY <1>5, NextMessage DEF Read
  <2>2. UNCHANGED <<sent, held>>
    BY <1>5 DEF Read
  <2>3. /\ resolvers' = resolvers \/ (m[1] = "native" /\ resolvers' = resolvers \cup {x})
        /\ \/ UNCHANGED <<call, replies>>
           \/ m[1] = "call" /\ ReadCall(x)
           \/ CancelCalls({x} \cap LiveCalls)
    <3>1. resolvers' = resolvers \/ (m[1] = "native" /\ resolvers' = resolvers \cup {x})
      BY <1>5 DEF Read
    <3>2. \/ UNCHANGED <<call, replies>>
          \/ m[1] = "call" /\ ReadCall(x)
          \/ CancelCalls({x} \cap LiveCalls)
      BY <1>5 DEF Read
    <3>3. QED
      BY <3>1, <3>2
  <2>4. \A c \in Calls : call[c] = "none" /\ ~(m[1] = "call" /\ c = x) =>
           call'[c] = "none" /\ replies'[c] = replies[c]
    <3>1. CASE UNCHANGED <<call, replies>>
      BY <3>1
    <3>2. CASE m[1] = "call" /\ ReadCall(x)
      BY <2>1, <3>2 DEF ReadCall, Create, TypeOK
    <3>3. CASE CancelCalls({x} \cap LiveCalls)
      BY <3>3, CancelStep DEF LiveCalls, Live, InLine
    <3>4. QED
      BY <2>3, <3>1, <3>2, <3>3
  <2>5. \A n \in Natives : replies'[n] = replies[n]
    <3>1. CASE UNCHANGED <<call, replies>>
      BY <3>1
    <3>2. CASE m[1] = "call" /\ ReadCall(x)
      BY <2>1, <3>2 DEF ReadCall, Create, TypeOK
    <3>3. CASE CancelCalls({x} \cap LiveCalls)
      BY <3>3, CancelStep DEF LiveCalls, Live, InLine
    <3>4. QED
      BY <2>3, <3>1, <3>2, <3>3
  <2> HIDE DEF m, x
  <2>6. ASSUME NEW i \in 1 .. Len(pipe')
        PROVE  LET y == pipe'[i][2] IN
               /\ pipe'[i][1] = "call" => y \in Calls /\ y \in sent' /\ replies'[y] = 0 /\ call'[y] = "none"
               /\ pipe'[i][1] = "native" =>
                     y \in Natives /\ y \in sent' /\ replies'[y] = 0 /\ y # held' /\ y \notin resolvers'
    <3> DEFINE y == pipe'[i][2]
    <3>1. PICK j \in 1 .. Len(pipe) : pipe'[i] = pipe[j]
      BY <2>1
    <3>2. pipe'[i][1] = m[1] /\ m[1] \in {"native", "call"} => y # x
      BY <2>1 DEF Same, m, x
    <3>3. CASE pipe'[i][1] = "call"
      <4>1. y \in Calls /\ Open(y) /\ call[y] = "none"
        BY <3>1, <3>3 DEF PipeInv
      <4>2. QED
        BY <2>2, <2>4, <3>2, <3>3, <4>1 DEF Open
    <3>4. CASE pipe'[i][1] = "native"
      <4>1. y \in Natives /\ Open(y) /\ y # held /\ y \notin resolvers
        BY <3>1, <3>4 DEF PipeInv
      <4>2. y \notin resolvers'
        BY <2>3, <3>2, <3>4, <4>1
      <4>3. QED
        BY <2>2, <2>5, <3>4, <4>1, <4>2 DEF Open
    <3>5. QED
      BY <3>3, <3>4
  <2>7. QED
    BY <2>1, <2>6 DEF PipeInv, Open, Same
<1>6. ASSUME ReadEOF PROVE PipeInv'
  BY <1>6 DEF ReadEOF, ReaderEnds, PipeInv, Open, Same, TypeOK
<1>7. ASSUME ReadFails PROVE PipeInv'
  BY <1>7 DEF ReadFails, ReaderEnds, PipeInv, Open, Same, TypeOK
<1>8. ASSUME Handshake PROVE PipeInv'
  BY <1>8 DEF Handshake, PipeInv, Open, Same, TypeOK
<1>9. ASSUME Take PROVE PipeInv'
  <2>1. UNCHANGED <<pipe, sent, replies, call, resolvers>>
    BY <1>9 DEF Take
  <2>2. \A j \in 1 .. Len(pipe) : pipe[j][1] = "native" => pipe[j][2] # held'
    <3>1. CASE held' = held
      BY <3>1 DEF PipeInv
    <3>2. CASE Head(events)[1] = "native" /\ held' = Head(events)[2]
      <4>1. \A j \in 1 .. Len(pipe) : ~Same(pipe[j], Head(events))
        BY <1>9, <3>2, NextEvent DEF Take
      <4>2. QED
        BY <3>2, <4>1 DEF Same
    <3>3. QED
      BY <1>9, <3>1, <3>2 DEF Take
  <2>3. QED
    BY <2>1, <2>2 DEF PipeInv, Open
<1>10. ASSUME Resume PROVE PipeInv'
  <2>1. /\ held # None /\ held \in Natives /\ held' = None
        /\ UNCHANGED <<pipe, sent, call, resolvers>>
        /\ \A y \in Asks : y # held => replies'[y] = replies[y]
    BY <1>10 DEF Resume, TypeOK
  <2>2. held \notin Calls
    BY <2>1
  <2>3. QED
    BY <2>1, <2>2 DEF PipeInv, Open, TypeOK
<1>11. ASSUME Exited PROVE PipeInv'
  BY <1>11 DEF Exited, PipeInv, Open, Same, TypeOK
<1>12. ASSUME Close PROVE PipeInv'
  <2>1. UNCHANGED <<pipe, sent, held, resolvers>>
    BY <1>12 DEF Close
  <2>2. CASE CancelCalls(LiveCalls)
    <3>1. \A c \in Calls : call[c] = "none" => call'[c] = "none" /\ replies'[c] = replies[c]
      BY <2>2, CancelStep DEF LiveCalls, Live, InLine, ToldOfCancel
    <3>2. \A n \in Natives : replies'[n] = replies[n]
      BY <2>2, CancelStep DEF LiveCalls
    <3>3. QED
      BY <2>1, <3>1, <3>2 DEF PipeInv, Open
  <2>3. CASE UNCHANGED <<call, replies>>
    BY <2>1, <2>3 DEF PipeInv, Open
  <2>4. QED
    BY <1>12, <2>2, <2>3 DEF Close, CloseTools
<1>13. ASSUME CloseCalls PROVE PipeInv'
  <2>1. UNCHANGED <<pipe, sent, held, resolvers>> /\ CancelCalls(LiveCalls)
    BY <1>13 DEF CloseCalls
  <2>2. \A c \in Calls : call[c] = "none" => call'[c] = "none" /\ replies'[c] = replies[c]
    BY <2>1, CancelStep DEF LiveCalls, Live, InLine, ToldOfCancel
  <2>3. \A n \in Natives : replies'[n] = replies[n]
    BY <2>1, CancelStep DEF LiveCalls
  <2>4. QED
    BY <2>1, <2>2, <2>3 DEF PipeInv, Open
<1>14. ASSUME Joined PROVE PipeInv'
  BY <1>14 DEF Joined, Clear, PipeInv, Open, Same, TypeOK
<1>15. ASSUME Kill PROVE PipeInv'
  BY <1>15 DEF Kill, PipeInv, Open, Same, TypeOK
<1>16. ASSUME Finish PROVE PipeInv'
  BY <1>16 DEF Finish, Clear, PipeInv, Open, Same, TypeOK
<1>17. ASSUME Cancel PROVE PipeInv'
  BY <1>17 DEF Cancel, PipeInv, Open, Same, TypeOK
<1>18. ASSUME CancelFinally PROVE PipeInv'
  BY <1>18 DEF CancelFinally, PipeInv, Open, Same, TypeOK
<1>19. ASSUME StopBegins PROVE PipeInv'
  <2>1. UNCHANGED <<pipe, sent, held, resolvers>> /\ CancelCalls(LiveCalls)
    BY <1>19 DEF StopBegins, CloseTools
  <2>2. \A c \in Calls : call[c] = "none" => call'[c] = "none" /\ replies'[c] = replies[c]
    BY <2>1, CancelStep DEF LiveCalls, Live, InLine
  <2>3. \A n \in Natives : replies'[n] = replies[n]
    BY <2>1, CancelStep DEF LiveCalls, Live, InLine
  <2>4. QED
    BY <2>1, <2>2, <2>3 DEF PipeInv, Open
<1>20. ASSUME StopClears PROVE PipeInv'
  BY <1>20 DEF StopClears, Clear, PipeInv, Open, Same, TypeOK
<1>21. ASSUME StopKills PROVE PipeInv'
  BY <1>21 DEF StopKills, PipeInv, Open, Same, TypeOK
<1>22. ASSUME NEW c \in Calls, Enter(c) PROVE PipeInv'
  BY <1>22 DEF Enter, PipeInv, Open, Same, TypeOK
<1>23. ASSUME NEW c \in Calls, TakeLock(c) PROVE PipeInv'
  BY <1>23 DEF TakeLock, PipeInv, Open, Same, TypeOK
<1>24. ASSUME NEW c \in Calls, Decided(c) PROVE PipeInv'
  BY <1>24 DEF Decided, Answers, PipeInv, Open, Same, TypeOK
<1>25. ASSUME NEW c \in Calls, Executed(c) PROVE PipeInv'
  BY <1>25 DEF Executed, Answers, PipeInv, Open, Same, TypeOK
<1>26. ASSUME NEW c \in Calls, Cleaned(c) PROVE PipeInv'
  BY <1>26 DEF Cleaned, PipeInv, Open, Same, TypeOK
<1>27. ASSUME NEW c \in Calls, Drained(c) PROVE PipeInv'
  BY <1>27 DEF Drained, PipeInv, Open, Same, TypeOK
<1>28. ASSUME NEW n \in Natives, ResolveNative(n) PROVE PipeInv'
  BY <1>28 DEF ResolveNative, PipeInv, Open, Same, TypeOK
<1>29. ASSUME NEW x \in Asks, NEW b \in {"allow", "deny"}, Answer(x, b) PROVE PipeInv'
  BY <1>29 DEF Answer, PipeInv, Open, Same, TypeOK
<1>30. CASE UNCHANGED vars
  BY <1>30 DEF vars, PipeInv, Open, Same, TypeOK
<1>31. QED
  BY <1>1, <1>2, <1>3, <1>4, <1>5, <1>6, <1>7, <1>8, <1>9, <1>10, <1>11, <1>12,
     <1>13, <1>14, <1>15, <1>16, <1>17, <1>18, <1>19, <1>20, <1>21, <1>22, <1>23,
     <1>24, <1>25, <1>26, <1>27, <1>28, <1>29, <1>30 DEF Next, Agent, Turn, Stop, Call

\* A request reaches the queue of events from the output of Claude only.
LEMMA EventStep ==
    ASSUME TypeOK, LineInv, PipeInv, EventInv, ReplyInv, [Next]_vars
    PROVE  EventInv'
<1> USE AgentTurnAssumption DEF Asks, Replied, claude, pi, agentVars, futureVars, turnVars
<1>1. ASSUME NEW x \in Asks, AgentAsks(x) PROVE EventInv'
  <2> DEFINE m == <<IF x \in Calls THEN "call" ELSE "native", x>>
  <2>1. /\ x \notin sent /\ pipe' = Append(pipe, m) /\ sent' = sent \cup {x}
        /\ UNCHANGED <<kind, events, held, replies>>
    BY <1>1 DEF AgentAsks, AgentSays
  <2>2. pipe \in Seq(Messages) /\ m \in Messages
    BY DEF TypeOK, Messages
  <2>3. m[2] = x
    OBVIOUS
  <2> HIDE DEF m
  <2>4. \A i \in 1 .. Len(pipe') : (\E j \in 1 .. Len(pipe) : pipe'[i] = pipe[j]) \/ pipe'[i] = m
    BY <2>1, <2>2, AppendIndex
  <2>5. \A i \in 1 .. Len(events) : events[i][1] = "native" => events[i][2] \in sent
    BY DEF EventInv, Open
  <2>6. \A i \in 1 .. Len(events) :
           events[i][1] = "native" => \A j \in 1 .. Len(pipe') : ~Same(pipe'[j], events[i])
    BY <2>1, <2>3, <2>4, <2>5 DEF EventInv, Same
  <2>7. QED
    BY <2>1, <2>5, <2>6 DEF EventInv, Open
<1>2. ASSUME NEW c \in Calls, AgentWithdraws(c) PROVE EventInv'
  <2>1. /\ pipe' = Append(pipe, <<"cancel", c>>)
        /\ UNCHANGED <<kind, events, held, replies>> /\ sent \subseteq sent'
    BY <1>2 DEF AgentWithdraws, AgentSays
  <2>2. pipe \in Seq(Messages) /\ <<"cancel", c>> \in Messages
    BY DEF TypeOK, Messages
  <2>3. \A i \in 1 .. Len(pipe') : pipe'[i][1] = "native" => \E j \in 1 .. Len(pipe) : pipe'[i] = pipe[j]
    BY <2>1, <2>2, AppendIndex
  <2>4. QED
    BY <2>1, <2>3, EventsKept DEF EventInv, Open
<1>3. ASSUME AgentSettles PROVE EventInv'
  <2>1. /\ pipe' = Append(pipe, <<"done", None>>)
        /\ UNCHANGED <<kind, events, held, replies>> /\ sent \subseteq sent'
    BY <1>3 DEF AgentSettles, AgentSays
  <2>2. pipe \in Seq(Messages) /\ <<"done", None>> \in Messages
    BY DEF TypeOK, Messages
  <2>3. \A i \in 1 .. Len(pipe') : pipe'[i][1] = "native" => \E j \in 1 .. Len(pipe) : pipe'[i] = pipe[j]
    BY <2>1, <2>2, AppendIndex
  <2>4. QED
    BY <2>1, <2>3, EventsKept DEF EventInv, Open
<1>4. ASSUME AgentExits PROVE EventInv'
  <2>1. UNCHANGED <<kind, pipe, events, sent, held, replies>>
    BY <1>4 DEF AgentExits
  <2>2. QED
    BY <2>1, EventsUntouched
<1>5. ASSUME Read PROVE EventInv'
  <2> DEFINE m == Head(pipe)
             x == Head(pipe)[2]
  <2>1. /\ pipe' = Tail(pipe)
        /\ m[1] = "native" => x \in Natives /\ Open(x) /\ x # held
        /\ \A i \in 1 .. Len(pipe') : m[1] \in {"native", "call"} => ~Same(m, pipe'[i])
        /\ \A i \in 1 .. Len(pipe') : \E j \in 1 .. Len(pipe) : pipe'[i] = pipe[j]
    BY <1>5, NextMessage DEF Read
  <2>2. UNCHANGED <<kind, sent, held>>
    BY <1>5 DEF Read
  <2>3. \A n \in Natives : replies'[n] = replies[n]
    <3>1. \/ UNCHANGED replies
          \/ m[1] = "call" /\ ReadCall(x)
          \/ CancelCalls({x} \cap LiveCalls)
      BY <1>5 DEF Read
    <3>2. CASE m[1] = "call" /\ ReadCall(x)
      <4>1. x \in Calls
        BY <1>5, <3>2, NextMessage DEF Read
      <4>2. QED
        BY <3>2, <4>1 DEF ReadCall, Create, TypeOK
    <3>3. CASE CancelCalls({x} \cap LiveCalls)
      BY <3>3, CancelStep DEF LiveCalls
    <3>4. QED
      BY <3>1, <3>2, <3>3
  <2>4. \A i \in 1 .. Len(events) : events[i][1] = "native" =>
           events[i][2] \in Natives /\ Open(events[i][2]) /\ events[i][2] # held
    BY DEF EventInv
  <2>5. /\ events \in Seq(Messages) /\ m \in Messages /\ <<"approval", x>> \in Messages
        /\ <<"eof", None>> \in Messages
    <3>1. m \in Messages
      BY <1>5 DEF Read, TypeOK
    <3>2. QED
      BY <3>1 DEF Messages, TypeOK
  <2>6. \A i \in 1 .. Len(events) : events[i][1] = "native" =>
           events[i][2] \in sent' /\ replies'[events[i][2]] = 0 /\ events[i][2] # held'
    BY <2>2, <2>3, <2>4 DEF Open
  <2>7. CASE events' = events
    BY <2>1, <2>2, <2>6, <2>7, EventsKept
  <2>8. CASE m[1] = "native" /\ claude /\ events' = Append(events, m)
    <3>1. \A i \in 1 .. Len(events) : events[i][1] = "native" => ~Same(events[i], m)
      <4>1. m = pipe[1] /\ 1 \in 1 .. Len(pipe)
        BY <1>5, TailIndex DEF Read, TypeOK
      <4>2. QED
        BY <4>1 DEF EventInv, Same
    <3> HIDE DEF m, x
    <3>2. x = m[2]
      BY DEF m, x
    <3>3. /\ Len(events) \in Nat
          /\ \A i \in 1 .. Len(events) : events'[i] = events[i]
          /\ events'[Len(events) + 1] = m
          /\ \A i \in 1 .. Len(events') : i \in 1 .. Len(events) \/ i = Len(events) + 1
      BY <2>5, <2>8, AppendIndex
    <3>4. \A i, j \in 1 .. Len(events') :
             events'[i][1] = "native" /\ Same(events'[i], events'[j]) => i = j
      BY <2>8, <3>1, <3>3 DEF EventInv, Same
    <3>5. ASSUME NEW i \in 1 .. Len(events'), events'[i][1] = "native"
          PROVE  /\ claude' /\ events'[i][2] \in Natives /\ events'[i][2] \in sent'
                 /\ replies'[events'[i][2]] = 0 /\ events'[i][2] # held'
                 /\ \A j \in 1 .. Len(pipe') : ~Same(pipe'[j], events'[i])
      <4>1. CASE i \in 1 .. Len(events)
        <5>1. events'[i] = events[i] /\ events[i][1] = "native"
          BY <3>3, <3>5, <4>1
        <5>2. /\ events[i][2] \in Natives /\ claude
              /\ \A j \in 1 .. Len(pipe) : ~Same(pipe[j], events[i])
          BY <4>1, <5>1 DEF EventInv
        <5>3. \A j \in 1 .. Len(pipe') : ~Same(pipe'[j], events[i])
          BY <2>1, <5>2
        <5>4. QED
          BY <2>2, <2>6, <4>1, <5>1, <5>2, <5>3
      <4>2. CASE i = Len(events) + 1
        <5>1. events'[i] = m
          BY <3>3, <4>2
        <5>2. \A j \in 1 .. Len(pipe') : ~Same(pipe'[j], m)
          BY <2>1, <2>8 DEF Same
        <5>3. QED
          BY <2>1, <2>2, <2>3, <2>8, <3>2, <5>1, <5>2 DEF Open
      <4>3. QED
        BY <3>3, <4>1, <4>2
    <3>6. \A i \in 1 .. Len(events') : events'[i][1] = "approval" => events'[i][2] \in Asks
      BY <2>8, <3>3 DEF EventInv
    <3>7. QED
      BY <3>4, <3>5, <3>6 DEF EventInv, Open
  <2>9. CASE m[1] = "native" /\ events' = Append(events, <<"approval", x>>)
    BY <2>1, <2>2, <2>5, <2>6, <2>9, EventsAppended
  <2>10. CASE m[1] = "done" /\ events' = events \o <<m, <<"eof", None>> >>
    BY <2>1, <2>2, <2>5, <2>6, <2>10, EventsAppended
  <2>11. CASE m[1] = "done" /\ events' = events \o <<m>>
    BY <2>1, <2>2, <2>5, <2>6, <2>11, EventsAppended
  <2>12. QED
    BY <1>5, <2>7, <2>8, <2>9, <2>10, <2>11 DEF Read
<1>6. ASSUME ReadEOF PROVE EventInv'
  <2>1. /\ events' = events \/ events' = Append(events, <<"eof", None>>)
        /\ UNCHANGED <<kind, sent, held>>
    BY <1>6 DEF ReadEOF, CloseTools, ReaderStops, ReaderEnds
  <2>2. UNCHANGED <<pipe, replies>>
    BY <1>6 DEF ReadEOF
  <2>3. <<"eof", None>> \in Messages /\ events \in Seq(Messages)
    BY DEF Messages, TypeOK
  <2>4. \A i \in 1 .. Len(events) : events[i][1] = "native" =>
           events[i][2] \in sent' /\ replies'[events[i][2]] = 0 /\ events[i][2] # held'
    BY <2>1, <2>2 DEF EventInv, Open
  <2>5. QED
    BY <2>1, <2>2, <2>3, <2>4, EventsKept, EventsAppended
<1>7. ASSUME ReadFails PROVE EventInv'
  <2>1. /\ events' = events \/ events' = Append(events, <<"eof", None>>)
        /\ UNCHANGED <<kind, sent, held>>
    BY <1>7 DEF ReadFails, CloseTools, ReaderStops, ReaderEnds
  <2>2. UNCHANGED replies /\ \A i \in 1 .. Len(pipe') : \E j \in 1 .. Len(pipe) : pipe'[i] = pipe[j]
    BY <1>7, NextMessage DEF ReadFails
  <2>3. <<"eof", None>> \in Messages /\ events \in Seq(Messages)
    BY DEF Messages, TypeOK
  <2>4. \A i \in 1 .. Len(events) : events[i][1] = "native" =>
           events[i][2] \in sent' /\ replies'[events[i][2]] = 0 /\ events[i][2] # held'
    BY <2>1, <2>2 DEF EventInv, Open
  <2>5. QED
    BY <2>1, <2>2, <2>3, <2>4, EventsKept, EventsAppended
<1>8. ASSUME Handshake PROVE EventInv'
  <2>1. UNCHANGED <<kind, pipe, events, sent, held, replies>>
    BY <1>8 DEF Handshake
  <2>2. QED
    BY <2>1, EventsUntouched
<1>9. ASSUME Take PROVE EventInv'
  <2> DEFINE m == Head(events)
             x == Head(events)[2]
  <2>1. /\ events' = Tail(events) /\ UNCHANGED <<kind, sent, pipe, replies>>
        /\ held' = held \/ (m[1] = "native" /\ held' = x)
    BY <1>9 DEF Take
  <2>2. /\ \A i \in 1 .. Len(events') : m[1] = "native" => ~Same(m, events'[i])
        /\ \A i \in 1 .. Len(events') : \E j \in 1 .. Len(events) : events'[i] = events[j]
        /\ \A i, j \in 1 .. Len(events') :
              events'[i][1] = "native" /\ Same(events'[i], events'[j]) => i = j
    BY <1>9, <2>1, NextEvent DEF Take
  <2>3. \A i \in 1 .. Len(events') : events'[i][1] = "native" => events'[i][2] # held'
    <3>1. \A i \in 1 .. Len(events') : events'[i][1] = "native" => events'[i][2] # held
      BY <2>2 DEF EventInv
    <3>2. QED
      BY <2>1, <2>2, <3>1 DEF Same
  <2> HIDE DEF m, x
  <2>4. ASSUME NEW i \in 1 .. Len(events')
        PROVE  /\ events'[i][1] = "native" =>
                     /\ claude' /\ events'[i][2] \in Natives
                     /\ events'[i][2] \in sent' /\ replies'[events'[i][2]] = 0
                     /\ \A j \in 1 .. Len(pipe') : ~Same(pipe'[j], events'[i])
               /\ events'[i][1] = "approval" => events'[i][2] \in Asks
    <3>1. PICK k \in 1 .. Len(events) : events'[i] = events[k]
      BY <2>2
    <3>2. QED
      BY <2>1, <3>1 DEF EventInv, Open
  <2>5. QED
    BY <2>2, <2>3, <2>4 DEF EventInv, Open
<1>10. ASSUME Resume PROVE EventInv'
  <2>1. UNCHANGED <<kind, sent, pipe, events>> /\ held' = None
    BY <1>10 DEF Resume
  <2>2. \A y \in Natives : y # held => replies'[y] = replies[y]
    BY <1>10 DEF Resume, TypeOK
  <2>3. \A i \in 1 .. Len(events) : events[i][1] = "native" =>
           events[i][2] \in sent' /\ replies'[events[i][2]] = 0 /\ events[i][2] # held'
    BY <2>1, <2>2 DEF EventInv, Open
  <2>4. QED
    BY <2>1, <2>3, EventsKept
<1>11. ASSUME Exited PROVE EventInv'
  <2>1. UNCHANGED <<kind, pipe, events, sent, held, replies>>
    BY <1>11 DEF Exited
  <2>2. QED
    BY <2>1, EventsUntouched
<1>12. ASSUME Close PROVE EventInv'
  <2>1. /\ events' = events \/ events' = Append(events, <<"eof", None>>)
        /\ UNCHANGED <<kind, sent, held>>
    BY <1>12 DEF Close, CloseTools, ReaderStops, ReaderEnds
  <2>2. UNCHANGED pipe /\ (CancelCalls(LiveCalls) \/ UNCHANGED replies)
    BY <1>12 DEF Close, CloseTools
  <2>3. \A y \in Natives : replies'[y] = replies[y]
    BY <2>2, CancelStep DEF LiveCalls
  <2>4. <<"eof", None>> \in Messages /\ events \in Seq(Messages)
    BY DEF Messages, TypeOK
  <2>5. \A i \in 1 .. Len(events) : events[i][1] = "native" =>
           events[i][2] \in sent' /\ replies'[events[i][2]] = 0 /\ events[i][2] # held'
    BY <2>1, <2>3 DEF EventInv, Open
  <2>6. QED
    BY <2>1, <2>2, <2>4, <2>5, EventsKept, EventsAppended
<1>13. ASSUME CloseCalls PROVE EventInv'
  <2>1. UNCHANGED <<kind, sent, pipe, events, held>>
    BY <1>13 DEF CloseCalls
  <2>2. \A y \in Natives : replies'[y] = replies[y]
    BY <1>13, CancelStep DEF CloseCalls, LiveCalls
  <2>3. \A i \in 1 .. Len(events) : events[i][1] = "native" =>
           events[i][2] \in sent' /\ replies'[events[i][2]] = 0 /\ events[i][2] # held'
    BY <2>1, <2>2 DEF EventInv, Open
  <2>4. QED
    BY <2>1, <2>3, EventsKept
<1>14. ASSUME Joined PROVE EventInv'
  <2>1. UNCHANGED <<kind, pipe, events, sent, held, replies>>
    BY <1>14 DEF Joined, Clear
  <2>2. QED
    BY <2>1, EventsUntouched
<1>15. ASSUME Kill PROVE EventInv'
  <2>1. UNCHANGED <<kind, pipe, events, sent, held, replies>>
    BY <1>15 DEF Kill
  <2>2. QED
    BY <2>1, EventsUntouched
<1>16. ASSUME Finish PROVE EventInv'
  <2>1. UNCHANGED <<kind, pipe, events, sent, held, replies>>
    BY <1>16 DEF Finish, Clear
  <2>2. QED
    BY <2>1, EventsUntouched
<1>17. ASSUME Cancel PROVE EventInv'
  <2>1. UNCHANGED <<kind, sent, pipe, events, replies>> /\ held' = None
    BY <1>17 DEF Cancel
  <2>2. \A i \in 1 .. Len(events) : events[i][1] = "native" =>
           events[i][2] \in sent' /\ replies'[events[i][2]] = 0 /\ events[i][2] # held'
    BY <2>1 DEF EventInv, Open
  <2>3. QED
    BY <2>1, <2>2, EventsKept
<1>18. ASSUME CancelFinally PROVE EventInv'
  <2>1. UNCHANGED <<kind, pipe, events, sent, held, replies>>
    BY <1>18 DEF CancelFinally
  <2>2. QED
    BY <2>1, EventsUntouched
<1>19. ASSUME StopBegins PROVE EventInv'
  <2>1. /\ events' = events \/ events' = Append(events, <<"eof", None>>)
        /\ UNCHANGED <<kind, sent, held>>
    BY <1>19 DEF StopBegins, CloseTools, ReaderStops, ReaderEnds
  <2>2. UNCHANGED pipe /\ CancelCalls(LiveCalls)
    BY <1>19 DEF StopBegins, CloseTools
  <2>3. \A y \in Natives : replies'[y] = replies[y]
    BY <2>2, CancelStep DEF LiveCalls
  <2>4. <<"eof", None>> \in Messages /\ events \in Seq(Messages)
    BY DEF Messages, TypeOK
  <2>5. \A i \in 1 .. Len(events) : events[i][1] = "native" =>
           events[i][2] \in sent' /\ replies'[events[i][2]] = 0 /\ events[i][2] # held'
    BY <2>1, <2>3 DEF EventInv, Open
  <2>6. QED
    BY <2>1, <2>2, <2>4, <2>5, EventsKept, EventsAppended
<1>20. ASSUME StopClears PROVE EventInv'
  <2>1. UNCHANGED <<kind, pipe, events, sent, held, replies>>
    BY <1>20 DEF StopClears, Clear
  <2>2. QED
    BY <2>1, EventsUntouched
<1>21. ASSUME StopKills PROVE EventInv'
  <2>1. UNCHANGED <<kind, pipe, events, sent, held, replies>>
    BY <1>21 DEF StopKills
  <2>2. QED
    BY <2>1, EventsUntouched
<1>22. ASSUME NEW c \in Calls, Enter(c) PROVE EventInv'
  <2>1. UNCHANGED <<kind, pipe, events, sent, held, replies>>
    BY <1>22 DEF Enter
  <2>2. QED
    BY <2>1, EventsUntouched
<1>23. ASSUME NEW c \in Calls, TakeLock(c) PROVE EventInv'
  <2>1. /\ events' = events \/ events' = Append(events, <<"approval", c>>)
        /\ UNCHANGED <<kind, sent, held, pipe, replies>>
    BY <1>23 DEF TakeLock
  <2>2. /\ <<"approval", c>> \in Messages /\ <<"eof", None>> \in Messages
        /\ events \in Seq(Messages) /\ c \in Asks
    BY DEF Messages, TypeOK
  <2>3. \A i \in 1 .. Len(events) : events[i][1] = "native" =>
           events[i][2] \in sent' /\ replies'[events[i][2]] = 0 /\ events[i][2] # held'
    BY <2>1 DEF EventInv, Open
  <2>4. QED
    BY <2>1, <2>2, <2>3, EventsKept, EventsAppended
<1>24. ASSUME NEW c \in Calls, Decided(c) PROVE EventInv'
  <2>1. UNCHANGED <<kind, sent, pipe, events, held>>
    BY <1>24 DEF Decided
  <2>2. \A y \in Natives : replies'[y] = replies[y]
    BY <1>24 DEF Decided, Answers, TypeOK
  <2>3. \A i \in 1 .. Len(events) : events[i][1] = "native" =>
           events[i][2] \in sent' /\ replies'[events[i][2]] = 0 /\ events[i][2] # held'
    BY <2>1, <2>2 DEF EventInv, Open
  <2>4. QED
    BY <2>1, <2>3, EventsKept
<1>25. ASSUME NEW c \in Calls, Executed(c) PROVE EventInv'
  <2>1. UNCHANGED <<kind, sent, pipe, events, held>>
    BY <1>25 DEF Executed
  <2>2. \A y \in Natives : replies'[y] = replies[y]
    BY <1>25 DEF Executed, Answers, TypeOK
  <2>3. \A i \in 1 .. Len(events) : events[i][1] = "native" =>
           events[i][2] \in sent' /\ replies'[events[i][2]] = 0 /\ events[i][2] # held'
    BY <2>1, <2>2 DEF EventInv, Open
  <2>4. QED
    BY <2>1, <2>3, EventsKept
<1>26. ASSUME NEW c \in Calls, Cleaned(c) PROVE EventInv'
  <2>1. UNCHANGED <<kind, sent, pipe, events, held>>
    BY <1>26 DEF Cleaned
  <2>2. \A y \in Natives : replies'[y] = replies[y]
    BY <1>26 DEF Cleaned, TypeOK
  <2>3. \A i \in 1 .. Len(events) : events[i][1] = "native" =>
           events[i][2] \in sent' /\ replies'[events[i][2]] = 0 /\ events[i][2] # held'
    BY <2>1, <2>2 DEF EventInv, Open
  <2>4. QED
    BY <2>1, <2>3, EventsKept
<1>27. ASSUME NEW c \in Calls, Drained(c) PROVE EventInv'
  <2>1. UNCHANGED <<kind, pipe, events, sent, held, replies>>
    BY <1>27 DEF Drained
  <2>2. QED
    BY <2>1, EventsUntouched
<1>28. ASSUME NEW n \in Natives, ResolveNative(n) PROVE EventInv'
  <2>1. UNCHANGED <<kind, sent, pipe, events, held>> /\ n \in resolvers
    BY <1>28 DEF ResolveNative
  <2>2. \A i \in 1 .. Len(events) : events[i][1] # "native"
    BY <2>1 DEF EventInv, ReplyInv
  <2>3. QED
    BY <2>1, <2>2, EventsKept
<1>29. ASSUME NEW x \in Asks, NEW b \in {"allow", "deny"}, Answer(x, b) PROVE EventInv'
  <2>1. UNCHANGED <<kind, pipe, events, sent, held, replies>>
    BY <1>29 DEF Answer
  <2>2. QED
    BY <2>1, EventsUntouched
<1>30. CASE UNCHANGED vars
  BY <1>30 DEF vars, EventInv, Open, Same
<1>31. QED
  BY <1>1, <1>2, <1>3, <1>4, <1>5, <1>6, <1>7, <1>8, <1>9, <1>10, <1>11, <1>12,
     <1>13, <1>14, <1>15, <1>16, <1>17, <1>18, <1>19, <1>20, <1>21, <1>22, <1>23,
     <1>24, <1>25, <1>26, <1>27, <1>28, <1>29, <1>30 DEF Next, Agent, Turn, Stop, Call

\* What is answered is asked for no more.
LEMMA ReplyStep ==
    ASSUME TypeOK, LineInv, PipeInv, EventInv, ReplyInv, [Next]_vars
    PROVE  ReplyInv'
<1> USE AgentTurnAssumption DEF Asks, Replied, claude, pi, agentVars, futureVars, turnVars
<1>1. ASSUME NEW x \in Asks, AgentAsks(x) PROVE ReplyInv'
  BY <1>1 DEF AgentAsks, AgentSays, ReplyInv, CallReplies, InLine, Open, TypeOK, CallStates
<1>2. ASSUME NEW c \in Calls, AgentWithdraws(c) PROVE ReplyInv'
  BY <1>2 DEF AgentWithdraws, AgentSays, ReplyInv, CallReplies, InLine, Open, TypeOK, CallStates
<1>3. ASSUME AgentSettles PROVE ReplyInv'
  BY <1>3 DEF AgentSettles, AgentSays, ReplyInv, CallReplies, InLine, Open, TypeOK, CallStates
<1>4. ASSUME AgentExits PROVE ReplyInv'
  BY <1>4 DEF AgentExits, ReplyInv, CallReplies, InLine, Open, TypeOK, CallStates
<1>5. ASSUME Read PROVE ReplyInv'
  <2> DEFINE m == Head(pipe)
             x == Head(pipe)[2]
  <2>1. /\ m[1] = "call" => x \in Calls /\ Open(x) /\ call[x] = "none"
        /\ m[1] = "native" => x \in Natives /\ Open(x)
    BY <1>5, NextMessage DEF Read
  <2>2. /\ UNCHANGED <<kind, sent, held>>
        /\ resolvers' = resolvers \/ (m[1] = "native" /\ pi /\ resolvers' = resolvers \cup {x})
        /\ \/ UNCHANGED <<call, replies>>
           \/ m[1] = "call" /\ ReadCall(x)
           \/ CancelCalls({x} \cap LiveCalls)
    <3>1. UNCHANGED <<kind, sent, held>>
      BY <1>5 DEF Read
    <3>2. resolvers' = resolvers \/ (m[1] = "native" /\ pi /\ resolvers' = resolvers \cup {x})
      BY <1>5 DEF Read
    <3>3. \/ UNCHANGED <<call, replies>>
          \/ m[1] = "call" /\ ReadCall(x)
          \/ CancelCalls({x} \cap LiveCalls)
      BY <1>5 DEF Read
    <3>4. QED
      BY <3>1, <3>2, <3>3
  <2> HIDE DEF m, x
  <2>3. /\ \A c \in Calls : CallReplies(c)'
        /\ \A y \in Asks : y \notin sent => replies'[y] = 0
        /\ \A n \in Natives : replies'[n] = replies[n]
    <3>1. CASE UNCHANGED <<call, replies>>
      BY <2>2, <3>1 DEF ReplyInv, CallReplies, InLine
    <3>2. CASE m[1] = "call" /\ ReadCall(x)
      <4>1. x \in Calls /\ x \in sent /\ replies[x] = 0 /\ call[x] = "none"
        BY <2>1, <3>2 DEF Open
      <4>2. /\ \A c \in Calls : c # x => call'[c] = call[c]
            /\ \A y \in Asks : y # x => replies'[y] = replies[y]
            /\ \/ call'[x] = "replied" /\ replies'[x] = 1
               \/ call'[x] = "created" /\ replies'[x] = 0
        BY <3>2, <4>1 DEF ReadCall, Create, TypeOK
      <4>3. QED
        BY <2>2, <4>1, <4>2 DEF ReplyInv, CallReplies, InLine
    <3>3. CASE CancelCalls({x} \cap LiveCalls)
      <4> DEFINE S == {x} \cap LiveCalls
      <4>1. S \in SUBSET LiveCalls /\ CancelCalls(S)
        BY <3>3
      <4> HIDE DEF S
      <4>2. QED
        BY <2>2, <4>1, CancelReplies
    <3>4. QED
      BY <2>2, <3>1, <3>2, <3>3
  <2>4. held' # None => claude /\ held' \in sent' /\ replies'[held'] = 0
    <3>1. held # None => held \in Natives /\ claude /\ Open(held)
      BY DEF ReplyInv, TypeOK
    <3>2. QED
      BY <2>2, <2>3, <3>1 DEF Open
  <2>5. \A n \in resolvers' : pi /\ n \in sent' /\ replies'[n] = 0
    <3>1. \A n \in resolvers : n \in Natives /\ pi /\ Open(n)
      BY DEF ReplyInv, TypeOK
    <3>2. QED
      BY <2>1, <2>2, <2>3, <3>1 DEF Open
  <2>6. QED
    BY <2>2, <2>3, <2>4, <2>5 DEF ReplyInv, Open
<1>6. ASSUME ReadEOF PROVE ReplyInv'
  BY <1>6 DEF ReadEOF, ReaderEnds, ReplyInv, CallReplies, InLine, Open, TypeOK, CallStates
<1>7. ASSUME ReadFails PROVE ReplyInv'
  BY <1>7 DEF ReadFails, ReaderEnds, ReplyInv, CallReplies, InLine, Open, TypeOK, CallStates
<1>8. ASSUME Handshake PROVE ReplyInv'
  BY <1>8 DEF Handshake, ReplyInv, CallReplies, InLine, Open, TypeOK, CallStates
<1>9. ASSUME Take PROVE ReplyInv'
  <2>1. UNCHANGED <<kind, call, sent, replies, resolvers>>
    BY <1>9 DEF Take
  <2>2. held' # None => claude /\ held' \in sent' /\ replies'[held'] = 0
    <3>1. CASE held' = held
      BY <2>1, <3>1 DEF ReplyInv, Open
    <3>2. CASE Head(events)[1] = "native" /\ held' = Head(events)[2]
      BY <1>9, <2>1, <3>2, NextEvent DEF Take, Open
    <3>3. QED
      BY <1>9, <3>1, <3>2 DEF Take
  <2>3. QED
    BY <2>1, <2>2 DEF ReplyInv, CallReplies, InLine, Open
<1>10. ASSUME Resume PROVE ReplyInv'
  <2>1. /\ held # None /\ held \in Natives /\ held \in Asks /\ held' = None
        /\ UNCHANGED <<kind, sent, call, resolvers>>
        /\ replies' = replies \/ replies' = [replies EXCEPT ![held] = @ + 1]
    BY <1>10 DEF Resume, TypeOK
  <2>2. claude /\ Open(held)
    BY <2>1 DEF ReplyInv
  <2>3. /\ \A y \in Asks : y # held => replies'[y] = replies[y]
        /\ replies'[held] <= 1
    BY <2>1, <2>2 DEF Open, TypeOK
  <2>4. QED
    BY <2>1, <2>2, <2>3 DEF ReplyInv, CallReplies, InLine, Open
<1>11. ASSUME Exited PROVE ReplyInv'
  BY <1>11 DEF Exited, ReplyInv, CallReplies, InLine, Open, TypeOK, CallStates
<1>12. ASSUME Close PROVE ReplyInv'
  <2>1. UNCHANGED <<kind, sent, held, resolvers>>
    BY <1>12 DEF Close
  <2>2. /\ \A c \in Calls : CallReplies(c)'
        /\ \A y \in Asks : y \notin sent => replies'[y] = 0
        /\ \A n \in Natives : replies'[n] = replies[n]
    <3>1. CASE CancelCalls(LiveCalls)
      BY <2>1, <3>1, CancelReplies
    <3>2. CASE UNCHANGED <<call, replies>>
      BY <2>1, <3>2 DEF ReplyInv, CallReplies, InLine
    <3>3. QED
      BY <1>12, <3>1, <3>2 DEF Close, CloseTools
  <2>3. held # None => held \in Natives
    BY DEF TypeOK
  <2>4. resolvers \subseteq Natives
    BY DEF TypeOK
  <2>5. QED
    BY <2>1, <2>2, <2>3, <2>4 DEF ReplyInv, Open
<1>13. ASSUME CloseCalls PROVE ReplyInv'
  <2>1. UNCHANGED <<kind, sent, held, resolvers>> /\ CancelCalls(LiveCalls)
    BY <1>13 DEF CloseCalls
  <2>2. /\ \A c \in Calls : CallReplies(c)'
        /\ \A y \in Asks : y \notin sent => replies'[y] = 0
        /\ \A n \in Natives : replies'[n] = replies[n]
    BY <2>1, CancelReplies
  <2>3. held # None => held \in Natives
    BY DEF TypeOK
  <2>4. resolvers \subseteq Natives
    BY DEF TypeOK
  <2>5. QED
    BY <2>1, <2>2, <2>3, <2>4 DEF ReplyInv, Open
<1>14. ASSUME Joined PROVE ReplyInv'
  BY <1>14 DEF Joined, Clear, ReplyInv, CallReplies, InLine, Open, TypeOK, CallStates
<1>15. ASSUME Kill PROVE ReplyInv'
  BY <1>15 DEF Kill, ReplyInv, CallReplies, InLine, Open, TypeOK, CallStates
<1>16. ASSUME Finish PROVE ReplyInv'
  BY <1>16 DEF Finish, Clear, ReplyInv, CallReplies, InLine, Open, TypeOK, CallStates
<1>17. ASSUME Cancel PROVE ReplyInv'
  BY <1>17 DEF Cancel, ReplyInv, CallReplies, InLine, Open, TypeOK, CallStates
<1>18. ASSUME CancelFinally PROVE ReplyInv'
  BY <1>18 DEF CancelFinally, ReplyInv, CallReplies, InLine, Open, TypeOK, CallStates
<1>19. ASSUME StopBegins PROVE ReplyInv'
  <2>1. UNCHANGED <<kind, sent, held, resolvers>> /\ CancelCalls(LiveCalls)
    BY <1>19 DEF StopBegins, CloseTools
  <2>2. /\ \A c \in Calls : CallReplies(c)'
        /\ \A y \in Asks : y \notin sent => replies'[y] = 0
        /\ \A n \in Natives : replies'[n] = replies[n]
    BY <2>1, CancelReplies
  <2>3. held # None => held \in Natives
    BY DEF TypeOK
  <2>4. resolvers \subseteq Natives
    BY DEF TypeOK
  <2>5. QED
    BY <2>1, <2>2, <2>3, <2>4 DEF ReplyInv, Open
<1>20. ASSUME StopClears PROVE ReplyInv'
  BY <1>20 DEF StopClears, Clear, ReplyInv, CallReplies, InLine, Open, TypeOK, CallStates
<1>21. ASSUME StopKills PROVE ReplyInv'
  BY <1>21 DEF StopKills, ReplyInv, CallReplies, InLine, Open, TypeOK, CallStates
<1>22. ASSUME NEW c \in Calls, Enter(c) PROVE ReplyInv'
  BY <1>22 DEF Enter, ReplyInv, CallReplies, InLine, Open, TypeOK, CallStates
<1>23. ASSUME NEW c \in Calls, TakeLock(c) PROVE ReplyInv'
  BY <1>23 DEF TakeLock, ReplyInv, CallReplies, InLine, Open, TypeOK, CallStates
<1>24. ASSUME NEW c \in Calls, Decided(c) PROVE ReplyInv'
  <2>1. /\ UNCHANGED <<kind, sent, held, resolvers>> /\ call[c] \in {"asking", "running"}
        /\ c \in Asks /\ c \notin Natives
        /\ \A d \in Calls : d # c => call'[d] = call[d]
        /\ \A y \in Asks : y # c => replies'[y] = replies[y]
        /\ \/ call'[c] = "running" /\ replies'[c] = replies[c]
           \/ call'[c] \in {"replying", "failing"} /\ replies'[c] = replies[c] + 1
    BY <1>24 DEF Decided, Answers, TypeOK
  <2>2. CallReplies(c) /\ replies[c] = 0 /\ c \in sent
    BY <2>1 DEF ReplyInv, CallReplies, InLine
  <2>3. \A d \in Calls : CallReplies(d)'
    BY <2>1, <2>2 DEF ReplyInv, CallReplies, InLine
  <2>4. /\ held # None => held \in Natives
        /\ resolvers \subseteq Natives
    BY DEF TypeOK
  <2>5. QED
    BY <2>1, <2>2, <2>3, <2>4 DEF ReplyInv, Open
<1>25. ASSUME NEW c \in Calls, Executed(c) PROVE ReplyInv'
  <2>1. /\ UNCHANGED <<kind, sent, held, resolvers>> /\ call[c] \in {"asking", "running"}
        /\ c \in Asks /\ c \notin Natives
        /\ \A d \in Calls : d # c => call'[d] = call[d]
        /\ \A y \in Asks : y # c => replies'[y] = replies[y]
        /\ \/ call'[c] = "running" /\ replies'[c] = replies[c]
           \/ call'[c] \in {"replying", "failing"} /\ replies'[c] = replies[c] + 1
    BY <1>25 DEF Executed, Answers, TypeOK
  <2>2. CallReplies(c) /\ replies[c] = 0 /\ c \in sent
    BY <2>1 DEF ReplyInv, CallReplies, InLine
  <2>3. \A d \in Calls : CallReplies(d)'
    BY <2>1, <2>2 DEF ReplyInv, CallReplies, InLine
  <2>4. /\ held # None => held \in Natives
        /\ resolvers \subseteq Natives
    BY DEF TypeOK
  <2>5. QED
    BY <2>1, <2>2, <2>3, <2>4 DEF ReplyInv, Open
<1>26. ASSUME NEW c \in Calls, Cleaned(c) PROVE ReplyInv'
  BY <1>26 DEF Cleaned, ReplyInv, CallReplies, InLine, Open, TypeOK, CallStates
<1>27. ASSUME NEW c \in Calls, Drained(c) PROVE ReplyInv'
  BY <1>27 DEF Drained, ReplyInv, CallReplies, InLine, Open, TypeOK, CallStates
<1>28. ASSUME NEW n \in Natives, ResolveNative(n) PROVE ReplyInv'
  BY <1>28 DEF ResolveNative, ReplyInv, CallReplies, InLine, Open, TypeOK, CallStates
<1>29. ASSUME NEW x \in Asks, NEW b \in {"allow", "deny"}, Answer(x, b) PROVE ReplyInv'
  BY <1>29 DEF Answer, ReplyInv, CallReplies, InLine, Open, TypeOK, CallStates
<1>30. CASE UNCHANGED vars
  BY <1>30 DEF vars, ReplyInv, CallReplies, InLine, Open, TypeOK, CallStates
<1>31. QED
  BY <1>1, <1>2, <1>3, <1>4, <1>5, <1>6, <1>7, <1>8, <1>9, <1>10, <1>11, <1>12,
     <1>13, <1>14, <1>15, <1>16, <1>17, <1>18, <1>19, <1>20, <1>21, <1>22, <1>23,
     <1>24, <1>25, <1>26, <1>27, <1>28, <1>29, <1>30 DEF Next, Agent, Turn, Stop, Call

\* Only an approval makes an asking call run, and no decision is taken back.
LEMMA ApprovalStep ==
    ASSUME TypeOK, RunsByApproval, [Next]_vars
    PROVE  RunsByApproval'
<1> USE AgentTurnAssumption DEF TypeOK, CallStates, RunsByApproval, Asks, agentVars, futureVars,
     turnVars
<1>1. ASSUME NEW x \in Asks, AgentAsks(x) PROVE RunsByApproval'
  BY <1>1 DEF AgentAsks, AgentSays
<1>2. ASSUME NEW c \in Calls, AgentWithdraws(c) PROVE RunsByApproval'
  BY <1>2 DEF AgentWithdraws, AgentSays
<1>3. ASSUME AgentSettles PROVE RunsByApproval'
  BY <1>3 DEF AgentSettles, AgentSays
<1>4. ASSUME AgentExits PROVE RunsByApproval'
  BY <1>4 DEF AgentExits
<1>5. ASSUME Read PROVE RunsByApproval'
  <2>1. /\ reader = "on" /\ pipe # <<>>
        /\ UNCHANGED <<kind, decision, registered, stop, gen, reader>>
        /\ \/ UNCHANGED call
           \/ \E y : ReadCall(y)
           \/ \E y : CancelCalls({y} \cap LiveCalls)
    BY <1>5 DEF Read
  <2>2. CASE UNCHANGED call
    BY <2>1, <2>2
  <2>3. ASSUME NEW y, ReadCall(y) PROVE RunsByApproval'
    BY <2>1, <2>3 DEF ReadCall, Create
  <2>4. ASSUME NEW y, CancelCalls({y} \cap LiveCalls) PROVE RunsByApproval'
    BY <2>1, <2>4 DEF CancelCalls, Cancelled
  <2>5. QED
    BY <2>1, <2>2, <2>3, <2>4
<1>6. ASSUME ReadEOF PROVE RunsByApproval'
  BY <1>6 DEF ReadEOF, ReaderEnds
<1>7. ASSUME ReadFails PROVE RunsByApproval'
  BY <1>7 DEF ReadFails, ReaderEnds
<1>8. ASSUME Handshake PROVE RunsByApproval'
  BY <1>8 DEF Handshake
<1>9. ASSUME Take PROVE RunsByApproval'
  BY <1>9 DEF Take
<1>10. ASSUME Resume PROVE RunsByApproval'
  BY <1>10 DEF Resume
<1>11. ASSUME Exited PROVE RunsByApproval'
  BY <1>11 DEF Exited
<1>12. ASSUME Close PROVE RunsByApproval'
  BY <1>12 DEF Close, CloseTools, CancelCalls, Cancelled, ReaderStops, ReaderEnds
<1>13. ASSUME CloseCalls PROVE RunsByApproval'
  BY <1>13 DEF CloseCalls, CancelCalls, Cancelled
<1>14. ASSUME Joined PROVE RunsByApproval'
  BY <1>14 DEF Joined, Clear
<1>15. ASSUME Kill PROVE RunsByApproval'
  BY <1>15 DEF Kill
<1>16. ASSUME Finish PROVE RunsByApproval'
  BY <1>16 DEF Finish, Clear
<1>17. ASSUME Cancel PROVE RunsByApproval'
  BY <1>17 DEF Cancel, Awaiting
<1>18. ASSUME CancelFinally PROVE RunsByApproval'
  BY <1>18 DEF CancelFinally
<1>19. ASSUME StopBegins PROVE RunsByApproval'
  BY <1>19 DEF StopBegins, CloseTools, CancelCalls, Cancelled, ReaderStops, ReaderEnds
<1>20. ASSUME StopClears PROVE RunsByApproval'
  BY <1>20 DEF StopClears, Clear
<1>21. ASSUME StopKills PROVE RunsByApproval'
  BY <1>21 DEF StopKills
<1>22. ASSUME NEW c \in Calls, Enter(c) PROVE RunsByApproval'
  BY <1>22 DEF Enter
<1>23. ASSUME NEW c \in Calls, TakeLock(c) PROVE RunsByApproval'
  BY <1>23 DEF TakeLock
<1>24. ASSUME NEW c \in Calls, Decided(c) PROVE RunsByApproval'
  BY <1>24 DEF Decided, Answers
<1>25. ASSUME NEW c \in Calls, Executed(c) PROVE RunsByApproval'
  BY <1>25 DEF Executed, Answers
<1>26. ASSUME NEW c \in Calls, Cleaned(c) PROVE RunsByApproval'
  BY <1>26 DEF Cleaned
<1>27. ASSUME NEW c \in Calls, Drained(c) PROVE RunsByApproval'
  BY <1>27 DEF Drained
<1>28. ASSUME NEW n \in Natives, ResolveNative(n) PROVE RunsByApproval'
  BY <1>28 DEF ResolveNative
<1>29. ASSUME NEW x \in Asks, NEW b \in {"allow", "deny"}, Answer(x, b) PROVE RunsByApproval'
  BY <1>29 DEF Answer
<1>30. CASE UNCHANGED vars
  BY <1>30 DEF vars
<1>31. QED
  BY <1>1, <1>2, <1>3, <1>4, <1>5, <1>6, <1>7, <1>8, <1>9, <1>10, <1>11, <1>12,
     <1>13, <1>14, <1>15, <1>16, <1>17, <1>18, <1>19, <1>20, <1>21, <1>22, <1>23,
     <1>24, <1>25, <1>26, <1>27, <1>28, <1>29, <1>30 DEF Next, Agent, Turn, Stop, Call

\* Stop cancels the calls and silences the reader, or revokes dispatch.
LEMMA StopStep ==
    ASSUME TypeOK, StopInv, [Next]_vars
    PROVE  StopInv'
<1> USE AgentTurnAssumption DEF TypeOK, CallStates, StopInv, LiveCalls, Live, InLine, claude, pi,
     agentVars, futureVars, turnVars
<1>1. ASSUME NEW x \in Asks, AgentAsks(x) PROVE StopInv'
  BY <1>1 DEF AgentAsks, AgentSays
<1>2. ASSUME NEW c \in Calls, AgentWithdraws(c) PROVE StopInv'
  BY <1>2 DEF AgentWithdraws, AgentSays
<1>3. ASSUME AgentSettles PROVE StopInv'
  BY <1>3 DEF AgentSettles, AgentSays
<1>4. ASSUME AgentExits PROVE StopInv'
  BY <1>4 DEF AgentExits
<1>5. ASSUME Read PROVE StopInv'
  <2>1. /\ reader = "on" /\ pipe # <<>>
        /\ UNCHANGED <<kind, decision, registered, stop, gen, reader>>
        /\ \/ UNCHANGED call
           \/ \E y : ReadCall(y)
           \/ \E y : CancelCalls({y} \cap LiveCalls)
    BY <1>5 DEF Read
  <2>2. CASE UNCHANGED call
    BY <2>1, <2>2
  <2>3. ASSUME NEW y, ReadCall(y) PROVE StopInv'
    BY <2>1, <2>3 DEF ReadCall, Create
  <2>4. ASSUME NEW y, CancelCalls({y} \cap LiveCalls) PROVE StopInv'
    BY <2>1, <2>4 DEF CancelCalls, Cancelled
  <2>5. QED
    BY <2>1, <2>2, <2>3, <2>4
<1>6. ASSUME ReadEOF PROVE StopInv'
  BY <1>6 DEF ReadEOF, ReaderEnds
<1>7. ASSUME ReadFails PROVE StopInv'
  BY <1>7 DEF ReadFails, ReaderEnds
<1>8. ASSUME Handshake PROVE StopInv'
  BY <1>8 DEF Handshake
<1>9. ASSUME Take PROVE StopInv'
  BY <1>9 DEF Take
<1>10. ASSUME Resume PROVE StopInv'
  BY <1>10 DEF Resume
<1>11. ASSUME Exited PROVE StopInv'
  BY <1>11 DEF Exited
<1>12. ASSUME Close PROVE StopInv'
  BY <1>12 DEF Close, CloseTools, CancelCalls, Cancelled, ReaderStops, ReaderEnds
<1>13. ASSUME CloseCalls PROVE StopInv'
  BY <1>13 DEF CloseCalls, CancelCalls, Cancelled
<1>14. ASSUME Joined PROVE StopInv'
  BY <1>14 DEF Joined, Clear
<1>15. ASSUME Kill PROVE StopInv'
  BY <1>15 DEF Kill
<1>16. ASSUME Finish PROVE StopInv'
  BY <1>16 DEF Finish, Clear
<1>17. ASSUME Cancel PROVE StopInv'
  BY <1>17 DEF Cancel, Awaiting
<1>18. ASSUME CancelFinally PROVE StopInv'
  BY <1>18 DEF CancelFinally
<1>19. ASSUME StopBegins PROVE StopInv'
  <2>1. CancelCalls(LiveCalls)
    BY <1>19 DEF StopBegins, CloseTools
  <2>2. \A c \in Calls : call'[c] \notin {"created", "queued", "asking", "running"}
    BY <2>1 DEF CancelCalls, Cancelled
  <2>3. (claude => reader' = "done") /\ (pi => ~registered') /\ stop' = "closing" /\ kind' = kind
    BY <1>19 DEF StopBegins, CloseTools, ReaderStops, ReaderEnds
  <2>4. QED
    BY <2>2, <2>3
<1>20. ASSUME StopClears PROVE StopInv'
  BY <1>20 DEF StopClears, Clear
<1>21. ASSUME StopKills PROVE StopInv'
  BY <1>21 DEF StopKills
<1>22. ASSUME NEW c \in Calls, Enter(c) PROVE StopInv'
  BY <1>22 DEF Enter
<1>23. ASSUME NEW c \in Calls, TakeLock(c) PROVE StopInv'
  BY <1>23 DEF TakeLock
<1>24. ASSUME NEW c \in Calls, Decided(c) PROVE StopInv'
  BY <1>24 DEF Decided, Answers
<1>25. ASSUME NEW c \in Calls, Executed(c) PROVE StopInv'
  BY <1>25 DEF Executed, Answers
<1>26. ASSUME NEW c \in Calls, Cleaned(c) PROVE StopInv'
  BY <1>26 DEF Cleaned
<1>27. ASSUME NEW c \in Calls, Drained(c) PROVE StopInv'
  BY <1>27 DEF Drained
<1>28. ASSUME NEW n \in Natives, ResolveNative(n) PROVE StopInv'
  BY <1>28 DEF ResolveNative
<1>29. ASSUME NEW x \in Asks, NEW b \in {"allow", "deny"}, Answer(x, b) PROVE StopInv'
  BY <1>29 DEF Answer
<1>30. CASE UNCHANGED vars
  BY <1>30 DEF vars
<1>31. QED
  BY <1>1, <1>2, <1>3, <1>4, <1>5, <1>6, <1>7, <1>8, <1>9, <1>10, <1>11, <1>12,
     <1>13, <1>14, <1>15, <1>16, <1>17, <1>18, <1>19, <1>20, <1>21, <1>22, <1>23,
     <1>24, <1>25, <1>26, <1>27, <1>28, <1>29, <1>30 DEF Next, Agent, Turn, Stop, Call

\* A turn that is being closed takes nothing new.
LEMMA PhaseStep ==
    ASSUME TypeOK, PhaseInv, [Next]_vars
    PROVE  PhaseInv'
<1> USE AgentTurnAssumption DEF TypeOK, CallStates, PhaseInv, LiveCalls, Live, InLine, claude, pi,
     agentVars, futureVars, turnVars
<1>1. ASSUME NEW x \in Asks, AgentAsks(x) PROVE PhaseInv'
  BY <1>1 DEF AgentAsks, AgentSays
<1>2. ASSUME NEW c \in Calls, AgentWithdraws(c) PROVE PhaseInv'
  BY <1>2 DEF AgentWithdraws, AgentSays
<1>3. ASSUME AgentSettles PROVE PhaseInv'
  BY <1>3 DEF AgentSettles, AgentSays
<1>4. ASSUME AgentExits PROVE PhaseInv'
  BY <1>4 DEF AgentExits
<1>5. ASSUME Read PROVE PhaseInv'
  BY <1>5 DEF Read, ReadCall, Create, CancelCalls, Cancelled
<1>6. ASSUME ReadEOF PROVE PhaseInv'
  BY <1>6 DEF ReadEOF, ReaderEnds
<1>7. ASSUME ReadFails PROVE PhaseInv'
  BY <1>7 DEF ReadFails, ReaderEnds
<1>8. ASSUME Handshake PROVE PhaseInv'
  BY <1>8 DEF Handshake
<1>9. ASSUME Take PROVE PhaseInv'
  BY <1>9 DEF Take
<1>10. ASSUME Resume PROVE PhaseInv'
  BY <1>10 DEF Resume
<1>11. ASSUME Exited PROVE PhaseInv'
  BY <1>11 DEF Exited
<1>12. ASSUME Close PROVE PhaseInv'
  BY <1>12 DEF Close, CloseTools, CancelCalls, Cancelled, ReaderStops, ReaderEnds
<1>13. ASSUME CloseCalls PROVE PhaseInv'
  BY <1>13 DEF CloseCalls, CancelCalls, Cancelled
<1>14. ASSUME Joined PROVE PhaseInv'
  BY <1>14 DEF Joined, Clear
<1>15. ASSUME Kill PROVE PhaseInv'
  BY <1>15 DEF Kill
<1>16. ASSUME Finish PROVE PhaseInv'
  BY <1>16 DEF Finish, Clear
<1>17. ASSUME Cancel PROVE PhaseInv'
  BY <1>17 DEF Cancel, Awaiting
<1>18. ASSUME CancelFinally PROVE PhaseInv'
  BY <1>18 DEF CancelFinally
<1>19. ASSUME StopBegins PROVE PhaseInv'
  BY <1>19 DEF StopBegins, CloseTools, CancelCalls, Cancelled, ReaderStops, ReaderEnds
<1>20. ASSUME StopClears PROVE PhaseInv'
  BY <1>20 DEF StopClears, Clear
<1>21. ASSUME StopKills PROVE PhaseInv'
  BY <1>21 DEF StopKills
<1>22. ASSUME NEW c \in Calls, Enter(c) PROVE PhaseInv'
  BY <1>22 DEF Enter
<1>23. ASSUME NEW c \in Calls, TakeLock(c) PROVE PhaseInv'
  BY <1>23 DEF TakeLock
<1>24. ASSUME NEW c \in Calls, Decided(c) PROVE PhaseInv'
  BY <1>24 DEF Decided, Answers
<1>25. ASSUME NEW c \in Calls, Executed(c) PROVE PhaseInv'
  BY <1>25 DEF Executed, Answers
<1>26. ASSUME NEW c \in Calls, Cleaned(c) PROVE PhaseInv'
  BY <1>26 DEF Cleaned
<1>27. ASSUME NEW c \in Calls, Drained(c) PROVE PhaseInv'
  BY <1>27 DEF Drained
<1>28. ASSUME NEW n \in Natives, ResolveNative(n) PROVE PhaseInv'
  BY <1>28 DEF ResolveNative
<1>29. ASSUME NEW x \in Asks, NEW b \in {"allow", "deny"}, Answer(x, b) PROVE PhaseInv'
  BY <1>29 DEF Answer
<1>30. CASE UNCHANGED vars
  BY <1>30 DEF vars
<1>31. QED
  BY <1>1, <1>2, <1>3, <1>4, <1>5, <1>6, <1>7, <1>8, <1>9, <1>10, <1>11, <1>12,
     <1>13, <1>14, <1>15, <1>16, <1>17, <1>18, <1>19, <1>20, <1>21, <1>22, <1>23,
     <1>24, <1>25, <1>26, <1>27, <1>28, <1>29, <1>30 DEF Next, Agent, Turn, Stop, Call

\* Who takes a process out of the registry kills it, or leaves that to the turn.
LEMMA ProcStep ==
    ASSUME TypeOK, StopInv, ProcInv, [Next]_vars
    PROVE  ProcInv'
<1> USE DEF TypeOK, ProcInv, claude, pi, Killed, agentVars, futureVars, turnVars
<1>1. ASSUME NEW x \in Asks, AgentAsks(x) PROVE ProcInv'
  BY <1>1 DEF AgentAsks, AgentSays
<1>2. ASSUME NEW c \in Calls, AgentWithdraws(c) PROVE ProcInv'
  BY <1>2 DEF AgentWithdraws, AgentSays
<1>3. ASSUME AgentSettles PROVE ProcInv'
  BY <1>3 DEF AgentSettles, AgentSays
<1>4. ASSUME AgentExits PROVE ProcInv'
  BY <1>4 DEF AgentExits
<1>5. ASSUME Read PROVE ProcInv'
  BY <1>5 DEF Read, ReadCall, Create, CancelCalls, Cancelled
<1>6. ASSUME ReadEOF PROVE ProcInv'
  BY <1>6 DEF ReadEOF, ReaderEnds
<1>7. ASSUME ReadFails PROVE ProcInv'
  BY <1>7 DEF ReadFails, ReaderEnds
<1>8. ASSUME Handshake PROVE ProcInv'
  BY <1>8 DEF Handshake
<1>9. ASSUME Take PROVE ProcInv'
  BY <1>9 DEF Take
<1>10. ASSUME Resume PROVE ProcInv'
  BY <1>10 DEF Resume
<1>11. ASSUME Exited PROVE ProcInv'
  BY <1>11 DEF Exited
<1>12. ASSUME Close PROVE ProcInv'
  BY <1>12 DEF Close, CloseTools, CancelCalls, Cancelled, ReaderStops, ReaderEnds
<1>13. ASSUME CloseCalls PROVE ProcInv'
  BY <1>13 DEF CloseCalls, CancelCalls, Cancelled
<1>14. ASSUME Joined PROVE ProcInv'
  BY <1>14 DEF Joined, Clear
<1>15. ASSUME Kill PROVE ProcInv'
  BY <1>15 DEF Kill
<1>16. ASSUME Finish PROVE ProcInv'
  BY <1>16 DEF Finish, Clear
<1>17. ASSUME Cancel PROVE ProcInv'
  BY <1>17 DEF Cancel, Awaiting
<1>18. ASSUME CancelFinally PROVE ProcInv'
  BY <1>18 DEF CancelFinally
<1>19. ASSUME StopBegins PROVE ProcInv'
  BY <1>19 DEF StopBegins, CloseTools, CancelCalls, Cancelled, ReaderStops, ReaderEnds
<1>20. ASSUME StopClears PROVE ProcInv'
  BY <1>20 DEF StopClears, Clear, StopInv
<1>21. ASSUME StopKills PROVE ProcInv'
  BY <1>21 DEF StopKills
<1>22. ASSUME NEW c \in Calls, Enter(c) PROVE ProcInv'
  BY <1>22 DEF Enter
<1>23. ASSUME NEW c \in Calls, TakeLock(c) PROVE ProcInv'
  BY <1>23 DEF TakeLock
<1>24. ASSUME NEW c \in Calls, Decided(c) PROVE ProcInv'
  BY <1>24 DEF Decided, Answers
<1>25. ASSUME NEW c \in Calls, Executed(c) PROVE ProcInv'
  BY <1>25 DEF Executed, Answers
<1>26. ASSUME NEW c \in Calls, Cleaned(c) PROVE ProcInv'
  BY <1>26 DEF Cleaned
<1>27. ASSUME NEW c \in Calls, Drained(c) PROVE ProcInv'
  BY <1>27 DEF Drained
<1>28. ASSUME NEW n \in Natives, ResolveNative(n) PROVE ProcInv'
  BY <1>28 DEF ResolveNative
<1>29. ASSUME NEW x \in Asks, NEW b \in {"allow", "deny"}, Answer(x, b) PROVE ProcInv'
  BY <1>29 DEF Answer
<1>30. CASE UNCHANGED vars
  BY <1>30 DEF vars
<1>31. QED
  BY <1>1, <1>2, <1>3, <1>4, <1>5, <1>6, <1>7, <1>8, <1>9, <1>10, <1>11, <1>12,
     <1>13, <1>14, <1>15, <1>16, <1>17, <1>18, <1>19, <1>20, <1>21, <1>22, <1>23,
     <1>24, <1>25, <1>26, <1>27, <1>28, <1>29, <1>30 DEF Next, Agent, Turn, Stop, Call

\* No step of a stopped turn makes a call ask or run.
LEMMA StartStep ==
    ASSUME TypeOK, StopInv, [Next]_vars
    PROVE  StartsNothing
<1> USE AgentTurnAssumption DEF TypeOK, CallStates, StopInv, StartsNothing, LiveCalls, Live, InLine, claude, pi,
     agentVars, futureVars, turnVars
<1>1. ASSUME NEW x \in Asks, AgentAsks(x) PROVE StartsNothing
  BY <1>1 DEF AgentAsks, AgentSays
<1>2. ASSUME NEW c \in Calls, AgentWithdraws(c) PROVE StartsNothing
  BY <1>2 DEF AgentWithdraws, AgentSays
<1>3. ASSUME AgentSettles PROVE StartsNothing
  BY <1>3 DEF AgentSettles, AgentSays
<1>4. ASSUME AgentExits PROVE StartsNothing
  BY <1>4 DEF AgentExits
<1>5. ASSUME Read PROVE StartsNothing
  <2>1. /\ reader = "on" /\ pipe # <<>>
        /\ UNCHANGED <<kind, decision, registered, stop, gen, reader>>
        /\ \/ UNCHANGED call
           \/ \E y : ReadCall(y)
           \/ \E y : CancelCalls({y} \cap LiveCalls)
    BY <1>5 DEF Read
  <2>2. CASE UNCHANGED call
    BY <2>1, <2>2
  <2>3. ASSUME NEW y, ReadCall(y) PROVE StartsNothing
    BY <2>1, <2>3 DEF ReadCall, Create
  <2>4. ASSUME NEW y, CancelCalls({y} \cap LiveCalls) PROVE StartsNothing
    BY <2>1, <2>4 DEF CancelCalls, Cancelled
  <2>5. QED
    BY <2>1, <2>2, <2>3, <2>4
<1>6. ASSUME ReadEOF PROVE StartsNothing
  BY <1>6 DEF ReadEOF, ReaderEnds
<1>7. ASSUME ReadFails PROVE StartsNothing
  BY <1>7 DEF ReadFails, ReaderEnds
<1>8. ASSUME Handshake PROVE StartsNothing
  BY <1>8 DEF Handshake
<1>9. ASSUME Take PROVE StartsNothing
  BY <1>9 DEF Take
<1>10. ASSUME Resume PROVE StartsNothing
  BY <1>10 DEF Resume
<1>11. ASSUME Exited PROVE StartsNothing
  BY <1>11 DEF Exited
<1>12. ASSUME Close PROVE StartsNothing
  BY <1>12 DEF Close, CloseTools, CancelCalls, Cancelled, ReaderStops, ReaderEnds
<1>13. ASSUME CloseCalls PROVE StartsNothing
  BY <1>13 DEF CloseCalls, CancelCalls, Cancelled
<1>14. ASSUME Joined PROVE StartsNothing
  BY <1>14 DEF Joined, Clear
<1>15. ASSUME Kill PROVE StartsNothing
  BY <1>15 DEF Kill
<1>16. ASSUME Finish PROVE StartsNothing
  BY <1>16 DEF Finish, Clear
<1>17. ASSUME Cancel PROVE StartsNothing
  BY <1>17 DEF Cancel, Awaiting
<1>18. ASSUME CancelFinally PROVE StartsNothing
  BY <1>18 DEF CancelFinally
<1>19. ASSUME StopBegins PROVE StartsNothing
  BY <1>19 DEF StopBegins, CloseTools, CancelCalls, Cancelled, ReaderStops, ReaderEnds
<1>20. ASSUME StopClears PROVE StartsNothing
  BY <1>20 DEF StopClears, Clear
<1>21. ASSUME StopKills PROVE StartsNothing
  BY <1>21 DEF StopKills
<1>22. ASSUME NEW c \in Calls, Enter(c) PROVE StartsNothing
  BY <1>22 DEF Enter
<1>23. ASSUME NEW c \in Calls, TakeLock(c) PROVE StartsNothing
  BY <1>23 DEF TakeLock
<1>24. ASSUME NEW c \in Calls, Decided(c) PROVE StartsNothing
  BY <1>24 DEF Decided, Answers
<1>25. ASSUME NEW c \in Calls, Executed(c) PROVE StartsNothing
  BY <1>25 DEF Executed, Answers
<1>26. ASSUME NEW c \in Calls, Cleaned(c) PROVE StartsNothing
  BY <1>26 DEF Cleaned
<1>27. ASSUME NEW c \in Calls, Drained(c) PROVE StartsNothing
  BY <1>27 DEF Drained
<1>28. ASSUME NEW n \in Natives, ResolveNative(n) PROVE StartsNothing
  BY <1>28 DEF ResolveNative
<1>29. ASSUME NEW x \in Asks, NEW b \in {"allow", "deny"}, Answer(x, b) PROVE StartsNothing
  BY <1>29 DEF Answer
<1>30. CASE UNCHANGED vars
  BY <1>30 DEF vars
<1>31. QED
  BY <1>1, <1>2, <1>3, <1>4, <1>5, <1>6, <1>7, <1>8, <1>9, <1>10, <1>11, <1>12,
     <1>13, <1>14, <1>15, <1>16, <1>17, <1>18, <1>19, <1>20, <1>21, <1>22, <1>23,
     <1>24, <1>25, <1>26, <1>27, <1>28, <1>29, <1>30 DEF Next, Agent, Turn, Stop, Call

-----------------------------------------------------------------------------
(* The theorems *)

\* The invariant holds in every behaviour.
THEOREM Invariant == Spec => []IInv
<1>1. IInv /\ [Next]_vars => IInv'
  BY TypeStep, LineStep, PipeStep, EventStep, ReplyStep, ApprovalStep, StopStep, PhaseStep,
     ProcStep DEF IInv
<1>2. QED
  BY InitInv, <1>1, PTL DEF Spec

\* Every variable has a value the code can give it.
THEOREM TypesHold == Spec => []TypeOK
<1>1. IInv => TypeOK
  BY DEF IInv
<1>2. QED
  BY Invariant, <1>1, PTL

\* The agent has at most one reply to a request, whether it is decided, cleared,
\* withdrawn or cancelled, and none of Claude's to a call that was cancelled:
\* a request is read once and is then in one place until it is answered.  Only Pi's
\* call that is cancelled while its reply is written has a second.
THEOREM RepliesAreSingle == Spec => []OneReply
<1>1. ASSUME IInv PROVE OneReply
  <2>1. ASSUME NEW c \in Calls
        PROVE  /\ replies[c] <= IF pi /\ call[c] = "late" THEN 2 ELSE 1
               /\ call[c] = "replied" => replies[c] = 1
               /\ claude /\ call[c] = "dropped" => replies[c] = 0
    <3>1. CallReplies(c) /\ call[c] \in CallStates
      BY <1>1 DEF IInv, ReplyInv, TypeOK
    <3>2. QED
      BY <3>1 DEF CallReplies, CallStates, InLine
  <2>2. QED
    BY <1>1, <2>1 DEF IInv, ReplyInv, OneReply
<1>2. QED
  BY Invariant, <1>1, PTL

\* The lock of the calls is held by a live one: whoever is refused or done, or
\* cancelled and cleaned up, leaves the line, wherever it stands, and only the first
\* is served.
THEOREM LockIsHeldByLive == Spec => []LockIsLive
<1>1. ASSUME IInv PROVE LockIsLive
  <2>1. line \in Seq(Calls) /\ LineInv
    BY <1>1 DEF IInv, TypeOK
  <2>2. Range(line) = {line[i] : i \in 1 .. Len(line)}
    BY <2>1 DEF Range
  <2>3. \A i \in 1 .. Len(line) : line[i] \in {c \in Calls : InLine(c)}
    BY <2>1 DEF LineInv
  <2>4. \A c \in Calls : InLine(c) => \E i \in 1 .. Len(line) : line[i] = c
    BY <2>1 DEF LineInv
  <2>5. Range(line) = {c \in Calls : InLine(c)}
    BY <2>2, <2>3, <2>4
  <2>6. QED
    BY <2>1, <2>5 DEF LineInv, LockIsLive
<1>2. QED
  BY Invariant, <1>1, PTL

\* A host command or another gated call runs only after the user has allowed it:
\* execute_host_command takes neither a cleared request nor a cancellation for it.
THEOREM RunsAreApproved == Spec => []RunsByApproval
<1>1. IInv => RunsByApproval
  BY DEF IInv
<1>2. QED
  BY Invariant, <1>1, PTL

\* A turn that came to its end leaves no call, request, reader or process it could
\* signal, in whatever order the finally of start_turn and stop have met, and Stop
\* leaves no process, save Pi's that a turn was about to terminate.
THEOREM TurnsAreReaped == Spec => []Reaped
<1>1. ASSUME IInv PROVE Reaped
  <2>1. gen = "ended" =>
           /\ LiveCalls = {} /\ pending = {} /\ resolvers = {}
           /\ reader = "done" /\ proc # "up" /\ ~registered
    BY <1>1 DEF IInv, PhaseInv, ProcInv
  <2>2. stop = "stopped" => LiveCalls = {}
    BY <1>1 DEF IInv, StopInv
  <2>3. stop = "stopped" => /\ ~registered
                            /\ proc = "up" => pi /\ gen \in {"stopping", "cut"}
    BY <1>1 DEF IInv, ProcInv, TypeOK, claude, pi
  <2>4. QED
    BY <2>1, <2>2, <2>3 DEF Reaped
<1>2. QED
  BY Invariant, <1>1, PTL

\* Once stop has begun no call begins to ask or to run, whatever the agent has
\* written and the reader has not yet read.
THEOREM NothingStarts == Spec => StopStartsNothing
<1>1. IInv /\ [Next]_vars => [StartsNothing]_vars
  BY StartStep DEF IInv
<1>2. QED
  BY Invariant, <1>1, PTL DEF Spec, StopStartsNothing, StartsNothing
=============================================================================
