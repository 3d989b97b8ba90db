------------------------- MODULE FileTreeSyncProofs -------------------------
(***************************************************************************)
(* That a file tree follows the disk: the theorems at the end, for every   *)
(* number of directories, names and changes and any limits.                *)
(*                                                                         *)
(* The inductive invariant, IInv, says of every path of the disk that the  *)
(* tree shows and watches it as it is, unless it is covered: a step of the *)
(* scan that is left, or a watched directory's event that is not processed *)
(* yet, will look at it or at a directory above it.  A change of the disk  *)
(* covers, by the event of a watched parent, every path whose truth it     *)
(* changes, and a step of the tree ends the coverage of a path only with   *)
(* that path exact or covered by another step.  When nothing is left,      *)
(* nothing is covered, and every path is exact.                            *)
(*                                                                         *)
(* Sections: paths; walks (what a path leads to, for two disks at once);   *)
(* the invariant and what follows from it; changes of the disk; the steps  *)
(* of the tree, of its scans and of its batches; the theorems.             *)
(***************************************************************************)
EXTENDS FileTreeSync, FoldLemmas, SequenceTheorems

-----------------------------------------------------------------------------
(* Paths *)

PathSeq == Seq(Names)

\* A path that is not empty is a path and a name.
LEMMA Split ==
    ASSUME NEW p \in PathSeq, p # <<>>
    PROVE  /\ Front(p) \in PathSeq /\ Last(p) \in Names /\ p = Append(Front(p), Last(p))
           /\ Len(Front(p)) = Len(p) - 1 /\ Len(p) \in Nat \ {0}
           /\ \A i \in 1 .. Len(p) - 1 : Front(p)[i] = p[i]
<1>1. Len(p) \in Nat \ {0} /\ \A i \in 1 .. Len(p) : p[i] \in Names
  BY EmptySeq, ElementOfSeq DEF PathSeq
<1>2. /\ Front(p) \in Seq(Names) /\ Len(Front(p)) = Len(p) - 1
      /\ \A i \in 1 .. Len(p) - 1 : Front(p)[i] = p[i]
  <2> DEFINE m == Len(p) - 1
  <2>1. m \in Nat /\ \A i \in 1 .. m : p[i] \in Names
    BY <1>1
  <2> HIDE DEF m
  <2>2. /\ SubSeq(p, 1, m) \in Seq(Names)
        /\ Len(SubSeq(p, 1, m)) = IF 1 <= m THEN m - 1 + 1 ELSE 0
        /\ \A i \in 1 .. m - 1 + 1 : SubSeq(p, 1, m)[i] = p[1 + i - 1]
    BY <2>1, SubSeqProperties
  <2>3. Front(p) = SubSeq(p, 1, m)
    BY DEF Front, m
  <2> USE DEF m
  <2>4. Len(SubSeq(p, 1, m)) = m /\ \A i \in 1 .. m : SubSeq(p, 1, m)[i] = p[i]
    <3> HIDE DEF m
    <3>1. m - 1 + 1 = m /\ \A i \in 1 .. m : 1 + i - 1 = i
      BY <2>1
    <3>2. QED
      BY <2>1, <2>2, <3>1
  <2> QED
    BY <2>2, <2>3, <2>4
<1>3. Last(p) \in Names
  BY <1>1 DEF Last
<1>4. p = Append(Front(p), Last(p))
  <2>1. Append(Front(p), Last(p)) \in Seq(Names) /\ Len(Append(Front(p), Last(p))) = Len(p)
    BY <1>1, <1>2, <1>3
  <2>2. ASSUME NEW i \in 1 .. Len(p) PROVE p[i] = Append(Front(p), Last(p))[i]
    BY <1>1, <1>2, <1>3 DEF Last
  <2>3. QED
    BY <2>1, <2>2, SeqEqual DEF PathSeq
<1>5. QED
  BY <1>1, <1>2, <1>3, <1>4 DEF PathSeq

\* A path and a name are a path, and what they were.
LEMMA Joined ==
    ASSUME NEW p \in PathSeq, NEW n \in Names
    PROVE  /\ Append(p, n) \in PathSeq /\ Append(p, n) # <<>> /\ Len(p) \in Nat
           /\ Len(Append(p, n)) = Len(p) + 1
           /\ Front(Append(p, n)) = p /\ Last(Append(p, n)) = n
<1>1. /\ Append(p, n) \in PathSeq /\ Append(p, n) # <<>> /\ Len(p) \in Nat
      /\ Len(Append(p, n)) = Len(p) + 1 /\ Append(p, n)[Len(p) + 1] = n
      /\ \A i \in 1 .. Len(p) : Append(p, n)[i] = p[i]
  BY DEF PathSeq
<1>2. Last(Append(p, n)) = n
  BY <1>1 DEF Last
<1>3. Front(Append(p, n)) = p
  <2> DEFINE q == Append(p, n)
  <2>1. Front(q) \in PathSeq /\ Len(Front(q)) = Len(p) /\ \A i \in 1 .. Len(p) : Front(q)[i] = q[i]
    <3>1. q \in PathSeq /\ q # <<>> /\ Len(q) - 1 = Len(p)
      BY <1>1
    <3> HIDE DEF q
    <3>2. QED
      BY <3>1, Split
  <2>2. QED
    BY <1>1, <2>1, SeqEqual DEF PathSeq
<1>4. QED
  BY <1>1, <1>2, <1>3

\* A prefix, position by position.
LEMMA PrefixByPosition ==
    ASSUME NEW s \in PathSeq, NEW t \in PathSeq
    PROVE  IsPrefix(s, t) <=> Len(s) <= Len(t) /\ \A i \in 1 .. Len(s) : s[i] = t[i]
<1>1. Len(s) \in Nat /\ Len(t) \in Nat
  BY LenProperties DEF PathSeq
<1>2. \A i \in 1 .. Len(s) : s[i] \in Names
  BY ElementOfSeq DEF PathSeq
<1>3. /\ SubSeq(s, 1, Len(s)) \in Seq(Names) /\ Len(SubSeq(s, 1, Len(s))) = Len(s)
      /\ \A i \in 1 .. Len(s) : SubSeq(s, 1, Len(s))[i] = s[i]
  BY <1>1, <1>2, SubSeqProperties
<1>4. ASSUME Len(s) <= Len(t)
      PROVE  /\ SubSeq(t, 1, Len(s)) \in Seq(Names) /\ Len(SubSeq(t, 1, Len(s))) = Len(s)
             /\ \A i \in 1 .. Len(s) : SubSeq(t, 1, Len(s))[i] = t[i]
  <2>1. \A i \in 1 .. Len(s) : t[i] \in Names
    BY <1>1, <1>4, ElementOfSeq DEF PathSeq
  <2>2. QED
    BY <1>1, <2>1, SubSeqProperties
<1>5. ASSUME Len(s) <= Len(t), \A i \in 1 .. Len(s) : s[i] = t[i]
      PROVE  SubSeq(s, 1, Len(s)) = SubSeq(t, 1, Len(s))
  BY <1>3, <1>4, <1>5, SeqEqual
<1>6. QED
  BY <1>3, <1>4, <1>5 DEF IsPrefix

\* Every path is a prefix of itself, and the empty path of every path.
LEMMA PrefixSelf ==
    ASSUME NEW s \in PathSeq
    PROVE  IsPrefix(s, s) /\ IsPrefix(<<>>, s)
<1>1. Len(s) \in Nat /\ <<>> \in PathSeq /\ Len(<<>>) = 0
  BY LenProperties, EmptySeq DEF PathSeq
<1>2. QED
  BY <1>1, PrefixByPosition

\* A prefix is no longer than the path, and as long only if it is the path.
LEMMA PrefixLength ==
    ASSUME NEW s \in PathSeq, NEW t \in PathSeq, IsPrefix(s, t)
    PROVE  Len(s) <= Len(t) /\ (Len(s) = Len(t) => s = t) /\ (t = <<>> => s = <<>>)
<1>1. Len(s) \in Nat /\ Len(t) \in Nat /\ (Len(s) = 0 => s = <<>>) /\ Len(<<>>) = 0
  BY LenProperties, EmptySeq DEF PathSeq
<1>2. Len(s) <= Len(t) /\ \A i \in 1 .. Len(s) : s[i] = t[i]
  BY PrefixByPosition
<1>3. Len(s) = Len(t) => s = t
  BY <1>2, SeqEqual DEF PathSeq
<1>4. QED
  BY <1>1, <1>2, <1>3

\* A prefix of a prefix is a prefix.
LEMMA PrefixTransitive ==
    ASSUME NEW s \in PathSeq, NEW t \in PathSeq, NEW u \in PathSeq,
           IsPrefix(s, t), IsPrefix(t, u)
    PROVE  IsPrefix(s, u)
<1>1. /\ Len(s) <= Len(t) /\ Len(t) <= Len(u)
      /\ Len(s) \in Nat /\ Len(t) \in Nat /\ Len(u) \in Nat
  BY PrefixByPosition, LenProperties DEF PathSeq
<1>2. \A i \in 1 .. Len(s) : i \in 1 .. Len(t)
  BY <1>1
<1>3. \A i \in 1 .. Len(s) : s[i] = u[i]
  BY <1>2, PrefixByPosition
<1>4. QED
  BY <1>1, <1>3, PrefixByPosition

\* Of two prefixes of a path one is a prefix of the other.
LEMMA PrefixCompare ==
    ASSUME NEW s \in PathSeq, NEW t \in PathSeq, NEW u \in PathSeq,
           IsPrefix(s, u), IsPrefix(t, u)
    PROVE  IsPrefix(s, t) \/ IsPrefix(t, s)
<1>1. /\ Len(s) \in Nat /\ Len(t) \in Nat
      /\ \A i \in 1 .. Len(s) : s[i] = u[i]
      /\ \A i \in 1 .. Len(t) : t[i] = u[i]
  BY PrefixByPosition, LenProperties DEF PathSeq
<1>2. CASE Len(s) <= Len(t)
  <2>1. \A i \in 1 .. Len(s) : i \in 1 .. Len(t)
    BY <1>1, <1>2
  <2>2. QED
    BY <1>1, <1>2, <2>1, PrefixByPosition
<1>3. CASE Len(t) <= Len(s)
  <2>1. \A i \in 1 .. Len(t) : i \in 1 .. Len(s)
    BY <1>1, <1>3
  <2>2. QED
    BY <1>1, <1>3, <2>1, PrefixByPosition
<1>4. QED
  BY <1>1, <1>2, <1>3

\* The prefixes of a path with one more name.
LEMMA PrefixOfJoined ==
    ASSUME NEW s \in PathSeq, NEW p \in PathSeq, NEW n \in Names
    PROVE  IsPrefix(s, Append(p, n)) <=> IsPrefix(s, p) \/ s = Append(p, n)
<1> DEFINE q == Append(p, n)
<1>1. /\ q \in PathSeq /\ Len(q) = Len(p) + 1 /\ Len(p) \in Nat /\ Len(s) \in Nat
      /\ \A i \in 1 .. Len(p) : q[i] = p[i]
  BY Joined, LenProperties DEF PathSeq
<1> HIDE DEF q
<1>2. ASSUME IsPrefix(s, p) PROVE IsPrefix(s, q)
  <2>1. Len(s) <= Len(p) /\ \A i \in 1 .. Len(s) : s[i] = p[i]
    BY <1>2, PrefixByPosition
  <2>2. \A i \in 1 .. Len(s) : s[i] = q[i]
    BY <2>1, <1>1
  <2>3. QED
    BY <2>1, <2>2, <1>1, PrefixByPosition
<1>3. ASSUME IsPrefix(s, q), s # q PROVE IsPrefix(s, p)
  <2>1. Len(s) <= Len(q) /\ Len(s) # Len(q)
    BY <1>1, <1>3, PrefixLength
  <2>2. Len(s) <= Len(p) /\ \A i \in 1 .. Len(s) : s[i] = q[i] /\ q[i] = p[i]
    BY <2>1, <1>1, <1>3, PrefixByPosition
  <2>3. QED
    BY <2>2, PrefixByPosition
<1>4. IsPrefix(q, q)
  BY <1>1, PrefixSelf
<1>5. QED
  BY <1>2, <1>3, <1>4 DEF q

\* A path goes on from a proper prefix with a name.
LEMMA NextName ==
    ASSUME NEW s \in PathSeq, NEW q \in PathSeq, IsPrefix(s, q), s # q
    PROVE  \E n \in Names : IsPrefix(Append(s, n), q)
<1>1. /\ Len(s) \in Nat /\ Len(q) \in Nat /\ Len(s) < Len(q)
      /\ \A i \in 1 .. Len(s) : s[i] = q[i]
  <2>1. Len(s) \in Nat /\ Len(q) \in Nat
    BY LenProperties DEF PathSeq
  <2>2. Len(s) <= Len(q) /\ Len(s) # Len(q)
    BY PrefixLength
  <2>3. QED
    BY <2>1, <2>2, PrefixByPosition
<1> DEFINE n == q[Len(s) + 1]
<1>2. n \in Names
  <2>1. Len(s) + 1 \in 1 .. Len(q)
    BY <1>1
  <2>2. QED
    BY <2>1, ElementOfSeq DEF PathSeq
<1> DEFINE a == Append(s, n)
<1>3. /\ a \in PathSeq /\ Len(a) = Len(s) + 1
      /\ \A i \in 1 .. Len(a) : a[i] = q[i]
  BY <1>1, <1>2 DEF PathSeq
<1> HIDE DEF a
<1>4. IsPrefix(a, q)
  BY <1>1, <1>3, PrefixByPosition
<1>5. QED
  BY <1>2, <1>4 DEF a

\* What is under an excluded path is excluded.
LEMMA ExcludedBelow ==
    ASSUME NEW by, NEW s \in PathSeq, NEW q \in PathSeq, IsPrefix(s, q), Excluded(by, s)
    PROVE  Excluded(by, q)
<1>1. PICK i \in DOMAIN s : s[i] = Ignored
  BY DEF Excluded, Range
<1>2. i \in 1 .. Len(s) /\ DOMAIN q = 1 .. Len(q) /\ Len(s) \in Nat /\ Len(q) \in Nat
  BY <1>1, LenProperties DEF PathSeq
<1>3. i \in DOMAIN q /\ q[i] = Ignored
  BY <1>1, <1>2, PrefixByPosition
<1>4. QED
  BY <1>3 DEF Excluded, Range

-----------------------------------------------------------------------------
(* Walks: where a path leads on a disk whose directories have the places f *)

Kid(f, u, n) ==
    LET here == {c \in Dirs : f[c] = <<u, n>>}
    IN  IF here = {} THEN None ELSE CHOOSE c \in here : TRUE

Walk(f, u, p) ==
    LET d[i \in 0..Len(p)] == IF i = 0 THEN u ELSE Kid(f, d[i - 1], p[i])
    IN  d[Len(p)]

\* The function that Walk is defined by, up to the i-th step.
Steps(f, u, p, n, d) ==
    d = [i \in 0 .. n |-> IF i = 0 THEN u ELSE Kid(f, d[i - 1], p[i])]

\* The operators of the model are walks on its disk, now and after a step.
LEMMA Walks ==
    \A u, p : /\ DirFrom(u, p) = Walk(place, u, p) /\ DirFrom(u, p)' = Walk(place', u, p)
              /\ Dir(p) = Walk(place, Root, p) /\ Dir(p)' = Walk(place', Root, p)
BY DEF Dir, DirFrom, Child, Walk, Kid

\* There is such a function.
LEMMA StepsExist ==
    ASSUME NEW f, NEW u, NEW p, NEW n \in Nat
    PROVE  \E d : Steps(f, u, p, n, d)
<1> DEFINE T == {k \in 0 .. n : \E d : Steps(f, u, p, k, d)}
<1>1. 0 \in T
  <2> DEFINE d == [i \in 0 .. 0 |-> u]
  <2>1. d = [i \in 0 .. 0 |-> IF i = 0 THEN u ELSE Kid(f, d[i - 1], p[i])]
    OBVIOUS
  <2>2. Steps(f, u, p, 0, d)
    BY <2>1 DEF Steps
  <2>3. QED
    BY <2>2
<1>2. ASSUME NEW k \in 1 .. n, k - 1 \in T PROVE k \in T
  <2>1. PICK d : Steps(f, u, p, k - 1, d)
    BY <1>2
  <2> DEFINE e == [i \in 0 .. k |-> IF i = k THEN Kid(f, d[k - 1], p[k]) ELSE d[i]]
  <2> DEFINE g == [i \in 0 .. k |-> IF i = 0 THEN u ELSE Kid(f, e[i - 1], p[i])]
  <2>2. ASSUME NEW i \in 0 .. k PROVE e[i] = g[i]
    <3>1. CASE i = k
      <4>1. i # 0 /\ k - 1 \in 0 .. k /\ k - 1 # k
        BY <3>1
      <4>2. QED
        BY <3>1, <4>1
    <3>2. CASE i = 0
      <4>1. i # k /\ i \in 0 .. k - 1
        BY <3>2
      <4>2. d[i] = u
        BY <2>1, <3>2, <4>1 DEF Steps
      <4>3. QED
        BY <3>2, <4>1, <4>2
    <3>3. CASE i # 0 /\ i # k
      <4>1. i \in 0 .. k - 1 /\ i - 1 \in 0 .. k /\ i - 1 # k
        BY <3>3
      <4>2. d[i] = Kid(f, d[i - 1], p[i])
        BY <2>1, <3>3, <4>1 DEF Steps
      <4>3. QED
        BY <3>3, <4>1, <4>2
    <3>4. QED
      BY <3>1, <3>2, <3>3
  <2>3. e = g
    <3> HIDE DEF Kid
    <3> QED BY <2>2
  <2>4. Steps(f, u, p, k, e)
    BY <2>3 DEF Steps
  <2>5. QED
    BY <2>4
<1>3. 0 .. n \subseteq T
  <2> HIDE DEF T
  <2> QED BY <1>1, <1>2, Upward
<1>4. n \in T
  <2> HIDE DEF T
  <2> QED BY <1>3
<1>5. QED
  BY <1>4

\* It depends on the steps so far only.
LEMMA StepsAgree ==
    ASSUME NEW f, NEW u, NEW p, NEW q, NEW n \in Nat, NEW m \in Nat, n <= m,
           \A i \in 1 .. n : p[i] = q[i],
           NEW d, NEW e, Steps(f, u, p, n, d), Steps(f, u, q, m, e)
    PROVE  d[n] = e[n]
<1> DEFINE T == {k \in 0 .. n : d[k] = e[k]}
<1>1. 0 \in T
  <2>1. 0 \in 0 .. n /\ 0 \in 0 .. m
    OBVIOUS
  <2>2. d[0] = u /\ e[0] = u
    BY <2>1 DEF Steps
  <2>3. QED
    BY <2>1, <2>2
<1>2. ASSUME NEW k \in 1 .. n, k - 1 \in T PROVE k \in T
  <2>1. k \in 0 .. n /\ k \in 0 .. m /\ k # 0
    OBVIOUS
  <2>2. d[k] = Kid(f, d[k - 1], p[k]) /\ e[k] = Kid(f, e[k - 1], q[k])
    BY <2>1 DEF Steps
  <2>3. QED
    BY <1>2, <2>1, <2>2
<1>3. 0 .. n \subseteq T
  <2> HIDE DEF T
  <2> QED BY <1>1, <1>2, Upward
<1>4. n \in T
  <2> HIDE DEF T
  <2> QED BY <1>3
<1>5. QED
  BY <1>4

\* A walk ends with the last of its steps.
LEMMA WalkSteps ==
    ASSUME NEW f, NEW u, NEW p \in PathSeq
    PROVE  \E d : Steps(f, u, p, Len(p), d) /\ Walk(f, u, p) = d[Len(p)]
<1> DEFINE d == CHOOSE d : d = [i \in 0 .. Len(p) |->
                                   IF i = 0 THEN u ELSE Kid(f, d[i - 1], p[i])]
<1>1. Len(p) \in Nat
  BY LenProperties DEF PathSeq
<1>2. \E e : e = [i \in 0 .. Len(p) |-> IF i = 0 THEN u ELSE Kid(f, e[i - 1], p[i])]
  <2>1. PICK e : Steps(f, u, p, Len(p), e)
    BY <1>1, StepsExist
  <2>2. e = [i \in 0 .. Len(p) |-> IF i = 0 THEN u ELSE Kid(f, e[i - 1], p[i])]
    BY <2>1 DEF Steps
  <2> HIDE DEF d
  <2>3. QED
    BY <2>2
<1>3. d = [i \in 0 .. Len(p) |-> IF i = 0 THEN u ELSE Kid(f, d[i - 1], p[i])]
  <2> HIDE DEF Kid
  <2> QED BY <1>2
<1>4. Walk(f, u, p) = d[Len(p)]
  BY DEF Walk
<1>5. QED
  BY <1>3, <1>4 DEF Steps

\* The empty path leads nowhere else.
LEMMA WalkEmpty ==
    ASSUME NEW f, NEW u PROVE Walk(f, u, <<>>) = u
<1>1. <<>> \in PathSeq /\ Len(<<>>) = 0
  BY EmptySeq DEF PathSeq
<1>2. PICK d : Steps(f, u, <<>>, 0, d) /\ Walk(f, u, <<>>) = d[0]
  BY <1>1, WalkSteps
<1>3. QED
  BY <1>2 DEF Steps

\* A path with one more name leads one step further.
LEMMA WalkOn ==
    ASSUME NEW f, NEW u, NEW p \in PathSeq, NEW n \in Names
    PROVE  Walk(f, u, Append(p, n)) = Kid(f, Walk(f, u, p), n)
<1> DEFINE q == Append(p, n)
<1>1. /\ q \in PathSeq /\ Len(p) \in Nat /\ Len(q) = Len(p) + 1 /\ q[Len(p) + 1] = n
      /\ \A i \in 1 .. Len(p) : p[i] = q[i]
  BY DEF PathSeq
<1> HIDE DEF q
<1> DEFINE m == Len(p) + 1
<1>2. m \in Nat /\ Len(p) <= m /\ m # 0 /\ m - 1 = Len(p) /\ m \in 0 .. m /\ Len(q) = m /\ q[m] = n
  BY <1>1
<1> HIDE DEF m
<1>3. PICK d : Steps(f, u, p, Len(p), d) /\ Walk(f, u, p) = d[Len(p)]
  BY WalkSteps
<1>4. PICK e : Steps(f, u, q, m, e) /\ Walk(f, u, q) = e[m]
  BY <1>1, <1>2, WalkSteps
<1>5. d[Len(p)] = e[Len(p)]
  BY <1>1, <1>2, <1>3, <1>4, StepsAgree
<1>6. e[m] = Kid(f, e[m - 1], q[m])
  BY <1>2, <1>4 DEF Steps
<1>7. QED
  BY <1>2, <1>3, <1>4, <1>5, <1>6 DEF q

\* To show that a set has a path, it is enough that it has the empty one and, with
\* each prefix, the next.
LEMMA PathUp ==
    ASSUME NEW q \in PathSeq, NEW X, <<>> \in X,
           \A s \in PathSeq, n \in Names : IsPrefix(Append(s, n), q) /\ s \in X => Append(s, n) \in X
    PROVE  q \in X
<1> DEFINE T == {k \in 0 .. Len(q) : \A s \in PathSeq : IsPrefix(s, q) /\ Len(s) = k => s \in X}
<1>1. Len(q) \in Nat
  BY LenProperties DEF PathSeq
<1>2. 0 \in T
  <2>1. \A s \in PathSeq : Len(s) = 0 => s = <<>>
    BY EmptySeq DEF PathSeq
  <2>2. QED
    BY <1>1, <2>1
<1>3. ASSUME NEW k \in 1 .. Len(q), k - 1 \in T PROVE k \in T
  <2>1. SUFFICES ASSUME NEW s \in PathSeq, IsPrefix(s, q), Len(s) = k PROVE s \in X
    BY <1>1
  <2>2. s # <<>>
    BY <2>1, EmptySeq
  <2> DEFINE r == Front(s)
  <2> DEFINE n == Last(s)
  <2>3. r \in PathSeq /\ n \in Names /\ s = Append(r, n) /\ Len(r) = k - 1
    BY <2>1, <2>2, Split
  <2> HIDE DEF r, n
  <2>4. IsPrefix(r, s)
    BY <2>3, PrefixSelf, PrefixOfJoined
  <2>5. IsPrefix(r, q)
    BY <2>1, <2>3, <2>4, PrefixTransitive
  <2>6. r \in X
    BY <1>3, <2>3, <2>5
  <2>7. QED
    BY <2>1, <2>3, <2>6
<1>4. 0 .. Len(q) \subseteq T
  <2> HIDE DEF T
  <2> QED BY <1>1, <1>2, <1>3, Upward
<1>5. Len(q) \in T
  <2> HIDE DEF T
  <2> QED BY <1>1, <1>4
<1>6. QED
  BY <1>5, PrefixSelf

\* And all its prefixes, if it has the path and, with each prefix, the one before.
LEMMA PathDown ==
    ASSUME NEW q \in PathSeq, NEW X, q \in X,
           \A s \in PathSeq, n \in Names : IsPrefix(Append(s, n), q) /\ Append(s, n) \in X => s \in X,
           NEW r \in PathSeq, IsPrefix(r, q)
    PROVE  r \in X
<1> DEFINE Y == {s \in PathSeq : IsPrefix(s, q) /\ s \in X => \A t \in PathSeq : IsPrefix(t, s) => t \in X}
<1>1. <<>> \in Y
  <2>1. <<>> \in PathSeq
    BY EmptySeq DEF PathSeq
  <2>2. \A t \in PathSeq : IsPrefix(t, <<>>) => t = <<>>
    BY <2>1, PrefixLength
  <2>3. QED
    BY <2>1, <2>2
<1>2. ASSUME NEW s \in PathSeq, NEW n \in Names, IsPrefix(Append(s, n), q), s \in Y
      PROVE  Append(s, n) \in Y
  <2>1. Append(s, n) \in PathSeq
    BY Joined
  <2>2. SUFFICES ASSUME Append(s, n) \in X, NEW t \in PathSeq, IsPrefix(t, Append(s, n))
                 PROVE  t \in X
    BY <2>1
  <2>3. s \in X
    BY <1>2, <2>2
  <2>4. IsPrefix(s, q)
    <3>1. IsPrefix(s, Append(s, n))
      BY PrefixSelf, PrefixOfJoined
    <3>2. QED
      BY <1>2, <2>1, <3>1, PrefixTransitive
  <2>5. t = Append(s, n) \/ IsPrefix(t, s)
    BY <2>2, PrefixOfJoined
  <2>6. QED
    BY <1>2, <2>2, <2>3, <2>4, <2>5
<1>3. q \in Y
  <2> HIDE DEF Y
  <2> QED BY <1>1, <1>2, PathUp
<1>4. QED
  BY <1>3, PrefixSelf

-----------------------------------------------------------------------------
(* Disks *)

\* No two directories are at the same place.
Disk(f) ==
    /\ f \in [Dirs -> Places \cup {None}]
    /\ \A d, e \in Dirs : d # e /\ f[d] # None => f[d] # f[e]

\* The constants are different things.
LEMMA ConstantTypes ==
    /\ Root \notin Dirs /\ None \notin Dirs /\ None # Root /\ Root \in Nodes /\ None \notin Nodes
    /\ None \notin (Dirs \cup {Root, None}) \X Names /\ None \notin Places
    /\ IsFiniteSet(Dirs) /\ Cardinality(Dirs) \in Nat
    /\ Self \notin Names /\ IgnoreFile \notin Names /\ "overflow" \notin Names
    /\ MaxChanges \in Nat
<1>1. /\ Root \notin Dirs /\ None \notin Dirs /\ None # Root /\ IsFiniteSet(Dirs)
      /\ None \notin (Dirs \cup {Root, None}) \X Names /\ Names \cap {"self", "ignore file", "overflow"} = {}
  BY FileTreeSyncAssumption
<1>2. Cardinality(Dirs) \in Nat
  BY <1>1, FS_CardinalityType
<1>3. None \notin Places /\ None \notin Nodes
  BY <1>1 DEF Places, Nodes
<1>4. Self \notin Names /\ IgnoreFile \notin Names /\ "overflow" \notin Names
  BY <1>1 DEF Self, IgnoreFile
<1>5. MaxChanges \in Nat
  BY FileTreeSyncAssumption
<1>6. QED
  BY <1>1, <1>2, <1>3, <1>4, <1>5 DEF Nodes

\* The directory of a name is the one that has the place; nothing is in None.
LEMMA KidIs ==
    ASSUME NEW f, Disk(f), NEW u \in Nodes \cup {None}, NEW n \in Names
    PROVE  /\ Kid(f, u, n) \in Dirs \cup {None}
           /\ \A c \in Dirs : Kid(f, u, n) = c <=> f[c] = <<u, n>>
           /\ u = None => Kid(f, u, n) = None
<1> DEFINE here == {c \in Dirs : f[c] = <<u, n>>}
<1>1. <<u, n>> # None /\ None \notin Dirs /\ None \notin Nodes
  <2>1. <<u, n>> \in (Dirs \cup {Root, None}) \X Names
    BY DEF Nodes
  <2>2. QED
    BY <2>1, ConstantTypes
<1>2. \A c, e \in here : c = e
  BY <1>1 DEF Disk
<1>3. Kid(f, u, n) = IF here = {} THEN None ELSE CHOOSE c \in here : TRUE
  BY DEF Kid
<1>4. here # {} => Kid(f, u, n) \in here
  <2> HIDE DEF here
  <2> QED BY <1>3
<1>5. u = None => here = {}
  <2>1. \A c \in Dirs : f[c] \in (Nodes \X Names) \cup {None}
    BY DEF Disk, Places
  <2>2. u = None => <<u, n>> \notin Nodes \X Names
    BY <1>1
  <2>3. QED
    BY <1>1, <2>1, <2>2
<1>6. QED
  BY <1>1, <1>2, <1>3, <1>4, <1>5

\* A walk ends in a directory or nowhere; from the root it does not come back.
LEMMA WalkType ==
    ASSUME NEW f, Disk(f), NEW u \in Nodes, NEW p \in PathSeq
    PROVE  /\ Walk(f, u, p) \in Nodes \cup {None}
           /\ p # <<>> => Walk(f, u, p) \in Dirs \cup {None} /\ Walk(f, u, p) # Root
<1> DEFINE Y == Nodes \cup {None}
<1> DEFINE X == {s \in PathSeq : Walk(f, u, s) \in Y}
<1>1. <<>> \in X
  BY WalkEmpty, EmptySeq DEF PathSeq
<1>2. ASSUME NEW s \in PathSeq, NEW n \in Names, Walk(f, u, s) \in Y
      PROVE  Walk(f, u, Append(s, n)) \in Dirs \cup {None}
  BY <1>2, WalkOn, KidIs
<1>3. ASSUME NEW s \in PathSeq, NEW n \in Names, s \in X PROVE Append(s, n) \in X
  <2>1. Walk(f, u, s) \in Y
    BY <1>3
  <2>2. Walk(f, u, Append(s, n)) \in Y /\ Append(s, n) \in PathSeq
    BY <1>2, <2>1, Joined DEF Nodes
  <2> HIDE DEF Y
  <2>3. QED
    BY <2>2
<1>4. \A q \in PathSeq : q \in X
  <2> HIDE DEF X
  <2> QED BY <1>1, <1>3, PathUp
<1>5. \A q \in PathSeq : Walk(f, u, q) \in Y
  <2> HIDE DEF Y
  <2> QED BY <1>4
<1>6. ASSUME p # <<>> PROVE Walk(f, u, p) \in Dirs \cup {None}
  <2>1. Front(p) \in PathSeq /\ Last(p) \in Names /\ p = Append(Front(p), Last(p))
    BY <1>6, Split
  <2>2. QED
    BY <1>2, <1>5, <2>1
<1>7. QED
  BY <1>5, <1>6, ConstantTypes

\* The last step of a walk.
LEMMA WalkLast ==
    ASSUME NEW f, Disk(f), NEW u \in Nodes, NEW p \in PathSeq, NEW n \in Names, NEW c \in Dirs
    PROVE  Walk(f, u, Append(p, n)) = c <=> f[c] = <<Walk(f, u, p), n>>
BY WalkOn, KidIs, WalkType

\* Nothing leads on from nowhere.
LEMMA WalkPrefix ==
    ASSUME NEW f, Disk(f), NEW u \in Nodes, NEW q \in PathSeq, Walk(f, u, q) # None,
           NEW r \in PathSeq, IsPrefix(r, q)
    PROVE  Walk(f, u, r) # None
<1> DEFINE X == {s \in PathSeq : Walk(f, u, s) # None}
<1>1. ASSUME NEW s \in PathSeq, NEW n \in Names, Append(s, n) \in X PROVE s \in X
  BY <1>1, WalkOn, KidIs, WalkType
<1>2. r \in X
  <2>1. q \in X
    OBVIOUS
  <2> HIDE DEF X
  <2> QED BY <1>1, <2>1, PathDown
<1>3. QED
  BY <1>2

\* A directory has one path.
LEMMA SamePath ==
    ASSUME NEW f, Disk(f), NEW p \in PathSeq, NEW q \in PathSeq,
           Walk(f, Root, p) # None, Walk(f, Root, p) = Walk(f, Root, q)
    PROVE  p = q
<1> DEFINE X == {s \in PathSeq : \A t \in PathSeq :
                    Walk(f, Root, s) # None /\ Walk(f, Root, s) = Walk(f, Root, t) => s = t}
<1>0. Root \in Nodes
  BY DEF Nodes
<1>1. <<>> \in X
  BY <1>0, WalkEmpty, WalkType, EmptySeq DEF PathSeq
<1>2. ASSUME NEW s \in PathSeq, NEW n \in Names, s \in X PROVE Append(s, n) \in X
  <2>1. Append(s, n) \in PathSeq /\ Append(s, n) # <<>>
    BY Joined
  <2>2. SUFFICES ASSUME NEW t \in PathSeq, Walk(f, Root, Append(s, n)) # None,
                        Walk(f, Root, Append(s, n)) = Walk(f, Root, t)
                 PROVE  Append(s, n) = t
    BY <2>1
  <2>3. PICK c \in Dirs : c = Walk(f, Root, Append(s, n))
    BY <1>0, <2>1, <2>2, WalkType
  <2>4. f[c] = <<Walk(f, Root, s), n>>
    BY <1>0, <2>3, WalkLast
  <2>5. t # <<>>
    BY <2>2, <2>3, WalkEmpty, ConstantTypes
  <2> DEFINE r == Front(t)
  <2> DEFINE m == Last(t)
  <2>6. r \in PathSeq /\ m \in Names /\ t = Append(r, m)
    BY <2>5, Split
  <2> HIDE DEF r, m
  <2>7. f[c] = <<Walk(f, Root, r), m>>
    BY <1>0, <2>2, <2>3, <2>6, WalkLast
  <2>8. Walk(f, Root, s) # None
    <3>1. Walk(f, Root, s) \in Nodes \cup {None}
      BY <1>0, WalkType
    <3>2. Kid(f, Walk(f, Root, s), n) # None
      BY <2>2, WalkOn
    <3>3. QED
      BY <3>1, <3>2, KidIs
  <2>9. s = r /\ n = m
    BY <1>2, <2>4, <2>6, <2>7, <2>8
  <2>10. QED
    BY <2>6, <2>9
<1>3. p \in X
  <2> HIDE DEF X
  <2> QED BY <1>1, <1>2, PathUp
<1>4. QED
  BY <1>3

\* The bounded paths.
LEMMA PathsAre ==
    \A p : p \in Paths <=> p \in PathSeq /\ Len(p) <= Cardinality(Dirs) + 1
<1>1. Cardinality(Dirs) \in Nat
  BY ConstantTypes
<1>2. ASSUME NEW p \in Paths PROVE p \in PathSeq /\ Len(p) <= Cardinality(Dirs) + 1
  <2>1. PICK n \in 0 .. (Cardinality(Dirs) + 1) : p \in [1 .. n -> Names]
    BY DEF Paths
  <2>2. n \in Nat /\ p \in Seq(Names) /\ Len(p) = n
    BY <1>1, <2>1
  <2>3. QED
    BY <1>1, <2>1, <2>2 DEF PathSeq
<1>3. ASSUME NEW p \in PathSeq, Len(p) <= Cardinality(Dirs) + 1 PROVE p \in Paths
  <2>1. Len(p) \in 0 .. (Cardinality(Dirs) + 1) /\ p \in [1 .. Len(p) -> Names]
    BY <1>1, <1>3, LenProperties DEF PathSeq
  <2>2. QED
    BY <2>1 DEF Paths
<1>4. QED
  BY <1>2, <1>3

\* A path that leads somewhere is no longer than there are directories.
LEMMA Short ==
    ASSUME NEW f, Disk(f), NEW p \in PathSeq, Walk(f, Root, p) # None
    PROVE  Len(p) <= Cardinality(Dirs)
<1> DEFINE m == Len(p)
<1> DEFINE g == [i \in 1 .. m |-> Walk(f, Root, SubSeq(p, 1, i))]
<1>1. m \in Nat /\ Cardinality(Dirs) \in Nat /\ IsFiniteSet(Dirs) /\ Root \in Nodes
  BY LenProperties, ConstantTypes DEF PathSeq
<1>2. ASSUME NEW i \in 1 .. m
      PROVE  /\ SubSeq(p, 1, i) \in PathSeq /\ Len(SubSeq(p, 1, i)) = i
             /\ Walk(f, Root, SubSeq(p, 1, i)) # None /\ Walk(f, Root, SubSeq(p, 1, i)) \in Dirs
  <2>1. \A j \in 1 .. i : p[j] \in Names
    BY <1>1, ElementOfSeq DEF PathSeq
  <2>2. /\ SubSeq(p, 1, i) \in Seq(Names) /\ Len(SubSeq(p, 1, i)) = i
        /\ \A j \in 1 .. i : SubSeq(p, 1, i)[j] = p[j]
    <3>1. i \in Int /\ 1 <= i /\ i - 1 + 1 = i /\ \A j \in 1 .. i : 1 + j - 1 = j
      OBVIOUS
    <3>2. QED
      BY <2>1, <3>1, SubSeqProperties
  <2>3. IsPrefix(SubSeq(p, 1, i), p)
    <3> DEFINE u == SubSeq(p, 1, i)
    <3>1. u \in PathSeq /\ Len(u) = i /\ Len(u) <= Len(p) /\ \A j \in 1 .. Len(u) : u[j] = p[j]
      BY <1>1, <2>2 DEF PathSeq
    <3> HIDE DEF u
    <3>2. IsPrefix(u, p)
      BY <3>1, PrefixByPosition
    <3>3. QED
      BY <3>2 DEF u
  <2>4. Walk(f, Root, SubSeq(p, 1, i)) # None
    BY <1>1, <2>2, <2>3, WalkPrefix DEF PathSeq
  <2>5. SubSeq(p, 1, i) # <<>>
    BY <2>2, EmptySeq
  <2>6. QED
    BY <1>1, <2>2, <2>4, <2>5, WalkType DEF PathSeq
<1>3. SUFFICES ASSUME Cardinality(Dirs) < m PROVE FALSE
  BY <1>1
<1>4. IsFiniteSet(1 .. m) /\ Cardinality(1 .. m) = m
  <2> HIDE DEF m
  <2>1. m \in Int /\ 1 \in Int /\ (1 > m => m = 0)
    BY <1>1
  <2>2. QED
    BY <2>1, FS_Interval
<1>5. g \in [1 .. m -> Dirs]
  BY <1>2
<1>6. PICK i, j \in 1 .. m : i # j /\ g[i] = g[j]
  <2> HIDE DEF g, m
  <2> QED BY <1>1, <1>3, <1>4, <1>5, FS_PigeonHole
<1>7. SubSeq(p, 1, i) = SubSeq(p, 1, j)
  BY <1>2, <1>6, SamePath
<1>8. QED
  BY <1>2, <1>6, <1>7

\* A path that leads somewhere else on a disk where one directory has another place
\* comes through the old place or the new one.
LEMMA Turned ==
    ASSUME NEW f, Disk(f), NEW g, Disk(g), NEW d \in Dirs, \A c \in Dirs \ {d} : g[c] = f[c],
           NEW q \in PathSeq, Walk(f, Root, q) # Walk(g, Root, q)
    PROVE  \E s \in PathSeq, n \in Names :
               /\ IsPrefix(Append(s, n), q) /\ Walk(f, Root, s) = Walk(g, Root, s)
               /\ f[d] = <<Walk(f, Root, s), n>> \/ g[d] = <<Walk(f, Root, s), n>>
<1> DEFINE X == {s \in PathSeq : Walk(f, Root, s) = Walk(g, Root, s)}
<1>1. SUFFICES ASSUME \A s \in PathSeq, n \in Names :
                        IsPrefix(Append(s, n), q) /\ Walk(f, Root, s) = Walk(g, Root, s)
                        => f[d] # <<Walk(f, Root, s), n>> /\ g[d] # <<Walk(f, Root, s), n>>
               PROVE  FALSE
  OBVIOUS
<1>2. <<>> \in X
  BY WalkEmpty, EmptySeq DEF PathSeq
<1>3. ASSUME NEW s \in PathSeq, NEW n \in Names, IsPrefix(Append(s, n), q), s \in X
      PROVE  Append(s, n) \in X
  <2> DEFINE u == Walk(f, Root, s)
  <2>1. u = Walk(g, Root, s) /\ f[d] # <<u, n>> /\ g[d] # <<u, n>>
    BY <1>1, <1>3
  <2>2. u \in Nodes \cup {None}
    BY ConstantTypes, WalkType
  <2> HIDE DEF u
  <2>3. \A c \in Dirs : f[c] = <<u, n>> <=> g[c] = <<u, n>>
    BY <2>1
  <2>4. Kid(f, u, n) = Kid(g, u, n)
    BY <2>2, <2>3, KidIs
  <2>5. Walk(f, Root, Append(s, n)) = Walk(g, Root, Append(s, n))
    BY <2>1, <2>4, WalkOn DEF u
  <2>6. QED
    BY <2>5, Joined
<1>4. q \in X
  <2> HIDE DEF X
  <2> QED BY <1>2, <1>3, PathUp
<1>5. QED
  BY <1>4

\* A path comes through the new place of d, and goes on as it did from d.
Carries(f, g, d, q) ==
    \E s, t \in PathSeq, n \in Names :
        /\ IsPrefix(Append(s, n), q) /\ Walk(f, Root, s) = Walk(g, Root, s)
        /\ g[d] = <<Walk(f, Root, s), n>>
        /\ Walk(f, d, t) = Walk(g, Root, q) /\ Len(t) <= Len(q)

\* So does every path that leads to a directory it did not lead to.
LEMMA Carried ==
    ASSUME NEW f, Disk(f), NEW g, Disk(g), NEW d \in Dirs, \A c \in Dirs \ {d} : g[c] = f[c],
           NEW q \in PathSeq, Walk(f, Root, q) # Walk(g, Root, q), Walk(g, Root, q) # None
    PROVE  Carries(f, g, d, q)
<1> DEFINE X == {r \in PathSeq : \/ Walk(f, Root, r) = Walk(g, Root, r) \/ Walk(g, Root, r) = None
                                \/ Carries(f, g, d, r)}
<1>1. <<>> \in X
  BY WalkEmpty, EmptySeq DEF PathSeq
<1>2. ASSUME NEW r \in PathSeq, NEW a \in Names, r \in X PROVE Append(r, a) \in X
  <2> DEFINE ra == Append(r, a)
  <2> DEFINE c == Walk(g, Root, ra)
  <2>1. ra \in PathSeq /\ ra # <<>> /\ Len(r) \in Nat /\ Len(ra) = Len(r) + 1 /\ Root \in Nodes
    BY Joined, ConstantTypes
  <2>2. SUFFICES ASSUME c # None, Walk(f, Root, ra) # c PROVE Carries(f, g, d, ra)
    BY <2>1
  <2>3. c \in Dirs
    BY <2>1, <2>2, WalkType
  <2>4. g[c] = <<Walk(g, Root, r), a>>
    BY <2>1, <2>3, WalkLast
  <2>5. IsPrefix(r, ra) /\ IsPrefix(ra, ra) /\ ~IsPrefix(ra, r)
    <3>1. IsPrefix(r, ra) /\ IsPrefix(ra, ra)
      BY <2>1, PrefixSelf, PrefixOfJoined
    <3>2. ~IsPrefix(ra, r)
      <4>1. ~(Len(ra) <= Len(r))
        BY <2>1
      <4> HIDE DEF ra
      <4>2. QED
        BY <2>1, <4>1, PrefixLength
    <3>3. QED
      BY <3>1, <3>2
  <2>6. Walk(g, Root, r) # None
    BY <2>1, <2>2, <2>5, WalkPrefix
  <2> HIDE DEF ra, c
  <2>7. CASE Walk(f, Root, r) = Walk(g, Root, r)
    <3>1. c = d
      <4>1. c # d => f[c] = <<Walk(f, Root, r), a>>
        BY <2>3, <2>4, <2>7
      <4>2. c # d => Walk(f, Root, ra) = c
        BY <2>1, <2>3, <4>1, WalkLast DEF ra
      <4>3. QED
        BY <2>2, <4>2
    <3>2. Walk(f, d, <<>>) = d /\ Len(<<>>) <= Len(ra) /\ <<>> \in PathSeq
      BY <2>1, WalkEmpty, EmptySeq DEF PathSeq
    <3>3. QED
      BY <2>4, <2>5, <2>7, <3>1, <3>2 DEF Carries, c, ra
  <2>8. CASE Walk(f, Root, r) # Walk(g, Root, r)
    <3>1. PICK s \in PathSeq, t \in PathSeq, n \in Names :
              /\ IsPrefix(Append(s, n), r) /\ Walk(f, Root, s) = Walk(g, Root, s)
              /\ g[d] = <<Walk(f, Root, s), n>>
              /\ Walk(f, d, t) = Walk(g, Root, r) /\ Len(t) <= Len(r)
      BY <1>2, <2>6, <2>8 DEF Carries
    <3>2. Append(s, n) \in PathSeq /\ Walk(g, Root, Append(s, n)) = d
      <4>1. g[d] = <<Walk(g, Root, s), n>>
        BY <3>1
      <4>2. Walk(g, Root, Append(s, n)) = d
        BY <2>1, <4>1, WalkLast
      <4>3. QED
        BY <4>2, Joined
    <3>3. c # d
      <4>1. c = d => Append(s, n) = ra
        BY <2>1, <2>2, <3>2, SamePath DEF c
      <4>2. QED
        BY <2>5, <3>1, <4>1
    <3>4. f[c] = <<Walk(f, d, t), a>>
      BY <2>3, <2>4, <3>1, <3>3
    <3>5. d \in Nodes /\ Append(t, a) \in PathSeq /\ Len(t) \in Nat /\ Len(Append(t, a)) = Len(t) + 1
      BY Joined DEF Nodes
    <3>6. Walk(f, d, Append(t, a)) = c
      BY <2>3, <3>4, <3>5, WalkLast
    <3>7. IsPrefix(Append(s, n), ra)
      BY <2>1, <2>5, <3>1, <3>2, PrefixTransitive
    <3>8. Len(Append(t, a)) <= Len(ra)
      BY <2>1, <3>1, <3>5
    <3>9. QED
      BY <3>1, <3>5, <3>6, <3>7, <3>8 DEF Carries, c
  <2>9. QED
    BY <2>7, <2>8
<1>3. q \in X
  <2> HIDE DEF X
  <2> QED BY <1>1, <1>2, PathUp
<1>4. QED
  BY <1>3

\* Two ways to a directory, from the root and from d, have d in common.
LEMMA Behind ==
    ASSUME NEW f, Disk(f), NEW d \in Dirs, NEW t \in PathSeq, NEW p \in PathSeq,
           Walk(f, d, t) # None, Walk(f, d, t) = Walk(f, Root, p)
    PROVE  \E s \in PathSeq : IsPrefix(s, p) /\ Walk(f, Root, s) = d
<1> DEFINE Meets(r) == \E s \in PathSeq : IsPrefix(s, r) /\ Walk(f, Root, s) = d
<1> DEFINE X == {u \in PathSeq : \A r \in PathSeq :
                    Walk(f, d, u) # None /\ Walk(f, d, u) = Walk(f, Root, r) => Meets(r)}
<1>1. <<>> \in X
  <2>1. \A r \in PathSeq : Walk(f, Root, r) = d => Meets(r)
    BY PrefixSelf
  <2> HIDE DEF Meets
  <2>2. QED
    BY <2>1, WalkEmpty, EmptySeq DEF PathSeq
<1>2. ASSUME NEW u \in PathSeq, NEW a \in Names, u \in X PROVE Append(u, a) \in X
  <2>1. Append(u, a) \in PathSeq /\ Append(u, a) # <<>> /\ d \in Nodes /\ Root \in Nodes
    BY Joined, ConstantTypes DEF Nodes
  <2>2. SUFFICES ASSUME NEW r \in PathSeq, Walk(f, d, Append(u, a)) # None,
                        Walk(f, d, Append(u, a)) = Walk(f, Root, r)
                 PROVE  Meets(r)
    <3> HIDE DEF Meets
    <3> QED BY <2>1
  <2>3. PICK c \in Dirs : c = Walk(f, d, Append(u, a))
    BY <2>1, <2>2, WalkType
  <2>4. f[c] = <<Walk(f, d, u), a>>
    BY <2>1, <2>3, WalkLast
  <2>5. r # <<>>
    BY <2>2, <2>3, WalkEmpty, ConstantTypes
  <2>6. PICK v \in PathSeq, m \in Names : r = Append(v, m)
    BY <2>5, Split
  <2>7. f[c] = <<Walk(f, Root, v), m>>
    BY <2>1, <2>2, <2>3, <2>6, WalkLast
  <2>8. Walk(f, d, u) # None
    <3>1. IsPrefix(u, Append(u, a))
      BY PrefixSelf, PrefixOfJoined
    <3>2. QED
      BY <2>1, <2>2, <3>1, WalkPrefix
  <2>9. Meets(v)
    <3> HIDE DEF Meets
    <3> QED BY <1>2, <2>4, <2>7, <2>8
  <2>10. QED
    BY <2>6, <2>9, PrefixOfJoined
<1>3. t \in X
  <2> HIDE DEF X
  <2> QED BY <1>1, <1>2, PathUp
<1>4. QED
  BY <1>3

-----------------------------------------------------------------------------
(* The invariant *)

Scanning == phase \in {"rebuilding", "reconciling"}
Active == Scanning \/ phase = "idle"

\* The watches and the entries in effect: those of the scan while there is one.  A
\* directory that waits to be listed counts as shown.
Maps == IF Scanning THEN foundWds ELSE wds
Shown ==
    (IF Scanning THEN found ELSE entries)
    \cup {<<t[2], "dir">> : t \in {u \in todo : u[1] = "list" /\ u[2] # <<>>}}

\* What was told and is not processed; the oldest batch of it.
Pending == kernel \cup UNION {queue[i] : i \in 1 .. Len(queue)}
First == IF queue = <<>> THEN kernel ELSE queue[1]

\* A path is about to be looked at again: by a step of the scan, or because of what a
\* watched directory told of a name in it (what a directory tells of itself is told
\* of its name too, or says nothing new).  A directory that waits to be listed has been
\* looked at itself.
Tasked(tasks, q) == \E t \in tasks : IsPrefix(t[2], q) /\ (t[1] = "list" => t[2] # q)
Told(batch, ws, q) ==
    \E e \in batch, w \in ws :
        e[1] = w[1] /\ e[2] \in Names /\ IsPrefix(About(e, w[2]), q)
Covered(q) == Tasked(todo, q) \/ Told(Pending, Maps, q)

\* Everything is about to be looked at again, or nothing more.
Afresh ==
    \/ phase \in {"opening", "loading", "invalid"}
    \/ \E e \in Pending : e = Overflow \/ e[2] = IgnoreFile

\* What is told: of a watch, with a name or of the directory itself, or an overflow.
Tidings == ((Nat \ {0}) \X (Names \cup {Self, IgnoreFile})) \cup {Overflow}

\* The types, somewhat stronger than TypeOK; a watched path is not longer than there
\* are directories.
TypeInv ==
    /\ Disk(place) /\ files \subseteq Places /\ \A d \in Dirs : place[d] \notin files
    /\ ignoring \in BOOLEAN /\ changes \in 0..MaxChanges
    /\ wdOf \in [Nodes -> Nat] /\ nextWd \in Nat \ {0}
    /\ kernel \subseteq Tidings /\ queue \in Seq(SUBSET Tidings)
    /\ phase \in {"opening", "loading", "rebuilding", "reconciling", "idle", "invalid"}
    /\ entries \subseteq (Paths \X {"dir", "file"}) /\ found \subseteq (Paths \X {"dir", "file"})
    /\ wds \subseteq ((Nat \ {0}) \X Paths) /\ foundWds \subseteq ((Nat \ {0}) \X Paths)
    /\ \A w \in wds \cup foundWds : Len(w[2]) <= Cardinality(Dirs)
    /\ spec \in BOOLEAN /\ raced \in BOOLEAN
    /\ todo \subseteq ({"look", "watch", "list"} \X Paths) /\ seen \subseteq Nodes \cup {None}

\* A descriptor has one path and a path one descriptor.
Pairs(ws) == \A v, w \in ws : v[1] = w[1] <=> v[2] = w[2]

\* Descriptors are fresh, belong to one directory, and have a path; the root's is 1.
WatchInv ==
    /\ Pairs(wds) /\ Pairs(foundWds)
    /\ \A d, e \in Nodes : d # e /\ wdOf[d] # 0 => wdOf[d] # wdOf[e]
    /\ \A d \in Nodes : wdOf[d] < nextWd
    /\ \A w \in foundWds : w[1] < nextWd
    /\ phase = "idle" => \A w \in wds : w[1] < nextWd
    /\ Active => \A d \in Nodes : wdOf[d] # 0 =>
           (\E w \in Maps : w[1] = wdOf[d]) \/ (d = Root /\ <<"watch", <<>> >> \in todo)
RootInv ==
    /\ phase = "opening" => nextWd = 1 /\ \A d \in Nodes : wdOf[d] = 0
    /\ phase = "loading" => \A d \in Dirs : wdOf[d] = 0
    /\ phase # "opening" => wdOf[Root] = 1
    /\ Active => \A w \in Maps : w[1] = 1 <=> w[2] = <<>>
    /\ \A e \in Pending : e[2] = Self => e[1] # 1

\* The steps of a scan that are left are of paths apart, under which nothing has been
\* found.
ScanInv ==
    /\ phase \in {"opening", "loading", "idle", "invalid"} =>
           todo = {} /\ seen = {} /\ foundWds = {} /\ found = {}
    /\ \A t, u \in todo : IsPrefix(t[2], u[2]) => t = u
    /\ \A t \in todo, w \in foundWds : IsPrefix(t[2], w[2]) => t = <<"list", w[2]>>
    /\ \A t \in todo, e \in found : ~IsPrefix(t[2], e[1])
    /\ \A t \in todo : t[1] # "look" => ~Excluded(spec, t[2])
    /\ \A w \in foundWds : ~Excluded(spec, w[2])
    /\ phase = "idle" => \A w \in wds : ~Excluded(spec, w[2])

\* What is not covered is as on the disk, and watched as it is shown.
Exact(q) ==
    /\ <<q, "dir">> \in Shown <=> q # <<>> /\ Dir(q) # None /\ ~Excluded(spec, q)
    /\ <<q, "file">> \in Shown <=> IsFile(q) /\ ~Excluded(spec, q)
    /\ Dir(q) # None /\ ~Excluded(spec, q) => wdOf[Dir(q)] # 0 /\ <<wdOf[Dir(q)], q>> \in Maps
    /\ \A w \in Maps : w[2] = q => Dir(q) # None /\ wdOf[Dir(q)] = w[1]
ExactInv == \A q \in Paths : ~Covered(q) => Exact(q)

\* A watched directory is where its watch says, or has been moved out, or the oldest
\* batch tells both of its places.
MoveInv ==
    \A w \in Maps, q \in Paths : Dir(q) # None /\ wdOf[Dir(q)] = w[1] =>
        \/ q = w[2] \/ Excluded(spec, q)
        \/ phase = "idle" /\ Told(First, Maps, q) /\ Told(First, Maps, w[2])

\* A directory that was seen is watched or is about to be.
SeenInv ==
    Scanning => \A q \in Paths : Dir(q) # None /\ Dir(q) \in seen =>
                    (\E w \in Maps : w[2] = q) \/ <<"watch", q>> \in todo

FollowInv == ~raced /\ ~Afresh => ExactInv /\ MoveInv /\ SeenInv

IInv ==
    /\ TypeInv /\ WatchInv /\ RootInv /\ ScanInv
    /\ view = entries /\ (~Afresh => spec = ignoring) /\ FollowInv

-----------------------------------------------------------------------------
(* What the system promises follows *)

\* The types of the model.
LEMMA TypesFollow == TypeInv /\ view = entries => TypeOK
<1> SUFFICES ASSUME TypeInv, view = entries PROVE TypeOK
  OBVIOUS
<1>1. Tidings \subseteq Events
  BY DEF Tidings, Events, Overflow
<1>2. kernel \subseteq Events /\ \A i \in DOMAIN queue : queue[i] \subseteq Events
  <2>1. queue \in Seq(SUBSET Tidings) /\ kernel \subseteq Tidings
    BY DEF TypeInv
  <2>2. \A i \in DOMAIN queue : queue[i] \in SUBSET Tidings
    BY <2>1, LenProperties, ElementOfSeq
  <2>3. QED
    BY <1>1, <2>1, <2>2
<1>3. wds \subseteq Nat \X Paths /\ foundWds \subseteq Nat \X Paths
  BY DEF TypeInv
<1>4. \A es \in {entries, view, found} : es \subseteq (Paths \X {"dir", "file"})
  BY DEF TypeInv
<1>5. QED
  BY <1>2, <1>3, <1>4 DEF TypeInv, TypeOK, Disk

\* Nothing is covered when all is quiet.
LEMMA QuietFacts ==
    ASSUME IInv, Quiet
    PROVE  /\ Pending = {} /\ ~Afresh /\ Maps = wds /\ Shown = entries /\ phase = "idle" /\ todo = {}
           /\ \A q : ~Covered(q)
<1>1. phase = "idle" /\ kernel = {} /\ queue = <<>> /\ todo = {}
  BY DEF Quiet, IInv, ScanInv
<1>2. Pending = {}
  <2>1. 1 .. Len(queue) = {}
    BY <1>1
  <2>2. QED
    BY <1>1, <2>1 DEF Pending
<1>3. ~Afresh /\ Maps = wds /\ Shown = entries
  BY <1>1, <1>2 DEF Afresh, Maps, Shown, Scanning
<1>4. \A q : ~Covered(q)
  BY <1>1, <1>2 DEF Covered, Tasked, Told
<1>5. QED
  BY <1>1, <1>2, <1>3, <1>4

\* When all is quiet, a client sees the disk.
LEMMA ConvergedFollows == IInv => ConvergedUnlessRaced
<1> SUFFICES ASSUME IInv, ~raced, Quiet PROVE view = Index
  BY DEF ConvergedUnlessRaced, Converged
<1>1. /\ ~Afresh /\ Shown = entries /\ view = entries /\ spec = ignoring /\ \A q : ~Covered(q)
      /\ entries \subseteq (Paths \X {"dir", "file"})
  BY QuietFacts DEF IInv, TypeInv
<1>2. \A q \in Paths : Exact(q)
  BY <1>1 DEF IInv, FollowInv, ExactInv
<1>3. ASSUME NEW q \in Paths
      PROVE  /\ <<q, "dir">> \in view <=> q # <<>> /\ Dir(q) # None /\ ~Excluded(ignoring, q)
             /\ <<q, "file">> \in view <=> IsFile(q) /\ ~Excluded(ignoring, q)
  BY <1>1, <1>2 DEF Exact
<1>4. \A e \in view : \E q \in Paths : e = <<q, "dir">> \/ e = <<q, "file">>
  BY <1>1
<1>5. \A e \in Index : \E q \in Paths : e = <<q, "dir">> \/ e = <<q, "file">>
  BY DEF Index
<1>6. \A q \in Paths :
        /\ <<q, "dir">> \in Index <=> q # <<>> /\ Dir(q) # None /\ ~Excluded(ignoring, q)
        /\ <<q, "file">> \in Index <=> IsFile(q) /\ ~Excluded(ignoring, q)
  BY DEF Index
<1>7. \A e : e \in view <=> e \in Index
  BY <1>3, <1>4, <1>5, <1>6
<1>8. QED
  BY <1>7

\* And what it sees is watched.
LEMMA WatchesFollow == IInv => WatchesExact
<1> SUFFICES ASSUME IInv PROVE WatchesExact
  OBVIOUS
<1>1. \A ws \in {wds, foundWds} : \A v, w \in ws : v[1] = w[1] <=> v[2] = w[2]
  BY DEF IInv, WatchInv, Pairs
<1>2. ASSUME Quiet, ~raced
      PROVE  /\ wds = {<<wdOf[Dir(p)], p>> :
                          p \in {q \in Paths : Dir(q) # None /\ ~Excluded(ignoring, q)}}
             /\ \A d \in Nodes : wdOf[d] # 0 => \E w \in wds : w[1] = wdOf[d]
  <2>1. /\ ~Afresh /\ Maps = wds /\ spec = ignoring /\ phase = "idle" /\ todo = {}
        /\ wds \subseteq ((Nat \ {0}) \X Paths) /\ \A q : ~Covered(q)
    BY <1>2, QuietFacts DEF IInv, TypeInv
  <2>2. \A q \in Paths : Exact(q)
    BY <1>2, <2>1 DEF IInv, FollowInv, ExactInv
  <2>3. ASSUME NEW w \in wds
        PROVE  w[2] \in Paths /\ Dir(w[2]) # None /\ ~Excluded(ignoring, w[2])
               /\ w = <<wdOf[Dir(w[2])], w[2]>>
    <3>1. w[2] \in Paths /\ w = <<w[1], w[2]>> /\ ~Excluded(ignoring, w[2])
      BY <2>1 DEF IInv, ScanInv
    <3>2. Dir(w[2]) # None /\ wdOf[Dir(w[2])] = w[1]
      BY <2>1, <2>2, <3>1 DEF Exact
    <3>3. QED
      BY <3>1, <3>2
  <2>4. ASSUME NEW q \in Paths, Dir(q) # None, ~Excluded(ignoring, q)
        PROVE  <<wdOf[Dir(q)], q>> \in wds
    BY <2>1, <2>2, <2>4 DEF Exact
  <2>5. \A d \in Nodes : wdOf[d] # 0 => \E w \in wds : w[1] = wdOf[d]
    BY <2>1 DEF IInv, WatchInv, Active
  <2>6. QED
    BY <2>3, <2>4, <2>5
<1>3. QED
  BY <1>1, <1>2 DEF WatchesExact

-----------------------------------------------------------------------------
(* The initial state *)

\* Nothing is watched, found or told, and everything is about to be looked at.
LEMMA InitFollows == Init => IInv
<1> SUFFICES ASSUME Init PROVE IInv
  OBVIOUS
<1>1. /\ phase = "opening" /\ kernel = {} /\ queue = <<>> /\ todo = {} /\ found = {} /\ foundWds = {}
      /\ seen = {} /\ entries = {} /\ view = {} /\ wds = {} /\ nextWd = 1 /\ changes = 0
      /\ ignoring = FALSE /\ spec = FALSE /\ raced = FALSE /\ wdOf = [d \in Nodes |-> 0]
  BY DEF Init
<1>2. Pending = {} /\ Afresh /\ ~Active
  <2>1. 1 .. Len(queue) = {}
    BY <1>1
  <2>2. QED
    BY <1>1, <2>1 DEF Pending, Afresh, Active, Scanning
<1>3. TypeInv
  <2>1. Disk(place) /\ files \subseteq Places /\ \A d \in Dirs : place[d] \notin files
    BY DEF Init, Disk
  <2>2. changes \in 0..MaxChanges /\ wdOf \in [Nodes -> Nat] /\ nextWd \in Nat \ {0}
    BY <1>1, ConstantTypes
  <2>3. queue \in Seq(SUBSET Tidings)
    BY <1>1
  <2>4. /\ entries \subseteq (Paths \X {"dir", "file"}) /\ found \subseteq (Paths \X {"dir", "file"})
        /\ wds \subseteq ((Nat \ {0}) \X Paths) /\ foundWds \subseteq ((Nat \ {0}) \X Paths)
        /\ todo \subseteq ({"look", "watch", "list"} \X Paths) /\ seen \subseteq Nodes \cup {None}
        /\ kernel \subseteq Tidings
    BY <1>1
  <2>5. QED
    BY <1>1, <2>1, <2>2, <2>3, <2>4 DEF TypeInv
<1>4. WatchInv /\ ScanInv
  BY <1>1, <1>2 DEF WatchInv, Pairs, ScanInv
<1>5. RootInv
  BY <1>1, <1>2 DEF RootInv
<1>6. QED
  BY <1>1, <1>2, <1>3, <1>4, <1>5 DEF IInv, FollowInv

-----------------------------------------------------------------------------
(* Changes of the disk *)

\* What a change tells: names in directories, and directories of themselves.
LEMMA TellFacts ==
    ASSUME TypeInv, NEW E, E \subseteq Nodes \X (Names \cup {Self, IgnoreFile}), Tell(E)
    PROVE  /\ kernel \subseteq kernel' /\ kernel' \subseteq Tidings /\ changes' \in 0..MaxChanges
           /\ \A x \in E : wdOf[x[1]] # 0 => <<wdOf[x[1]], x[2]>> \in kernel' \/ Overflow \in kernel'
           /\ \A e \in kernel' : \/ e \in kernel \/ e = Overflow
                                 \/ \E x \in E : wdOf[x[1]] # 0 /\ e = <<wdOf[x[1]], x[2]>>
<1> DEFINE told == {<<wdOf[e[1]], e[2]>> : e \in {x \in E : wdOf[x[1]] # 0}}
<1>1. kernel' = kernel \cup told \/ kernel' = kernel \cup {Overflow}
  BY DEF Tell
<1>2. changes' \in 0..MaxChanges
  BY ConstantTypes DEF Tell, TypeInv
<1>3. told \subseteq (Nat \ {0}) \X (Names \cup {Self, IgnoreFile})
  BY DEF TypeInv
<1>4. told \subseteq Tidings /\ Overflow \in Tidings /\ kernel \subseteq Tidings
  <2> HIDE DEF told
  <2> QED BY <1>3 DEF Tidings, TypeInv
<1>5. \A x \in E : wdOf[x[1]] # 0 => <<wdOf[x[1]], x[2]>> \in told
  OBVIOUS
<1>6. \A e \in told : \E x \in E : wdOf[x[1]] # 0 /\ e = <<wdOf[x[1]], x[2]>>
  OBVIOUS
<1> HIDE DEF told
<1>7. QED
  BY <1>1, <1>2, <1>4, <1>5, <1>6

\* A change of the disk: it tells E and leaves the tree and its scan alone.
Change(E) ==
    /\ E \subseteq Nodes \X (Names \cup {Self, IgnoreFile}) /\ Tell(E)
    /\ \A x \in E : x[2] = Self => x[1] \in Dirs
    /\ UNCHANGED <<nextWd, phase, queue, entries, wds, spec, view, todo, found, foundWds, seen>>
    /\ wdOf' = wdOf \/ \E d \in Dirs : wdOf' = [wdOf EXCEPT ![d] = 0]
    /\ Disk(place)' /\ files' \subseteq Places /\ (\A d \in Dirs : place[d] \notin files)'
    /\ ignoring' \in BOOLEAN /\ raced' \in BOOLEAN /\ (raced => raced')

\* What was pending still is, and every new event is told of a watched directory.
LEMMA ChangePending ==
    ASSUME TypeInv, NEW E, Change(E)
    PROVE  /\ Pending \subseteq Pending' /\ kernel \subseteq kernel' /\ kernel' \subseteq Pending'
           /\ \A e \in Pending' : \/ e \in Pending \/ e = Overflow
                                  \/ \E x \in E : wdOf[x[1]] # 0 /\ e = <<wdOf[x[1]], x[2]>>
           /\ Maps' = Maps /\ Shown' = Shown /\ (Active <=> Active') /\ (Scanning <=> Scanning')
           /\ (Afresh => Afresh') /\ \A q : Covered(q) => Covered(q)'
           /\ \A q : Told(First, Maps, q) => Told(First', Maps', q)
<1>1. /\ kernel \subseteq kernel' /\ queue' = queue
      /\ \A e \in kernel' : \/ e \in kernel \/ e = Overflow
                            \/ \E x \in E : wdOf[x[1]] # 0 /\ e = <<wdOf[x[1]], x[2]>>
  BY TellFacts DEF Change
<1>2. /\ Pending \subseteq Pending' /\ kernel' \subseteq Pending' /\ kernel \subseteq Pending
      /\ \A e \in Pending' : e \in kernel' \/ e \in Pending
  BY <1>1 DEF Pending
<1>3. /\ Maps' = Maps /\ Shown' = Shown /\ (Active <=> Active') /\ (Scanning <=> Scanning')
      /\ todo' = todo /\ phase' = phase
  BY DEF Change, Maps, Shown, Active, Scanning
<1>4. Afresh => Afresh'
  BY <1>2, <1>3 DEF Afresh
<1>5. \A q : Covered(q) => Covered(q)'
  BY <1>2, <1>3 DEF Covered, Told
<1>6. \A q : Told(First, Maps, q) => Told(First', Maps', q)
  BY <1>1, <1>3 DEF Told, First
<1>7. QED
  BY <1>1, <1>2, <1>3, <1>4, <1>5, <1>6

\* All but the coverage is kept by every change.
LEMMA ChangeKeeps ==
    ASSUME IInv, NEW E, Change(E)
    PROVE  TypeInv' /\ WatchInv' /\ RootInv' /\ ScanInv' /\ view' = entries'
<1>1. /\ UNCHANGED <<nextWd, phase, queue, entries, wds, spec, view, todo, found, foundWds, seen>>
      /\ Maps' = Maps /\ (Active <=> Active')
      /\ TypeInv /\ WatchInv /\ RootInv /\ ScanInv /\ view = entries
  BY ChangePending DEF Change, IInv
<1>2. wdOf' \in [Nodes -> Nat] /\ \A d \in Nodes : wdOf'[d] = 0 \/ wdOf'[d] = wdOf[d]
  BY <1>1 DEF Change, TypeInv, Nodes
<1>3. wdOf'[Root] = wdOf[Root]
  BY <1>1, ConstantTypes DEF Change, TypeInv, Nodes
<1>4. TypeInv'
  <2>1. kernel' \subseteq Tidings /\ changes' \in 0..MaxChanges
    BY <1>1, TellFacts DEF Change
  <2>2. Disk(place)' /\ files' \subseteq Places /\ (\A d \in Dirs : place[d] \notin files)'
        /\ ignoring' \in BOOLEAN /\ raced' \in BOOLEAN
    BY DEF Change
  <2>3. QED
    BY <1>1, <1>2, <2>1, <2>2 DEF TypeInv
<1>5. WatchInv'
  <2>1. Pairs(wds)' /\ Pairs(foundWds)'
    BY <1>1 DEF WatchInv, Pairs
  <2>2. \A d, e \in Nodes : d # e /\ wdOf'[d] # 0 => wdOf'[d] # wdOf'[e]
    BY <1>1, <1>2 DEF WatchInv
  <2>3. \A d \in Nodes : wdOf'[d] < nextWd'
    BY <1>1, <1>2 DEF WatchInv, TypeInv
  <2>4. Active' => \A d \in Nodes : wdOf'[d] # 0 =>
           (\E w \in Maps' : w[1] = wdOf'[d]) \/ (d = Root /\ <<"watch", <<>> >> \in todo')
    BY <1>1, <1>2 DEF WatchInv
  <2>5. QED
    BY <1>1, <2>1, <2>2, <2>3, <2>4 DEF WatchInv
<1>6. RootInv'
  <2>1. \A e \in Pending' : e[2] = Self => e[1] # 1
    <3> SUFFICES ASSUME NEW e \in Pending', e[2] = Self PROVE e[1] # 1
      OBVIOUS
    <3>1. CASE e \in Pending
      BY <1>1, <3>1 DEF RootInv
    <3>2. CASE e = Overflow
      BY <3>2 DEF Overflow
    <3>3. CASE \E x \in E : wdOf[x[1]] # 0 /\ e = <<wdOf[x[1]], x[2]>>
      <4>1. PICK x \in E : wdOf[x[1]] # 0 /\ e = <<wdOf[x[1]], x[2]>>
        BY <3>3
      <4>2. x[1] \in Dirs /\ x[1] \in Nodes /\ Root \in Nodes /\ x[1] # Root
        BY <4>1, ConstantTypes DEF Change, Nodes
      <4>3. wdOf[Root] = 1
        BY <1>1, <4>1, <4>2 DEF RootInv
      <4>4. QED
        BY <1>1, <4>1, <4>2, <4>3 DEF WatchInv
    <3>4. QED
      BY <1>1, <3>1, <3>2, <3>3, ChangePending
  <2>2. QED
    BY <1>1, <1>2, <1>3, <2>1, ConstantTypes DEF RootInv, Nodes
<1>7. ScanInv'
  BY <1>1 DEF ScanInv
<1>8. QED
  BY <1>1, <1>4, <1>5, <1>6, <1>7

\* What is pending was told, and what is watched are paths.
Kinds ==
    /\ Pending \subseteq Tidings /\ First \subseteq Tidings
    /\ Maps \subseteq (Nat \ {0}) \X Paths
    /\ \A w \in Maps : Len(w[2]) <= Cardinality(Dirs)

\* The types say so.
LEMMA KindsNow == TypeInv => Kinds
<1> SUFFICES ASSUME TypeInv PROVE Kinds
  OBVIOUS
<1>1. kernel \subseteq Tidings /\ queue \in Seq(SUBSET Tidings)
  BY DEF TypeInv
<1>2. \A i \in 1 .. Len(queue) : queue[i] \in SUBSET Tidings
  BY <1>1, ElementOfSeq
<1>3. Pending \subseteq Tidings
  BY <1>1, <1>2 DEF Pending
<1>4. First \subseteq Tidings
  <2>1. queue # <<>> => 1 \in 1 .. Len(queue)
    BY <1>1, EmptySeq
  <2>2. QED
    BY <1>1, <1>2, <2>1 DEF First
<1>5. /\ Maps \subseteq (Nat \ {0}) \X Paths
      /\ \A w \in Maps : Len(w[2]) <= Cardinality(Dirs)
  BY DEF TypeInv, Maps
<1>6. QED
  BY <1>3, <1>4, <1>5 DEF Kinds

\* After a step, too.
LEMMA KindsNext == TypeInv' => Kinds'
BY KindsNow, PTL

\* An event of a watch is about a path, one name longer at most.
LEMMA AboutPath ==
    ASSUME NEW e \in Tidings, NEW p \in PathSeq, e[1] # 0, e[2] # IgnoreFile
    PROVE  /\ About(e, p) \in PathSeq /\ Len(About(e, p)) <= Len(p) + 1
           /\ IsPrefix(p, About(e, p))
           /\ (e[2] # Self => e[2] \in Names /\ About(e, p) # <<>>)
<1>1. e[2] \in Names \cup {Self}
  BY DEF Tidings, Overflow
<1>2. Len(p) \in Nat
  BY LenProperties DEF PathSeq
<1>3. CASE e[2] = Self
  BY <1>2, <1>3, PrefixSelf DEF About
<1>4. CASE e[2] # Self
  <2>1. e[2] \in Names /\ About(e, p) = Append(p, e[2])
    BY <1>1, <1>4 DEF About
  <2>2. QED
    BY <1>2, <1>4, <2>1, Joined, PrefixSelf, PrefixOfJoined
<1>5. QED
  BY <1>3, <1>4

\* What covers a path covers all below it.
LEMMA ToldBelow ==
    ASSUME NEW batch, NEW ws, batch \subseteq Tidings, ws \subseteq (Nat \ {0}) \X Paths,
           NEW s \in PathSeq, NEW q \in PathSeq, IsPrefix(s, q), Told(batch, ws, s)
    PROVE  Told(batch, ws, q)
<1>1. PICK e \in batch, w \in ws :
        e[1] = w[1] /\ e[2] \in Names /\ IsPrefix(About(e, w[2]), s)
  BY DEF Told
<1>2. e \in Tidings /\ e[1] # 0 /\ e[2] # IgnoreFile /\ w[2] \in PathSeq
  BY <1>1, PathsAre, ConstantTypes
<1>3. IsPrefix(About(e, w[2]), q)
  BY <1>1, <1>2, AboutPath, PrefixTransitive
<1>4. QED
  BY <1>1, <1>3 DEF Told

\* The same for the steps of a scan.
LEMMA TaskedBelow ==
    ASSUME NEW tasks, NEW stages, tasks \subseteq stages \X Paths,
           NEW s \in PathSeq, NEW q \in PathSeq, IsPrefix(s, q), Tasked(tasks, s)
    PROVE  Tasked(tasks, q)
<1>1. PICK t \in tasks : IsPrefix(t[2], s) /\ (t[1] = "list" => t[2] # s)
  BY DEF Tasked
<1>2. t[2] \in PathSeq
  BY PathsAre
<1>3. IsPrefix(t[2], q)
  BY <1>1, <1>2, PrefixTransitive
<1>4. t[2] = q => t[2] = s
  <2>1. Len(s) \in Nat /\ Len(q) \in Nat
    BY LenProperties DEF PathSeq
  <2>2. Len(t[2]) <= Len(s) /\ Len(s) <= Len(q)
    BY <1>1, <1>2, PrefixLength
  <2>3. t[2] = q => Len(s) = Len(q)
    BY <2>1, <2>2
  <2>4. QED
    BY <2>3, PrefixLength
<1>5. QED
  BY <1>1, <1>3, <1>4 DEF Tasked

\* And together.
LEMMA CoveredBelow ==
    ASSUME TypeInv, NEW s \in PathSeq, NEW q \in PathSeq, IsPrefix(s, q), Covered(s)
    PROVE  Covered(q)
<1>1. Pending \subseteq Tidings /\ Maps \subseteq (Nat \ {0}) \X Paths
  BY KindsNow DEF Kinds
<1>2. todo \subseteq {"look", "watch", "list"} \X Paths
  BY DEF TypeInv
<1>3. QED
  BY <1>1, <1>2, ToldBelow, TaskedBelow DEF Covered

\* After a step, too.
LEMMA CoveredBelowNext ==
    ASSUME TypeInv', NEW s \in PathSeq, NEW q \in PathSeq, IsPrefix(s, q), Covered(s)'
    PROVE  Covered(q)'
<1>1. Pending' \subseteq Tidings /\ Maps' \subseteq (Nat \ {0}) \X Paths
  BY KindsNext DEF Kinds
<1>2. todo' \subseteq {"look", "watch", "list"} \X Paths
  BY DEF TypeInv
<1>3. QED
  BY <1>1, <1>2, ToldBelow, TaskedBelow DEF Covered

\* A name that is told of a directory the client sees is covered from then on.
LEMMA ToldOf ==
    ASSUME IInv, NEW E, Change(E), ~raced, ~Afresh', NEW r \in PathSeq, NEW n \in Names,
           Dir(r) # None, <<Dir(r), n>> \in E, ~Excluded(spec, r)
    PROVE  Covered(r) \/ Told(kernel', Maps', Append(r, n))
<1>1. TypeInv /\ ~Afresh /\ Maps' = Maps
  BY ChangePending DEF IInv
<1>2. SUFFICES ASSUME ~Covered(r) PROVE Told(kernel', Maps', Append(r, n))
  OBVIOUS
<1>3. r \in Paths
  <2>1. Disk(place) /\ Len(r) \in Nat /\ Cardinality(Dirs) \in Nat
    BY <1>1, ConstantTypes, LenProperties DEF TypeInv, PathSeq
  <2>2. Len(r) <= Cardinality(Dirs)
    BY <2>1, Walks, Short
  <2>3. QED
    BY <2>1, <2>2, PathsAre
<1>4. wdOf[Dir(r)] # 0 /\ <<wdOf[Dir(r)], r>> \in Maps
  BY <1>1, <1>2, <1>3 DEF IInv, FollowInv, ExactInv, Exact
<1> DEFINE e == <<wdOf[Dir(r)], n>>
<1>5. e \in kernel'
  <2>1. Overflow \notin kernel'
    <3>1. kernel' \subseteq Pending'
      BY <1>1, ChangePending
    <3>2. QED
      BY <3>1 DEF Afresh
  <2>2. /\ E \subseteq Nodes \X (Names \cup {Self, IgnoreFile}) /\ Tell(E)
    BY DEF Change
  <2>3. \A x \in E : wdOf[x[1]] # 0 => <<wdOf[x[1]], x[2]>> \in kernel' \/ Overflow \in kernel'
    BY <1>1, <2>2, TellFacts
  <2>4. QED
    BY <1>4, <2>1, <2>3
<1>6. e[2] \in Names /\ About(e, r) = Append(r, n)
  BY ConstantTypes DEF About
<1>7. IsPrefix(Append(r, n), Append(r, n))
  BY Joined, PrefixSelf
<1>8. QED
  BY <1>1, <1>4, <1>5, <1>6, <1>7 DEF Told

\* A change of a name is noticed below it, at once if all was quiet.
LEMMA Noticed ==
    ASSUME IInv, NEW E, Change(E), ~raced, ~Afresh', NEW s \in PathSeq, NEW n \in Names,
           NEW q \in PathSeq, IsPrefix(Append(s, n), q), Dir(s) # None, <<Dir(s), n>> \in E
    PROVE  Excluded(spec, q) \/ (Covered(q)' /\ (Quiet => Told(kernel', Maps', q)))
<1>1. /\ TypeInv /\ TypeInv' /\ Kinds' /\ kernel' \subseteq Pending'
      /\ (Covered(s) => Covered(s)')
  BY ChangePending, ChangeKeeps, KindsNext DEF IInv
<1>2. Append(s, n) \in PathSeq /\ IsPrefix(s, q)
  BY Joined, PrefixSelf, PrefixOfJoined, PrefixTransitive
<1>3. CASE Excluded(spec, s)
  BY <1>2, <1>3, ExcludedBelow
<1>4. CASE Told(kernel', Maps', Append(s, n))
  <2>1. kernel' \subseteq Tidings /\ Maps' \subseteq (Nat \ {0}) \X Paths
    BY <1>1 DEF Kinds
  <2>2. Told(kernel', Maps', q)
    BY <1>2, <1>4, <2>1, ToldBelow
  <2>3. Told(Pending', Maps', q)
    BY <1>1, <2>2 DEF Told
  <2>4. QED
    BY <2>2, <2>3 DEF Covered
<1>5. CASE Covered(s)
  <2>1. Covered(q)'
    BY <1>1, <1>2, <1>5, CoveredBelowNext
  <2>2. ~Quiet
    BY <1>5, QuietFacts
  <2>3. QED
    BY <2>1, <2>2
<1>6. QED
  BY <1>3, <1>4, <1>5, ToldOf

\* A path the change does not concern.
Kept(q) ==
    /\ Dir(q)' = Dir(q) /\ (IsFile(q)' <=> IsFile(q))
    /\ Dir(q) # None => wdOf'[Dir(q)] = wdOf[Dir(q)]

\* What is not covered after a change is as exact as it was.
LEMMA ExactKept ==
    ASSUME IInv, NEW E, Change(E), ~raced, ~Afresh',
           \A q \in Paths : Covered(q)' \/ Excluded(spec, q) \/ Kept(q)
    PROVE  ExactInv'
<1>1. /\ ~Afresh /\ Maps' = Maps /\ Shown' = Shown /\ spec' = spec /\ ExactInv
      /\ \A q : Covered(q) => Covered(q)'
  BY ChangePending DEF IInv, FollowInv, Change
<1>2. SUFFICES ASSUME NEW q \in Paths, ~Covered(q)' PROVE Exact(q)'
  BY DEF ExactInv
<1>3. Exact(q)
  BY <1>1, <1>2 DEF ExactInv
<1>4. CASE Excluded(spec, q)
  <2>1. \A w \in Maps : ~Excluded(spec, w[2])
    BY <1>1 DEF Maps, IInv, ScanInv, TypeInv, Afresh, Scanning
  <2>2. <<q, "dir">> \notin Shown /\ <<q, "file">> \notin Shown
    BY <1>3, <1>4 DEF Exact
  <2>3. \A w \in Maps : w[2] # q
    BY <1>4, <2>1
  <2>4. QED
    BY <1>1, <1>4, <2>2, <2>3 DEF Exact
<1>5. CASE Kept(q)
  BY <1>1, <1>3, <1>5 DEF Exact, Kept
<1>6. QED
  BY <1>2, <1>4, <1>5

\* A directory gets another place, or none.
Moves(d, E) ==
    /\ Change(E) /\ UNCHANGED <<files, ignoring>>
    /\ \A c \in Dirs \ {d} : place'[c] = place[c]
    /\ place[d] # None => place[d] \in E
    /\ place'[d] # None => place'[d] \in E /\ raced' = Races(d)
    /\ wdOf' = wdOf \/ (place'[d] = None /\ wdOf' = [wdOf EXCEPT ![d] = 0])

\* The disks of a move, and what was so before it.
LEMMA MoveFacts ==
    ASSUME IInv, NEW d \in Dirs, NEW E, Moves(d, E), ~raced', ~Afresh'
    PROVE  /\ Disk(place) /\ Disk(place') /\ Change(E) /\ ~raced /\ ~Afresh /\ TypeInv
           /\ ExactInv /\ MoveInv /\ SeenInv /\ Maps' = Maps /\ spec' = spec /\ todo' = todo
           /\ phase' = phase /\ queue' = queue /\ seen' = seen /\ (Scanning <=> Scanning')
           /\ \A w \in Maps : w[1] # 0 /\ w[2] \in Paths /\ ~Excluded(spec, w[2])
           /\ \A q : Dir(q) = Walk(place, Root, q) /\ Dir(q)' = Walk(place', Root, q)
<1>1. Disk(place) /\ TypeInv /\ TypeInv'
  BY ChangeKeeps DEF Moves, IInv, TypeInv
<1>2. Disk(place')
  BY <1>1 DEF TypeInv, Disk
<1>3. ~raced /\ ~Afresh /\ Maps' = Maps /\ (Scanning <=> Scanning')
  BY <1>1, ChangePending DEF Moves, Change
<1>4. ExactInv /\ MoveInv /\ SeenInv
  BY <1>3 DEF IInv, FollowInv
<1>5. \A w \in Maps : ~Excluded(spec, w[2])
  BY <1>1, <1>3 DEF Maps, IInv, ScanInv, TypeInv, Afresh, Scanning
<1>6. \A w \in Maps : w[1] # 0 /\ w[2] \in Paths
  BY <1>1, KindsNow DEF Kinds
<1>7. QED
  BY <1>1, <1>2, <1>3, <1>4, <1>5, <1>6, Walks DEF Moves, Change

\* The place of a directory is in a directory.
LEMMA PlaceOf ==
    ASSUME NEW f, Disk(f), NEW d \in Dirs, NEW u, NEW n, f[d] = <<u, n>>, f[d] # None
    PROVE  u # None /\ u \in Nodes
BY ConstantTypes DEF Disk, Places

\* Where a path that leads elsewhere has turned is noticed.
LEMMA TurnNoticed ==
    ASSUME IInv, NEW d \in Dirs, NEW E, Moves(d, E), ~raced', ~Afresh', NEW q \in PathSeq,
           Dir(q)' # Dir(q)
    PROVE  Excluded(spec, q) \/ Covered(q)'
<1>1. /\ Disk(place) /\ Disk(place') /\ Change(E) /\ ~raced
      /\ \A p : Dir(p) = Walk(place, Root, p) /\ Dir(p)' = Walk(place', Root, p)
  BY MoveFacts
<1>2. /\ \A c \in Dirs \ {d} : place'[c] = place[c]
      /\ Walk(place, Root, q) # Walk(place', Root, q)
  BY <1>1 DEF Moves
<1>3. PICK s \in PathSeq, n \in Names :
          /\ IsPrefix(Append(s, n), q) /\ Walk(place, Root, s) = Walk(place', Root, s)
          /\ place[d] = <<Walk(place, Root, s), n>> \/ place'[d] = <<Walk(place, Root, s), n>>
  <2> HIDE DEF Moves
  <2> QED BY <1>1, <1>2, Turned
<1> DEFINE u == Walk(place, Root, s)
<1>4. <<u, n>> # None
  <2>1. u \in Nodes \cup {None}
    BY <1>1, ConstantTypes, WalkType
  <2>2. <<u, n>> \in (Dirs \cup {Root, None}) \X Names
    BY <2>1 DEF Nodes
  <2>3. QED
    BY <2>2, ConstantTypes
<1>5. u # None /\ <<u, n>> \in E
  <2>1. CASE place[d] = <<u, n>>
    BY <1>1, <1>4, <2>1, PlaceOf DEF Moves
  <2>2. CASE place'[d] = <<u, n>>
    BY <1>1, <1>4, <2>2, PlaceOf DEF Moves
  <2>3. QED
    BY <1>3, <2>1, <2>2
<1>6. Dir(s) # None /\ <<Dir(s), n>> \in E
  BY <1>1, <1>5
<1>7. QED
  BY <1>1, <1>3, <1>6, Noticed

\* What is not covered after a move is exact.
LEMMA MovesExact ==
    ASSUME IInv, NEW d \in Dirs, NEW E, Moves(d, E), ~raced', ~Afresh'
    PROVE  ExactInv'
<1>1. /\ Disk(place) /\ Disk(place') /\ Change(E) /\ ~raced /\ TypeInv
      /\ \A p : Dir(p) = Walk(place, Root, p) /\ Dir(p)' = Walk(place', Root, p)
  BY MoveFacts
<1>2. TypeInv'
  BY <1>1, ChangeKeeps
<1>3. ASSUME NEW q \in Paths, ~Covered(q)', ~Excluded(spec, q) PROVE Kept(q)
  <2>1. q \in PathSeq
    BY PathsAre
  <2>2. Dir(q)' = Dir(q)
    BY <1>3, <2>1, TurnNoticed
  <2>3. IsFile(q)' <=> IsFile(q)
    <3>1. CASE q = <<>>
      BY <3>1 DEF IsFile
    <3>2. CASE q # <<>>
      <4> DEFINE r == Front(q)
      <4>1. r \in PathSeq /\ Last(q) \in Names /\ q = Append(r, Last(q))
        BY <2>1, <3>2, Split
      <4>2. IsPrefix(r, q)
        <5> HIDE DEF r
        <5> QED BY <4>1, PrefixSelf, PrefixOfJoined
      <4>3. ~Covered(r)' /\ ~Excluded(spec, r)
        <5> HIDE DEF r
        <5> QED BY <1>2, <1>3, <2>1, <4>1, <4>2, CoveredBelowNext, ExcludedBelow
      <4>4. Dir(r)' = Dir(r)
        <5> HIDE DEF r
        <5> QED BY <4>1, <4>3, TurnNoticed
      <4>5. files' = files
        BY DEF Moves
      <4>6. QED
        BY <4>4, <4>5 DEF IsFile
    <3>3. QED
      BY <3>1, <3>2
  <2>4. ASSUME Dir(q) # None PROVE wdOf'[Dir(q)] = wdOf[Dir(q)]
    <3>1. Dir(q) \in Nodes
      BY <1>1, <2>1, <2>4, ConstantTypes, WalkType
    <3>2. CASE wdOf' = wdOf
      BY <3>2
    <3>3. CASE place'[d] = None /\ wdOf' = [wdOf EXCEPT ![d] = 0]
      <4>1. Dir(q) # d
        <5>1. SUFFICES ASSUME Walk(place', Root, q) = d PROVE FALSE
          BY <1>1, <2>2
        <5>2. q # <<>>
          BY <5>1, WalkEmpty, ConstantTypes
        <5>3. PICK r \in PathSeq, n \in Names : q = Append(r, n)
          BY <2>1, <5>2, Split
        <5>4. place'[d] = <<Walk(place', Root, r), n>>
          BY <1>1, <5>1, <5>3, ConstantTypes, WalkLast
        <5>5. Walk(place', Root, r) \in Nodes \cup {None}
          BY <1>1, ConstantTypes, WalkType
        <5>6. <<Walk(place', Root, r), n>> \in (Dirs \cup {Root, None}) \X Names
          BY <5>5 DEF Nodes
        <5>7. QED
          BY <3>3, <5>4, <5>6, ConstantTypes
      <4>2. QED
        BY <1>1, <3>1, <3>3, <4>1 DEF TypeInv
    <3>4. QED
      BY <3>2, <3>3 DEF Moves
  <2>5. QED
    BY <2>2, <2>3, <2>4 DEF Kept
<1>4. QED
  BY <1>1, <1>3, ExactKept

\* A directory that a path comes to lead to was moved with d; if it is watched or
\* was seen, all was quiet.
LEMMA CarriedIs ==
    ASSUME IInv, NEW d \in Dirs, NEW E, Moves(d, E), ~raced', ~Afresh', NEW q \in Paths,
           Dir(q)' # Dir(q), Dir(q)' # None
    PROVE  /\ Carries(place, place', d, q) /\ Dir(q)' \in Nodes
           /\ Dir(q)' \in seen \/ wdOf[Dir(q)'] # 0 => Quiet
<1>1. /\ Disk(place) /\ Disk(place')
      /\ \A p : Dir(p) = Walk(place, Root, p) /\ Dir(p)' = Walk(place', Root, p)
  BY MoveFacts
<1>2. q \in PathSeq /\ Len(q) <= Cardinality(Dirs) + 1 /\ Len(q) \in Nat /\ Cardinality(Dirs) \in Nat
  BY PathsAre, LenProperties, ConstantTypes DEF PathSeq
<1>3. \A c \in Dirs \ {d} : place'[c] = place[c]
  BY DEF Moves
<1>4. Carries(place, place', d, q)
  <2> HIDE DEF Moves
  <2> QED BY <1>1, <1>2, <1>3, Carried
<1>5. Dir(q)' \in Nodes
  BY <1>1, <1>2, ConstantTypes, WalkType
<1>6. PICK s \in PathSeq, t \in PathSeq, n \in Names :
          place'[d] = <<Walk(place, Root, s), n>> /\ Walk(place, d, t) = Walk(place', Root, q)
          /\ Len(t) <= Len(q)
  BY <1>4 DEF Carries
<1>7. t \in Paths
  <2>1. Len(t) \in Nat
    BY LenProperties DEF PathSeq
  <2>2. Len(t) <= Cardinality(Dirs) + 1
    BY <1>2, <1>6, <2>1
  <2>3. QED
    BY <2>2, PathsAre
<1>8. Dir(q)' \in Inside(d) \ {None}
  BY <1>1, <1>6, <1>7, Walks DEF Inside
<1>9. place'[d] # None
  <2>1. Walk(place, Root, s) \in Nodes \cup {None}
    BY <1>1, ConstantTypes, WalkType
  <2>2. <<Walk(place, Root, s), n>> \in (Dirs \cup {Root, None}) \X Names
    BY <2>1 DEF Nodes
  <2>3. QED
    BY <1>6, <2>2, ConstantTypes
<1>10. ~Races(d)
  BY <1>9 DEF Moves
<1>11. QED
  BY <1>4, <1>5, <1>8, <1>10 DEF Races

\* A watched directory that moves is told of at both its places.
LEMMA MovesTold ==
    ASSUME IInv, NEW d \in Dirs, NEW E, Moves(d, E), ~raced', ~Afresh'
    PROVE  MoveInv'
<1>1. /\ Disk(place) /\ Disk(place') /\ Change(E) /\ ~raced /\ TypeInv /\ ExactInv /\ MoveInv
      /\ Maps' = Maps /\ spec' = spec /\ phase' = phase /\ queue' = queue
      /\ \A w \in Maps : w[1] # 0 /\ w[2] \in Paths /\ ~Excluded(spec, w[2])
      /\ \A p : Dir(p) = Walk(place, Root, p) /\ Dir(p)' = Walk(place', Root, p)
  BY MoveFacts
<1>2. SUFFICES ASSUME NEW w \in Maps, NEW q \in Paths, Dir(q)' # None, wdOf'[Dir(q)'] = w[1]
               PROVE  \/ q = w[2] \/ Excluded(spec, q)
                      \/ phase = "idle" /\ Told(First', Maps', q) /\ Told(First', Maps', w[2])
  BY <1>1 DEF MoveInv
<1>3. q \in PathSeq /\ w[2] \in PathSeq
  BY <1>1, PathsAre
<1>4. Dir(q)' \in Nodes
  BY <1>1, <1>2, <1>3, ConstantTypes, WalkType
<1>5. wdOf[Dir(q)'] = w[1]
  <2>1. wdOf \in [Nodes -> Nat]
    BY <1>1 DEF TypeInv
  <2>2. \A c \in Nodes : wdOf'[c] # 0 => wdOf'[c] = wdOf[c]
    BY <2>1 DEF Moves, Nodes
  <2>3. QED
    BY <1>1, <1>2, <1>4, <2>2
<1>6. CASE Dir(q)' = Dir(q)
  <2>1. \/ q = w[2] \/ Excluded(spec, q)
        \/ phase = "idle" /\ Told(First, Maps, q) /\ Told(First, Maps, w[2])
    BY <1>1, <1>2, <1>5, <1>6 DEF MoveInv
  <2>2. \A p : Told(First, Maps, p) => Told(First', Maps', p)
    BY <1>1, ChangePending
  <2>3. QED
    BY <2>1, <2>2
<1>7. CASE Dir(q)' # Dir(q)
  <2>1. Carries(place, place', d, q) /\ Quiet
    BY <1>1, <1>2, <1>5, <1>7, CarriedIs
  <2>2. First' = kernel' /\ phase = "idle" /\ ~Covered(w[2])
    BY <1>1, <2>1, QuietFacts DEF First, Quiet
  <2>3. Dir(w[2]) # None /\ wdOf[Dir(w[2])] = w[1]
    BY <1>1, <2>2 DEF ExactInv, Exact
  <2>4. Dir(w[2]) = Dir(q)'
    <3>1. Dir(w[2]) \in Nodes
      BY <1>1, <1>3, <2>3, ConstantTypes, WalkType
    <3>2. QED
      BY <1>1, <1>4, <1>5, <2>3, <3>1 DEF IInv, WatchInv
  <2>5. PICK s \in PathSeq, t \in PathSeq, n \in Names :
            /\ IsPrefix(Append(s, n), q) /\ Walk(place, Root, s) = Walk(place', Root, s)
            /\ place'[d] = <<Walk(place, Root, s), n>>
            /\ Walk(place, d, t) = Walk(place', Root, q) /\ Len(t) <= Len(q)
    BY <2>1 DEF Carries
  <2>6. PICK r \in PathSeq : IsPrefix(r, w[2]) /\ Walk(place, Root, r) = d
    <3>1. Walk(place, d, t) # None /\ Walk(place, d, t) = Walk(place, Root, w[2])
      BY <1>1, <1>2, <2>4, <2>5
    <3>2. QED
      BY <1>1, <1>3, <3>1, Behind
  <2>7. PICK v \in PathSeq, m \in Names : r = Append(v, m)
    <3>1. r # <<>>
      BY <2>6, WalkEmpty, ConstantTypes
    <3>2. QED
      BY <3>1, Split
  <2>8. place[d] = <<Walk(place, Root, v), m>>
    BY <1>1, <2>6, <2>7, ConstantTypes, WalkLast
  <2>9. ASSUME NEW x \in PathSeq, NEW k \in Names PROVE <<Walk(place, Root, x), k>> # None
    <3>1. Walk(place, Root, x) \in Nodes \cup {None}
      BY <1>1, ConstantTypes, WalkType
    <3>2. <<Walk(place, Root, x), k>> \in (Dirs \cup {Root, None}) \X Names
      BY <3>1 DEF Nodes
    <3>3. QED
      BY <3>2, ConstantTypes
  <2>10. Dir(v) # None /\ <<Dir(v), m>> \in E
    BY <1>1, <2>8, <2>9, PlaceOf DEF Moves
  <2>11. Dir(s) # None /\ <<Dir(s), n>> \in E
    BY <1>1, <2>5, <2>9, PlaceOf DEF Moves
  <2>12. Told(kernel', Maps', w[2])
    <3>1. IsPrefix(Append(v, m), w[2])
      BY <2>6, <2>7
    <3>2. QED
      BY <1>1, <1>3, <2>1, <2>10, <3>1, Noticed
  <2>13. Excluded(spec, q) \/ Told(kernel', Maps', q)
    BY <1>1, <1>3, <2>1, <2>5, <2>11, Noticed
  <2>14. QED
    BY <2>2, <2>12, <2>13
<1>8. QED
  BY <1>6, <1>7

\* What was seen is where it was.
LEMMA MovesSeen ==
    ASSUME IInv, NEW d \in Dirs, NEW E, Moves(d, E), ~raced', ~Afresh'
    PROVE  SeenInv'
<1>1. /\ SeenInv /\ Maps' = Maps /\ todo' = todo /\ seen' = seen /\ (Scanning <=> Scanning')
  BY MoveFacts
<1>2. SUFFICES ASSUME Scanning, NEW q \in Paths, Dir(q)' # None, Dir(q)' \in seen
               PROVE  (\E w \in Maps : w[2] = q) \/ <<"watch", q>> \in todo
  BY <1>1 DEF SeenInv
<1>3. ~Quiet
  BY <1>2 DEF Quiet, Scanning
<1>4. Dir(q)' = Dir(q)
  BY <1>2, <1>3, CarriedIs
<1>5. QED
  BY <1>1, <1>2, <1>4 DEF SeenInv

\* Every move keeps the invariant.
LEMMA MovesKeep ==
    ASSUME IInv, NEW d \in Dirs, NEW E, Moves(d, E)
    PROVE  IInv'
<1>1. TypeInv' /\ WatchInv' /\ RootInv' /\ ScanInv' /\ view' = entries'
  BY ChangeKeeps DEF Moves
<1>2. ~Afresh' => spec' = ignoring'
  BY ChangePending DEF IInv, Moves, Change
<1>3. FollowInv'
  BY MovesExact, MovesTold, MovesSeen DEF FollowInv
<1>4. QED
  BY <1>1, <1>2, <1>3 DEF IInv

\* A directory that gets a free place, or none.
LEMMA PlaceChanged ==
    ASSUME TypeInv, NEW d \in Dirs, NEW at \in Places \cup {None}, at = None \/ Free(at),
           place' = [place EXCEPT ![d] = at]
    PROVE  /\ Disk(place)' /\ \A c \in Dirs \ {d} : place'[c] = place[c]
           /\ place'[d] = at /\ \A c \in Dirs : place'[c] \notin files
<1>1. place \in [Dirs -> Places \cup {None}] /\ None \notin files /\ None \notin Places
  BY ConstantTypes DEF TypeInv, Disk
<1>2. place' \in [Dirs -> Places \cup {None}] /\ place'[d] = at
      /\ \A c \in Dirs \ {d} : place'[c] = place[c]
  BY <1>1
<1>3. ASSUME NEW c \in Dirs, NEW e \in Dirs, c # e, place'[c] # None PROVE place'[c] # place'[e]
  BY <1>1, <1>2, <1>3 DEF TypeInv, Disk, Free
<1>4. \A c \in Dirs : place'[c] \notin files
  BY <1>1, <1>2 DEF TypeInv, Free
<1>5. QED
  BY <1>2, <1>3, <1>4 DEF Disk

\* What a change of directories tells.
LEMMA EventsAre ==
    ASSUME NEW at \in Places, NEW d \in Dirs
    PROVE  /\ at \in Nodes \X (Names \cup {Self, IgnoreFile}) /\ at[2] # Self
           /\ <<d, Self>> \in Nodes \X (Names \cup {Self, IgnoreFile}) /\ <<d, Self>>[1] \in Dirs
BY ConstantTypes DEF Places, Nodes

\* The parent of a directory that appears tells of it; the tree knows the directory, or
\* one inside it, only if it was quiet, or else ~raced does not survive.
LEMMA AppearKeeps ==
    ASSUME IInv, NEW d \in Dirs, NEW at \in Places, Appear(d, at) PROVE IInv'
<1> DEFINE E == {at, <<d, Self>>}
<1>1. TypeInv
  BY DEF IInv
<1>2. /\ Disk(place)' /\ \A c \in Dirs \ {d} : place'[c] = place[c]
      /\ place'[d] = at /\ \A c \in Dirs : place'[c] \notin files
  BY <1>1, PlaceChanged DEF Appear
<1>3. /\ place[d] = None /\ raced' = Races(d) /\ Tell(E)
      /\ UNCHANGED <<files, ignoring, wdOf, nextWd, phase, queue, entries, wds, spec, view>>
      /\ UNCHANGED <<todo, found, foundWds, seen>>
  BY DEF Appear, treeVars, scanVars
<1>4. E \subseteq Nodes \X (Names \cup {Self, IgnoreFile}) /\ \A x \in E : x[2] = Self => x[1] \in Dirs
  BY EventsAre
<1>5. raced' \in BOOLEAN /\ (raced => raced')
  BY <1>1, <1>3 DEF Races, TypeInv
<1>6. Change(E)
  BY <1>1, <1>2, <1>3, <1>4, <1>5 DEF Change, TypeInv
<1>7. Moves(d, E)
  BY <1>2, <1>3, <1>6 DEF Moves
<1>8. QED
  BY <1>7, MovesKeep

\* Both parents tell of a renaming; if the tree was quiet, both tidings are in its oldest
\* batch, and otherwise it did not know the directory by its old place.
LEMMA RenameKeeps ==
    ASSUME IInv, NEW d \in Dirs, NEW at \in Places, Rename(d, at) PROVE IInv'
<1>0. PICK E : E = {place[d], at, <<d, Self>>}
  OBVIOUS
<1>1. TypeInv
  BY DEF IInv
<1>2. /\ Disk(place)' /\ \A c \in Dirs \ {d} : place'[c] = place[c]
      /\ place'[d] = at /\ \A c \in Dirs : place'[c] \notin files
  BY <1>1, PlaceChanged DEF Rename
<1>3. /\ place[d] # None /\ raced' = Races(d) /\ Tell(E)
      /\ UNCHANGED <<files, ignoring, wdOf, nextWd, phase, queue, entries, wds, spec, view>>
      /\ UNCHANGED <<todo, found, foundWds, seen>>
  BY <1>0 DEF Rename, treeVars, scanVars
<1>4. place[d] \in Places
  BY <1>1, <1>3 DEF TypeInv, Disk
<1>5. E \subseteq Nodes \X (Names \cup {Self, IgnoreFile}) /\ \A x \in E : x[2] = Self => x[1] \in Dirs
  BY <1>0, <1>4, EventsAre
<1>6. raced' \in BOOLEAN /\ (raced => raced')
  BY <1>1, <1>3 DEF Races, TypeInv
<1>7. Change(E)
  BY <1>1, <1>2, <1>3, <1>5, <1>6 DEF Change, TypeInv
<1>8. Moves(d, E)
  BY <1>2, <1>3, <1>7, <1>0 DEF Moves
<1>9. QED
  BY <1>8, MovesKeep

\* A directory that leaves the disk, with or without its watch, is told of by its parent.
LEMMA MoveOutKeeps ==
    ASSUME IInv, NEW d \in Dirs, MoveOut(d) \/ RemoveDir(d) PROVE IInv'
<1>0. PICK E : E = {place[d], <<d, Self>>}
  OBVIOUS
<1>1. TypeInv
  BY DEF IInv
<1>2. /\ Disk(place)' /\ \A c \in Dirs \ {d} : place'[c] = place[c]
      /\ place'[d] = None /\ \A c \in Dirs : place'[c] \notin files
  BY <1>1, PlaceChanged DEF MoveOut, RemoveDir
<1>3. /\ place[d] # None /\ Tell(E) /\ (wdOf' = wdOf \/ wdOf' = [wdOf EXCEPT ![d] = 0])
      /\ UNCHANGED <<files, ignoring, nextWd, phase, queue, entries, wds, spec, view, raced>>
      /\ UNCHANGED <<todo, found, foundWds, seen>>
  BY <1>0 DEF MoveOut, RemoveDir, treeVars, scanVars
<1>4. place[d] \in Places
  BY <1>1, <1>3 DEF TypeInv, Disk
<1>5. E \subseteq Nodes \X (Names \cup {Self, IgnoreFile}) /\ \A x \in E : x[2] = Self => x[1] \in Dirs
  BY <1>0, <1>4, EventsAre
<1>6. Change(E)
  BY <1>1, <1>2, <1>3, <1>5 DEF Change, TypeInv
<1>7. Moves(d, E)
  BY <1>0, <1>2, <1>3, <1>6 DEF Moves
<1>8. QED
  BY <1>7, MovesKeep

\* A file that is created or deleted is told of by the directory it is in.
LEMMA ChangeFileKeeps ==
    ASSUME IInv, NEW at \in Places, ChangeFile(at) PROVE IInv'
<1> DEFINE E == {at}
<1>1. TypeInv
  BY DEF IInv
<1>2. /\ place' = place /\ Tell(E)
      /\ files' = files \ {at} \/ (Free(at) /\ files' = files \cup {at})
      /\ UNCHANGED <<ignoring, wdOf, nextWd, phase, queue, entries, wds, spec, view, raced>>
      /\ UNCHANGED <<todo, found, foundWds, seen>>
  BY DEF ChangeFile, treeVars, scanVars
<1>3. E \subseteq Nodes \X (Names \cup {Self, IgnoreFile}) /\ \A x \in E : x[2] # Self
  BY ConstantTypes DEF Places
<1>4. files' \subseteq Places /\ \A d \in Dirs : place'[d] \notin files'
  BY <1>1, <1>2 DEF TypeInv, Free
<1>5. Disk(place)'
  BY <1>1, <1>2 DEF TypeInv, Disk
<1>6. Change(E)
  BY <1>1, <1>2, <1>3, <1>4, <1>5 DEF Change, TypeInv
<1>7. TypeInv' /\ WatchInv' /\ RootInv' /\ ScanInv' /\ view' = entries'
  BY <1>6, ChangeKeeps
<1>8. ~Afresh' => spec' = ignoring'
  BY <1>1, <1>2, <1>6, ChangePending DEF IInv
<1>9. ASSUME ~raced', ~Afresh' PROVE ExactInv' /\ MoveInv' /\ SeenInv'
  <2>1. /\ ~raced /\ ~Afresh /\ Maps' = Maps /\ (Scanning <=> Scanning')
        /\ \A q : Told(First, Maps, q) => Told(First', Maps', q)
    BY <1>1, <1>2, <1>6, <1>9, ChangePending
  <2>2. \A p : Dir(p)' = Dir(p)
    BY <1>2, Walks
  <2>3. MoveInv'
    BY <1>2, <2>1, <2>2 DEF IInv, FollowInv, MoveInv
  <2>4. SeenInv'
    BY <1>2, <2>1, <2>2 DEF IInv, FollowInv, SeenInv
  <2>5. ASSUME NEW q \in Paths, ~Covered(q)', ~Excluded(spec, q) PROVE Kept(q)
    <3>1. q \in PathSeq
      BY PathsAre
    <3>2. IsFile(q)' <=> IsFile(q)
      <4>1. CASE q = <<>>
        BY <4>1 DEF IsFile
      <4>2. CASE q # <<>>
        <5>1. PICK r \in PathSeq, n \in Names : q = Append(r, n) /\ r = Front(q) /\ n = Last(q)
          BY <3>1, <4>2, Split
        <5>2. CASE <<Dir(r), n>> = at
          <6>1. Dir(r) # None
            BY <5>2, ConstantTypes DEF Places
          <6>2. IsPrefix(Append(r, n), q)
            BY <3>1, <5>1, PrefixSelf
          <6>3. QED
            BY <1>6, <1>9, <2>1, <2>5, <3>1, <5>1, <5>2, <6>1, <6>2, Noticed
        <5>3. CASE <<Dir(r), n>> # at
          BY <1>2, <2>2, <5>1, <5>3 DEF IsFile
        <5>4. QED
          BY <5>2, <5>3
      <4>3. QED
        BY <4>1, <4>2
    <3>3. QED
      BY <1>2, <2>2, <3>2 DEF Kept
  <2>6. ExactInv'
    BY <1>6, <1>9, <2>1, <2>5, ExactKept
  <2>7. QED
    BY <2>3, <2>4, <2>6
<1>10. QED
  BY <1>7, <1>8, <1>9 DEF IInv, FollowInv

\* The change of the ignore file is told if the root is watched.
LEMMA ChangeIgnoreFileKeeps ==
    ASSUME IInv, ChangeIgnoreFile PROVE IInv'
<1> DEFINE E == {<<Root, IgnoreFile>>}
<1>1. TypeInv
  BY DEF IInv
<1>2. /\ Tell(E) /\ ignoring' = ~ignoring
      /\ UNCHANGED <<place, files, wdOf, nextWd, phase, queue, entries, wds, spec, view, raced>>
      /\ UNCHANGED <<todo, found, foundWds, seen>>
  BY DEF ChangeIgnoreFile, treeVars, scanVars
<1>3. E \subseteq Nodes \X (Names \cup {Self, IgnoreFile}) /\ \A x \in E : x[2] # Self
  <2>1. <<Root, IgnoreFile>> \in Nodes \X (Names \cup {Self, IgnoreFile})
    BY ConstantTypes
  <2>2. IgnoreFile # Self
    BY DEF Self, IgnoreFile
  <2>3. QED
    BY <2>1, <2>2
<1>4. Change(E)
  BY <1>1, <1>2, <1>3 DEF Change, TypeInv, Disk
<1>5. TypeInv' /\ WatchInv' /\ RootInv' /\ ScanInv' /\ view' = entries'
  BY <1>4, ChangeKeeps
<1>6. Afresh'
  <2>1. CASE Afresh
    BY <1>1, <1>4, <2>1, ChangePending
  <2>2. CASE ~Afresh
    <3>1. wdOf[Root] = 1
      BY <2>2 DEF Afresh, IInv, RootInv
    <3>2. \A x \in E : wdOf[x[1]] # 0 => <<wdOf[x[1]], x[2]>> \in kernel' \/ Overflow \in kernel'
      BY <1>1, <1>2, <1>3, TellFacts
    <3>3. <<wdOf[Root], IgnoreFile>> \in kernel' \/ Overflow \in kernel'
      BY <3>1, <3>2
    <3>4. kernel' \subseteq Pending'
      BY <1>1, <1>4, ChangePending
    <3>5. QED
      BY <3>3, <3>4 DEF Afresh
  <2>3. QED
    BY <2>1, <2>2
<1>7. QED
  BY <1>5, <1>6 DEF IInv, FollowInv

-----------------------------------------------------------------------------
(* Reading events, the beginning and the end of a scan *)

\* The tree leaves the disk alone.
LEMMA DiskKept ==
    ASSUME UNCHANGED diskVars
    PROVE  /\ UNCHANGED <<place, files, ignoring, changes>>
           /\ \A p : Dir(p)' = Dir(p) /\ (IsFile(p)' <=> IsFile(p))
<1>1. UNCHANGED <<place, files, ignoring, changes>>
  BY DEF diskVars
<1>2. \A p : Dir(p)' = Dir(p)
  BY <1>1, Walks
<1>3. \A p : IsFile(p)' <=> IsFile(p)
  BY <1>1, <1>2 DEF IsFile
<1>4. QED
  BY <1>1, <1>2, <1>3

\* What is read is still pending, the oldest batch first.
LEMMA ReadReadyKeeps ==
    ASSUME IInv, ReadReady PROVE IInv'
<1>1. /\ phase = "idle" /\ queue' = Append(queue, kernel) /\ kernel' = {}
      /\ UNCHANGED <<place, files, ignoring, changes, wdOf, nextWd, phase, entries, wds, spec, view>>
      /\ UNCHANGED <<todo, found, foundWds, seen, raced>>
  BY DEF ReadReady, diskVars, treeVars, scanVars
<1>2. \A p : Dir(p)' = Dir(p) /\ (IsFile(p)' <=> IsFile(p))
  BY DiskKept DEF ReadReady
<1>3. TypeInv /\ kernel \in SUBSET Tidings /\ queue \in Seq(SUBSET Tidings)
  BY DEF IInv, TypeInv
<1> DEFINE m == Len(queue)
<1>4. /\ m \in Nat /\ queue' \in Seq(SUBSET Tidings) /\ Len(queue') = m + 1
      /\ \A i \in 1 .. m : queue'[i] = queue[i]
      /\ queue'[m + 1] = kernel
  BY <1>1, <1>3
<1>5. (queue = <<>> <=> m = 0) /\ (queue' = <<>> <=> m + 1 = 0)
  BY <1>3, <1>4, EmptySeq
<1> HIDE DEF m
<1>6. Pending' = Pending
  <2>1. /\ Pending = kernel \cup UNION {queue[i] : i \in 1 .. m}
        /\ Pending' = UNION {queue'[i] : i \in 1 .. (m + 1)}
    BY <1>1, <1>4 DEF Pending, m
  <2>2. ASSUME NEW e PROVE e \in Pending <=> e \in Pending'
    <3>1. e \in Pending' <=> \E i \in 1 .. (m + 1) : e \in queue'[i]
      BY <2>1
    <3>2. e \in Pending <=> e \in kernel \/ \E i \in 1 .. m : e \in queue[i]
      BY <2>1
    <3>3. \A i \in 1 .. (m + 1) : i \in 1 .. m \/ i = m + 1
      BY <1>4
    <3>4. m + 1 \in 1 .. (m + 1) /\ \A i \in 1 .. m : i \in 1 .. (m + 1)
      BY <1>4
    <3>5. QED
      BY <1>4, <3>1, <3>2, <3>3, <3>4
  <2>3. QED
    BY <2>2
<1>7. First' = First
  <2>1. queue' # <<>>
    BY <1>4, <1>5
  <2>2. m = 0 \/ 1 \in 1 .. m
    BY <1>4
  <2>3. CASE m = 0
    <3>1. queue'[1] = kernel
      BY <1>4, <2>3
    <3>2. QED
      BY <1>5, <2>1, <2>3, <3>1 DEF First
  <2>4. CASE 1 \in 1 .. m
    BY <1>4, <1>5, <2>1, <2>4 DEF First
  <2>5. QED
    BY <2>2, <2>3, <2>4
<1>8. /\ Maps' = Maps /\ Shown' = Shown /\ (Active <=> Active') /\ (Scanning <=> Scanning')
      /\ (Afresh <=> Afresh') /\ \A q : Covered(q)' <=> Covered(q)
  BY <1>1, <1>6 DEF Maps, Shown, Active, Scanning, Afresh, Covered
<1>9. TypeInv'
  BY <1>1, <1>3, <1>4 DEF TypeInv, Disk
<1>10. WatchInv' /\ RootInv' /\ ScanInv'
  BY <1>1, <1>6, <1>8 DEF IInv, WatchInv, Pairs, RootInv, ScanInv
<1>11. ASSUME ~raced, ~Afresh PROVE ExactInv' /\ MoveInv' /\ SeenInv'
  <2>1. ExactInv'
    BY <1>1, <1>2, <1>8, <1>11 DEF IInv, FollowInv, ExactInv, Exact
  <2>2. MoveInv'
    BY <1>1, <1>2, <1>7, <1>8, <1>11 DEF IInv, FollowInv, MoveInv
  <2>3. SeenInv'
    BY <1>1, <1>2, <1>8, <1>11 DEF IInv, FollowInv, SeenInv
  <2>4. QED
    BY <2>1, <2>2, <2>3
<1>12. QED
  BY <1>1, <1>8, <1>9, <1>10, <1>11 DEF IInv, FollowInv

\* While everything is still to be looked at there is nothing to keep but the types.
LEMMA WatchRootKeeps ==
    ASSUME IInv, WatchRoot PROVE IInv'
<1>1. /\ phase = "opening" /\ phase' = "loading"
      /\ wdOf' = [wdOf EXCEPT ![Root] = nextWd] /\ nextWd' = nextWd + 1
      /\ UNCHANGED <<place, files, ignoring, changes, kernel, queue, entries, wds, spec, view>>
      /\ UNCHANGED <<todo, found, foundWds, seen, raced>>
  BY DEF WatchRoot, diskVars, treeVars, scanVars
<1>2. /\ TypeInv /\ nextWd = 1 /\ \A d \in Nodes : wdOf[d] = 0
      /\ wdOf \in [Nodes -> Nat] /\ Root \in Nodes /\ Root \notin Dirs
  BY <1>1, ConstantTypes DEF IInv, RootInv, TypeInv
<1>3. wdOf' \in [Nodes -> Nat] /\ wdOf'[Root] = 1 /\ nextWd' = 2
      /\ \A d \in Nodes \ {Root} : wdOf'[d] = 0
  BY <1>1, <1>2
<1>4. Pending' = Pending /\ Afresh' /\ ~Active' /\ foundWds = {}
  BY <1>1 DEF Pending, Afresh, Active, Scanning, IInv, ScanInv
<1>5. TypeInv'
  BY <1>1, <1>2, <1>3 DEF TypeInv, Disk
<1>6. WatchInv'
  BY <1>1, <1>2, <1>3, <1>4 DEF IInv, WatchInv, Pairs
<1>7. RootInv'
  BY <1>1, <1>2, <1>3, <1>4 DEF IInv, RootInv, Nodes
<1>8. ScanInv'
  BY <1>1 DEF IInv, ScanInv
<1>9. QED
  BY <1>1, <1>4, <1>5, <1>6, <1>7, <1>8 DEF IInv, FollowInv

\* A rebuild starts from nothing.
LEMMA StartRebuildKeeps ==
    ASSUME IInv, StartRebuild, UNCHANGED <<diskVars, treeVars, raced>> PROVE IInv'
<1>1. /\ phase' = "opening" /\ queue' = <<>> /\ wdOf' = [d \in Nodes |-> 0] /\ nextWd' = 1
      /\ kernel' = {} /\ todo' = {} /\ found' = {} /\ foundWds' = {} /\ seen' = {}
      /\ UNCHANGED <<place, files, ignoring, changes, entries, wds, spec, view, raced>>
  BY DEF StartRebuild, ScanEnds, diskVars, treeVars
<1>2. Pending' = {} /\ Afresh' /\ ~Active'
  <2>1. 1 .. Len(queue') = {}
    BY <1>1
  <2>2. QED
    BY <1>1, <2>1 DEF Pending, Afresh, Active, Scanning
<1>3. TypeInv'
  <2>1. TypeInv
    BY DEF IInv
  <2>2. wdOf' \in [Nodes -> Nat] /\ nextWd' \in Nat \ {0} /\ kernel' \subseteq Tidings
        /\ queue' \in Seq(SUBSET Tidings)
    BY <1>1
  <2>3. QED
    BY <1>1, <2>1, <2>2 DEF TypeInv, Disk
<1>4. WatchInv' /\ RootInv' /\ ScanInv'
  BY <1>1, <1>2 DEF IInv, WatchInv, Pairs, RootInv, ScanInv
<1>5. QED
  BY <1>1, <1>2, <1>3, <1>4 DEF IInv, FollowInv

\* A tree that has failed does nothing more.
LEMMA InvalidKeeps ==
    ASSUME IInv, phase # "opening", phase' = "invalid", ScanEnds \/ (phase = "idle" /\ UNCHANGED scanVars),
           UNCHANGED <<diskVars, inotifyVars, queue, treeVars, raced>>
    PROVE  IInv'
<1>1. /\ todo' = {} /\ found' = {} /\ foundWds' = {} /\ seen' = {}
      /\ UNCHANGED <<place, files, ignoring, changes, wdOf, nextWd, kernel, queue>>
      /\ UNCHANGED <<entries, wds, spec, view, raced>>
  BY DEF ScanEnds, diskVars, inotifyVars, treeVars, scanVars, IInv, ScanInv
<1>2. Pending' = Pending /\ Afresh' /\ ~Active'
  BY <1>1 DEF Pending, Afresh, Active, Scanning
<1>3. TypeInv'
  BY <1>1 DEF IInv, TypeInv, Disk
<1>4. WatchInv' /\ RootInv' /\ ScanInv'
  BY <1>1, <1>2 DEF IInv, WatchInv, Pairs, RootInv, ScanInv
<1>5. QED
  BY <1>1, <1>2, <1>3, <1>4 DEF IInv, FollowInv

\* A rebuild looks at everything below the root.
LEMMA CompileIgnoreKeeps ==
    ASSUME IInv, CompileIgnore PROVE IInv'
<1>1. /\ phase = "loading" /\ phase' = "rebuilding" /\ spec' = ignoring
      /\ todo' = {<<"watch", <<>> >>} /\ found' = {} /\ foundWds' = {} /\ seen' = {Root}
      /\ UNCHANGED <<place, files, ignoring, changes, wdOf, nextWd, kernel, queue>>
      /\ UNCHANGED <<entries, wds, view, raced>>
  BY DEF CompileIgnore, diskVars, inotifyVars
<1>2. /\ TypeInv /\ Root \in Nodes /\ <<>> \in PathSeq /\ <<>> \in Paths
      /\ \A d \in Dirs : wdOf[d] = 0
  <2>1. <<>> \in PathSeq /\ Len(<<>>) = 0
    BY EmptySeq DEF PathSeq
  <2>2. 0 <= Cardinality(Dirs) + 1
    BY ConstantTypes
  <2>3. QED
    BY <1>1, <2>1, <2>2, PathsAre, ConstantTypes DEF IInv, RootInv
<1>3. Pending' = Pending /\ Maps' = {} /\ Active'
  BY <1>1 DEF Pending, Maps, Active, Scanning
<1>4. ~Excluded(spec', <<>>)
  BY DEF Excluded, Range
<1>5. TypeInv'
  BY <1>1, <1>2 DEF TypeInv, Disk
<1>6. WatchInv'
  BY <1>1, <1>2, <1>3 DEF IInv, WatchInv, Pairs, Nodes
<1>7. RootInv'
  BY <1>1, <1>3 DEF IInv, RootInv
<1>8. ScanInv'
  <2>1. \A t \in todo' : t = <<"watch", <<>> >>
    BY <1>1
  <2>2. QED
    BY <1>1, <1>4, <2>1 DEF ScanInv
<1>9. ExactInv'
  <2>1. SUFFICES ASSUME NEW q \in Paths PROVE Covered(q)'
    BY DEF ExactInv
  <2>2. IsPrefix(<<>>, q)
    BY PathsAre, PrefixSelf
  <2>3. Tasked(todo', q)
    BY <1>1, <2>2 DEF Tasked
  <2>4. QED
    BY <2>3 DEF Covered
<1>10. MoveInv'
  BY <1>3 DEF MoveInv
<1>11. SeenInv'
  <2>1. SUFFICES ASSUME NEW q \in Paths, Dir(q)' = Root PROVE q = <<>>
    BY <1>1 DEF SeenInv
  <2>2. Dir(q)' = Dir(q) /\ Dir(q) = Walk(place, Root, q) /\ Disk(place) /\ q \in PathSeq
    BY <1>2, DiskKept, Walks, PathsAre DEF CompileIgnore, TypeInv
  <2>3. q # <<>> => Walk(place, Root, q) # Root
    BY <1>2, <2>2, WalkType
  <2>4. QED
    BY <2>1, <2>2, <2>3
<1>12. QED
  BY <1>1, <1>2, <1>5, <1>6, <1>7, <1>8, <1>9, <1>10, <1>11 DEF IInv, FollowInv

\* The end of a scan puts what it found into effect.
LEMMA EndKeeps ==
    ASSUME IInv, Scanning, todo = {}, phase' = "idle", entries' = found, wds' = foundWds,
           view' = found, ScanEnds, UNCHANGED <<diskVars, inotifyVars, queue, spec, raced>>
    PROVE  IInv'
<1>1. /\ todo' = {} /\ found' = {} /\ foundWds' = {} /\ seen' = {}
      /\ UNCHANGED <<place, files, ignoring, changes, wdOf, nextWd, kernel, queue, spec, raced>>
  BY DEF ScanEnds, diskVars, inotifyVars
<1>2. TypeInv /\ \A p : Dir(p)' = Dir(p) /\ (IsFile(p)' <=> IsFile(p))
  BY DiskKept DEF IInv
<1>3. /\ Pending' = Pending /\ Maps' = Maps /\ Shown' = Shown /\ Active /\ Active' /\ ~Scanning'
      /\ (Afresh <=> Afresh') /\ phase # "idle" /\ Maps = foundWds
  BY <1>1 DEF Pending, Maps, Shown, Active, Scanning, Afresh
<1>4. \A q : Covered(q)' <=> Covered(q)
  BY <1>1, <1>3 DEF Covered, Tasked
<1>5. TypeInv'
  BY <1>1, <1>2 DEF TypeInv, Disk
<1>6. WatchInv'
  BY <1>1, <1>3 DEF IInv, WatchInv, Pairs
<1>7. RootInv'
  BY <1>1, <1>3 DEF IInv, RootInv, Scanning
<1>8. ScanInv'
  BY <1>1 DEF IInv, ScanInv
<1>9. ASSUME ~raced, ~Afresh PROVE ExactInv' /\ MoveInv' /\ SeenInv'
  <2>1. ExactInv'
    BY <1>1, <1>2, <1>3, <1>4, <1>9 DEF IInv, FollowInv, ExactInv, Exact
  <2>2. MoveInv'
    BY <1>1, <1>2, <1>3, <1>9 DEF IInv, FollowInv, MoveInv
  <2>3. SeenInv'
    BY <1>3 DEF SeenInv
  <2>4. QED
    BY <2>1, <2>2, <2>3
<1>10. QED
  BY <1>1, <1>3, <1>5, <1>6, <1>7, <1>8, <1>9 DEF IInv, FollowInv

\* What a rebuild found is what is shown.
LEMMA SnapshotKeeps ==
    ASSUME IInv, Snapshot PROVE IInv'
BY EndKeeps DEF Snapshot, Scanning

\* What a patch adds and removes makes the view what was found.
LEMMA PatchKeeps ==
    ASSUME IInv, Patch PROVE IInv'
<1>1. CASE StartRebuild /\ UNCHANGED treeVars
  BY <1>1, StartRebuildKeeps DEF Patch
<1>2. CASE /\ phase' = "idle" /\ entries' = found /\ wds' = foundWds
           /\ view' = (view \ Removed) \cup Added
           /\ ScanEnds /\ UNCHANGED <<spec, queue, inotifyVars>>
  <2>1. view' = found
    BY <1>2 DEF Removed, Added, IInv
  <2>2. phase = "reconciling" /\ todo = {} /\ UNCHANGED <<diskVars, raced>>
    BY DEF Patch
  <2>3. QED
    BY <1>2, <2>1, <2>2, EndKeeps DEF Scanning
<1>3. QED
  BY <1>1, <1>2 DEF Patch

-----------------------------------------------------------------------------
(* Steps of a scan *)

\* What a scan shows: what it found, and the directories it is about to list.
ShowsFound ==
    \A q : /\ <<q, "dir">> \in Shown <=> <<q, "dir">> \in found \/ (<<"list", q>> \in todo /\ q # <<>>)
           /\ <<q, "file">> \in Shown <=> <<q, "file">> \in found

\* It is so by the definitions while a scan runs.
LEMMA ShownNow == TypeInv /\ Scanning => ShowsFound
<1> SUFFICES ASSUME TypeInv, Scanning, NEW q
             PROVE  /\ <<q, "dir">> \in Shown <=>
                           <<q, "dir">> \in found \/ (<<"list", q>> \in todo /\ q # <<>>)
                    /\ <<q, "file">> \in Shown <=> <<q, "file">> \in found
  BY DEF ShowsFound
<1> DEFINE L == {u \in todo : u[1] = "list" /\ u[2] # <<>>}
<1>1. Shown = found \cup {<<t[2], "dir">> : t \in L}
  BY DEF Shown
<1>2. \A t \in todo : t = <<t[1], t[2]>>
  BY DEF TypeInv
<1>3. <<q, "dir">> \in {<<t[2], "dir">> : t \in L} <=> <<"list", q>> \in todo /\ q # <<>>
  <2>1. ASSUME NEW t \in L, q = t[2] PROVE <<"list", q>> \in todo /\ q # <<>>
    BY <1>2, <2>1
  <2>2. ASSUME <<"list", q>> \in todo, q # <<>> PROVE <<"list", q>> \in L
    BY <2>2
  <2> HIDE DEF L
  <2>3. QED
    BY <2>1, <2>2
<1>4. <<q, "file">> \notin {<<t[2], "dir">> : t \in L}
  <2> HIDE DEF L
  <2> QED OBVIOUS
<1>5. QED
  BY <1>1, <1>3, <1>4

\* After a step, too.
LEMMA ShownNext == TypeInv' /\ Scanning' => ShowsFound'
BY ShownNow, PTL

\* What is so of a step that is left: it is the only one near its path.
LEMMA TaskFacts ==
    ASSUME IInv, NEW stage, NEW p, <<stage, p>> \in todo
    PROVE  /\ Scanning /\ Active /\ phase # "idle" /\ Maps = foundWds /\ TypeInv
           /\ p \in Paths /\ p \in PathSeq /\ IsPrefix(p, p)
           /\ stage \in {"look", "watch", "list"}
           /\ \A u \in todo : /\ u = <<u[1], u[2]>> /\ u[2] \in PathSeq
                              /\ u # <<stage, p>> => ~IsPrefix(p, u[2]) /\ ~IsPrefix(u[2], p)
           /\ \A w \in foundWds : IsPrefix(p, w[2]) => stage = "list" /\ w[2] = p
           /\ \A e \in found : ~IsPrefix(p, e[1])
           /\ stage # "look" => ~Excluded(spec, p)
           /\ Dir(p) \in Nodes \cup {None}
<1>1. TypeInv /\ ScanInv
  BY DEF IInv
<1>2. Scanning /\ Active /\ phase # "idle" /\ Maps = foundWds
  BY <1>1 DEF TypeInv, ScanInv, Scanning, Active, Maps
<1>3. p \in Paths /\ p \in PathSeq /\ stage \in {"look", "watch", "list"}
  BY <1>1, PathsAre DEF TypeInv
<1>4. ASSUME NEW u \in todo
      PROVE  /\ u = <<u[1], u[2]>> /\ u[2] \in PathSeq
             /\ u # <<stage, p>> => ~IsPrefix(p, u[2]) /\ ~IsPrefix(u[2], p)
  <2>1. u = <<u[1], u[2]>> /\ u[2] \in Paths
    BY <1>1 DEF TypeInv
  <2>2. \A t, v \in todo : IsPrefix(t[2], v[2]) => t = v
    BY <1>1 DEF ScanInv
  <2>3. IsPrefix(p, u[2]) => <<stage, p>> = u
    BY <2>2
  <2>4. IsPrefix(u[2], p) => u = <<stage, p>>
    BY <2>2
  <2>5. QED
    BY <2>1, <2>3, <2>4, PathsAre
<1>5. \A w \in foundWds : IsPrefix(p, w[2]) => stage = "list" /\ w[2] = p
  <2>1. \A t \in todo, w \in foundWds : IsPrefix(t[2], w[2]) => t = <<"list", w[2]>>
    BY <1>1 DEF ScanInv
  <2>2. \A w \in foundWds : IsPrefix(p, w[2]) => <<stage, p>> = <<"list", w[2]>>
    BY <2>1
  <2>3. QED
    BY <2>2
<1>6. \A e \in found : ~IsPrefix(p, e[1])
  <2>1. \A t \in todo, e \in found : ~IsPrefix(t[2], e[1])
    BY <1>1 DEF ScanInv
  <2>2. QED
    BY <2>1
<1>7. stage # "look" => ~Excluded(spec, p)
  <2>1. \A t \in todo : t[1] # "look" => ~Excluded(spec, t[2])
    BY <1>1 DEF ScanInv
  <2>2. QED
    BY <2>1
<1>8. Dir(p) \in Nodes \cup {None}
  BY <1>1, <1>3, Walks, WalkType, ConstantTypes DEF TypeInv
<1>9. QED
  BY <1>1, <1>2, <1>3, <1>4, <1>5, <1>6, <1>7, <1>8, PrefixSelf

\* Nothing is shown or watched below it.
LEMMA Clear ==
    ASSUME IInv, NEW stage, NEW p, <<stage, p>> \in todo, NEW q \in PathSeq, IsPrefix(p, q),
           q # p \/ stage # "list"
    PROVE  <<q, "dir">> \notin Shown /\ <<q, "file">> \notin Shown /\ \A w \in Maps : w[2] # q
<1>1. /\ Scanning /\ Maps = foundWds /\ TypeInv
      /\ \A u \in todo : u # <<stage, p>> => ~IsPrefix(p, u[2])
      /\ \A w \in foundWds : IsPrefix(p, w[2]) => stage = "list" /\ w[2] = p
      /\ \A e \in found : ~IsPrefix(p, e[1])
  BY TaskFacts
<1>2. <<"list", q>> \notin todo
  <2>1. SUFFICES ASSUME <<"list", q>> \in todo PROVE FALSE
    OBVIOUS
  <2>2. <<"list", q>> = <<stage, p>>
    BY <1>1, <2>1
  <2>3. QED
    BY <2>2
<1>3. <<q, "dir">> \notin found /\ <<q, "file">> \notin found
  BY <1>1
<1>4. ShowsFound
  BY <1>1, ShownNow
<1>5. <<q, "dir">> \notin Shown /\ <<q, "file">> \notin Shown
  BY <1>2, <1>3, <1>4 DEF ShowsFound
<1>6. QED
  BY <1>1, <1>5

\* Below what is no directory there is nothing; a file is no directory.
LEMMA NothingBelow ==
    ASSUME TypeInv, NEW p \in PathSeq, NEW q \in PathSeq, IsPrefix(p, q), Dir(p) = None
    PROVE  Dir(q) = None /\ (q # p => ~IsFile(q))
<1>1. Disk(place) /\ Root \in Nodes /\ files \subseteq Places
  BY ConstantTypes DEF TypeInv
<1>2. \A r \in PathSeq : IsPrefix(p, r) => Dir(r) = None
  BY <1>1, Walks, WalkPrefix
<1>3. ASSUME q # p, IsFile(q) PROVE FALSE
  <2>1. PICK r \in PathSeq, n \in Names : q = Append(r, n) /\ r = Front(q) /\ n = Last(q)
    BY <1>3, Split DEF IsFile
  <2>2. IsPrefix(p, r)
    BY <1>3, <2>1, PrefixOfJoined
  <2>3. <<None, n>> \in Places
    BY <1>1, <1>2, <1>3, <2>1, <2>2 DEF IsFile
  <2>4. QED
    BY <2>3, ConstantTypes DEF Places
<1>4. QED
  BY <1>2, <1>3

\* No place has a file and a directory.
LEMMA FileIsNoDir ==
    ASSUME TypeInv, NEW p \in PathSeq, IsFile(p) PROVE Dir(p) = None
<1>1. Disk(place) /\ Root \in Nodes /\ \A d \in Dirs : place[d] \notin files
  BY ConstantTypes DEF TypeInv
<1>2. PICK r \in PathSeq, n \in Names : p = Append(r, n) /\ r = Front(p) /\ n = Last(p)
  BY Split DEF IsFile
<1>3. <<Dir(r), n>> \in files
  BY <1>2 DEF IsFile
<1>4. ASSUME NEW c \in Dirs, Dir(p) = c PROVE FALSE
  <2>1. place[c] = <<Dir(r), n>>
    BY <1>1, <1>2, <1>4, Walks, WalkLast
  <2>2. QED
    BY <1>1, <1>3, <2>1
<1>5. Dir(p) \in Dirs \cup {None}
  <2>1. p # <<>>
    BY DEF IsFile
  <2>2. QED
    BY <1>1, <2>1, Walks, WalkType
<1>6. QED
  BY <1>4, <1>5

\* A step of the scan.
ScanStep ==
    UNCHANGED <<place, files, ignoring, changes, kernel, phase, queue, entries, wds, spec, view, raced>>

\* A step of a scan leaves the disk and what was told of it alone.
LEMMA ScanStepFacts ==
    ASSUME IInv, ScanStep, Scanning
    PROVE  /\ Pending' = Pending /\ Maps' = foundWds' /\ Maps = foundWds /\ Scanning' /\ Active' /\ Active
           /\ (Afresh <=> Afresh') /\ phase # "idle" /\ TypeInv
           /\ \A p : Dir(p)' = Dir(p) /\ (IsFile(p)' <=> IsFile(p))
           /\ ~raced' /\ ~Afresh' => ExactInv /\ MoveInv /\ SeenInv /\ spec = ignoring
<1>1. UNCHANGED <<place, files, ignoring, changes, kernel, phase, queue, entries, wds, spec, view, raced>>
  BY DEF ScanStep
<1>2. /\ Pending' = Pending /\ Maps' = foundWds' /\ Maps = foundWds /\ Scanning' /\ Active' /\ Active
      /\ phase # "idle"
  BY <1>1 DEF Pending, Maps, Scanning, Active
<1>3. Afresh <=> Afresh'
  BY <1>1, <1>2 DEF Afresh
<1>4. \A p : Dir(p)' = Dir(p) /\ (IsFile(p)' <=> IsFile(p))
  <2>1. UNCHANGED diskVars
    BY <1>1 DEF diskVars
  <2>2. QED
    BY <2>1, DiskKept
<1>5. ~raced' /\ ~Afresh' => ExactInv /\ MoveInv /\ SeenInv /\ spec = ignoring
  BY <1>1, <1>3 DEF IInv, FollowInv
<1>6. QED
  BY <1>2, <1>3, <1>4, <1>5 DEF IInv

\* What a scan step that leaves the watches alone keeps.
LEMMA FoundStepKeeps ==
    ASSUME IInv, ScanStep, Scanning, UNCHANGED <<wdOf, nextWd, foundWds>>,
           todo' \subseteq ({"look", "watch", "list"} \X Paths), found' \subseteq (Paths \X {"dir", "file"}),
           seen' \subseteq Nodes \cup {None}, <<"watch", <<>> >> \in todo => <<"watch", <<>> >> \in todo'
    PROVE  TypeInv' /\ WatchInv' /\ RootInv'
<1>1. /\ UNCHANGED <<place, files, ignoring, changes, kernel, phase, queue, entries, wds, spec, view, raced>>
      /\ UNCHANGED <<wdOf, nextWd, foundWds>>
      /\ Pending' = Pending /\ Maps' = Maps /\ Active' /\ Active /\ phase # "idle" /\ TypeInv
  BY ScanStepFacts DEF ScanStep
<1>2. TypeInv'
  BY <1>1 DEF TypeInv, Disk
<1>3. WatchInv'
  BY <1>1 DEF IInv, WatchInv, Pairs
<1>4. RootInv'
  BY <1>1 DEF IInv, RootInv
<1>5. QED
  BY <1>2, <1>3, <1>4

\* A look finds nothing, a file, a directory that was seen, or one to be watched: its
\* path is exact afterwards, or covered by the watch to come.
LEMMA LookKeeps ==
    ASSUME IInv, NEW p, Look(p) PROVE IInv'
<1> DEFINE L == <<"look", p>>
<1> DEFINE R == todo \ {L}
<1>1. /\ L \in todo /\ ScanStep /\ UNCHANGED <<wdOf, nextWd, foundWds>>
      /\ \/ /\ (Dir(p) = None /\ ~IsFile(p)) \/ Excluded(spec, p)
            /\ todo' = R /\ UNCHANGED <<found, seen>>
         \/ /\ IsFile(p) /\ ~Excluded(spec, p)
            /\ todo' = R /\ found' = found \cup {<<p, "file">>} /\ UNCHANGED seen
         \/ /\ Dir(p) # None /\ ~Excluded(spec, p) /\ Dir(p) \in seen
            /\ todo' = R /\ found' = found \cup {<<p, "dir">>} /\ UNCHANGED seen
         \/ /\ Dir(p) # None /\ ~Excluded(spec, p) /\ Dir(p) \notin seen
            /\ todo' = R \cup {<<"watch", p>>} /\ seen' = seen \cup {Dir(p)} /\ UNCHANGED found
  BY DEF Look, Rest, ScanStep, diskVars, inotifyVars, treeVars
<1>2. /\ Scanning /\ TypeInv /\ p \in Paths /\ p \in PathSeq /\ IsPrefix(p, p) /\ Maps = foundWds
      /\ \A u \in todo : /\ u = <<u[1], u[2]>> /\ u[2] \in PathSeq
                         /\ u # L => ~IsPrefix(p, u[2]) /\ ~IsPrefix(u[2], p)
      /\ \A w \in foundWds : ~IsPrefix(p, w[2])
      /\ \A e \in found : ~IsPrefix(p, e[1])
      /\ Dir(p) \in Nodes \cup {None}
  <2>1. "look" # "list"
    OBVIOUS
  <2>2. QED
    BY <1>1, <2>1, TaskFacts
<1>3. /\ Pending' = Pending /\ Maps' = Maps /\ Scanning' /\ (Afresh <=> Afresh')
      /\ \A q : Dir(q)' = Dir(q) /\ (IsFile(q)' <=> IsFile(q))
      /\ ~raced' /\ ~Afresh' => ExactInv /\ MoveInv /\ SeenInv /\ spec = ignoring
      /\ UNCHANGED <<ignoring, wdOf, phase, queue, kernel, entries, spec, view, raced>>
  BY <1>1, <1>2, ScanStepFacts DEF ScanStep
<1> HIDE DEF R
<1>4. /\ R \subseteq todo /\ R \subseteq todo' /\ \A u \in R : u # L
      /\ \A u \in todo : u = L \/ u \in R
      /\ \A u \in todo' : u \in R \/ (u = <<"watch", p>> /\ Dir(p) # None /\ ~Excluded(spec, p))
      /\ \A e \in found' : e \in found \/ e = <<p, "file">> \/ e = <<p, "dir">>
      /\ found \subseteq found'
      /\ <<"watch", p>> \in todo' \/ found' = found
         \/ found' = found \cup {<<p, "file">>} \/ found' = found \cup {<<p, "dir">>}
      /\ <<"watch", p>> \in todo' => found' = found
  <2>1. <<"watch", p>> \notin todo
    <3>1. <<"watch", p>> # L /\ <<"watch", p>>[2] = p
      OBVIOUS
    <3>2. QED
      BY <1>2, <3>1
  <2>2. R \subseteq todo /\ \A u \in R : u # L
    BY DEF R
  <2>3. \A u \in todo : u = L \/ u \in R
    BY DEF R
  <2> HIDE DEF L
  <2>4. QED
    BY <1>1, <2>1, <2>2, <2>3
<1>5. TypeInv' /\ WatchInv' /\ RootInv'
  <2>1. todo' \subseteq ({"look", "watch", "list"} \X Paths)
    BY <1>2, <1>4 DEF TypeInv
  <2>2. found' \subseteq (Paths \X {"dir", "file"})
    BY <1>2, <1>4 DEF TypeInv
  <2>3. seen' \subseteq Nodes \cup {None}
    BY <1>1, <1>2 DEF TypeInv
  <2>4. <<"watch", <<>> >> \in todo => <<"watch", <<>> >> \in todo'
    <3>1. <<"watch", <<>> >> # L
      OBVIOUS
    <3>2. QED
      BY <1>4, <3>1
  <2>5. QED
    BY <1>1, <1>2, <2>1, <2>2, <2>3, <2>4, FoundStepKeeps
<1>6. ScanInv'
  <2>1. ScanInv
    BY DEF IInv
  <2>2. phase' \notin {"opening", "loading", "idle", "invalid"}
    BY <1>3 DEF Scanning
  <2>3. ASSUME NEW t \in todo', NEW u \in todo', IsPrefix(t[2], u[2]) PROVE t = u
    <3>1. CASE t \in R /\ u \in R
      BY <1>4, <2>1, <2>3, <3>1 DEF ScanInv
    <3>2. CASE t = <<"watch", p>> \/ u = <<"watch", p>>
      BY <1>2, <1>4, <2>3, <3>2
    <3>3. QED
      BY <1>4, <3>1, <3>2
  <2>4. \A t \in todo', w \in foundWds' : IsPrefix(t[2], w[2]) => t = <<"list", w[2]>>
    <3>1. \A t \in R, w \in foundWds : IsPrefix(t[2], w[2]) => t = <<"list", w[2]>>
      BY <1>4, <2>1 DEF ScanInv
    <3>2. foundWds' = foundWds
      BY <1>1
    <3>3. QED
      BY <1>2, <1>4, <3>1, <3>2
  <2>5. ASSUME NEW t \in todo', NEW e \in found' PROVE ~IsPrefix(t[2], e[1])
    <3>1. CASE t \in R /\ e \in found
      BY <1>4, <2>1, <3>1 DEF ScanInv
    <3>2. CASE t = <<"watch", p>>
      <4>1. e \in found
        BY <1>4, <3>2
      <4>2. QED
        BY <1>2, <3>2, <4>1
    <3>3. CASE t \in R /\ (e = <<p, "file">> \/ e = <<p, "dir">>)
      BY <1>2, <1>4, <3>3
    <3>4. QED
      BY <1>4, <3>1, <3>2, <3>3
  <2>6. \A t \in todo' : t[1] # "look" => ~Excluded(spec', t[2])
    BY <1>3, <1>4, <2>1 DEF ScanInv
  <2>7. \A w \in foundWds' : ~Excluded(spec', w[2])
    BY <1>1, <1>3, <2>1 DEF ScanInv
  <2>8. QED
    BY <2>2, <2>3, <2>4, <2>5, <2>6, <2>7 DEF ScanInv
<1>7. ASSUME ~raced', ~Afresh' PROVE ExactInv'
  <2>1. ExactInv /\ SeenInv
    BY <1>3, <1>7
  <2>2. ~(Dir(p) # None /\ Dir(p) \in seen)
    <3>1. SUFFICES ASSUME Dir(p) # None, Dir(p) \in seen PROVE FALSE
      OBVIOUS
    <3>2. (\E w \in Maps : w[2] = p) \/ <<"watch", p>> \in todo
      BY <1>2, <2>1, <3>1 DEF SeenInv
    <3>3. <<"watch", p>> # L /\ <<"watch", p>>[2] = p
      OBVIOUS
    <3>4. QED
      BY <1>2, <3>2, <3>3
  <2>3. SUFFICES ASSUME NEW q \in Paths, ~Covered(q)' PROVE Exact(q)'
    BY DEF ExactInv
  <2>4. q \in PathSeq
    BY PathsAre
  <2>5. ShowsFound /\ ShowsFound'
    BY <1>2, <1>3, <1>5, ShownNow, ShownNext
  <2>6. <<"list", q>> \in todo' <=> <<"list", q>> \in todo
    <3>1. <<"list", q>> # L /\ <<"list", q>> # <<"watch", p>>
      OBVIOUS
    <3>2. QED
      BY <1>4, <3>1
  <2>7. CASE IsPrefix(p, q)
    <3>1. <<"watch", p>> \notin todo'
      <4>1. <<"watch", p>>[1] # "list" /\ <<"watch", p>>[2] = p
        OBVIOUS
      <4>2. QED
        BY <2>3, <2>7, <4>1 DEF Covered, Tasked
    <3>2. <<q, "dir">> \notin Shown /\ <<q, "file">> \notin Shown /\ \A w \in Maps : w[2] # q
      <4>1. "look" # "list"
        OBVIOUS
      <4>2. QED
        BY <1>1, <2>4, <2>7, <4>1, Clear
    <3>3. CASE ((Dir(p) = None /\ ~IsFile(p)) \/ Excluded(spec, p)) /\ found' = found
      <4>1. <<q, "dir">> \notin Shown' /\ <<q, "file">> \notin Shown'
        BY <2>5, <2>6, <3>2, <3>3 DEF ShowsFound
      <4>2. Excluded(spec, q) \/ (Dir(q) = None /\ ~IsFile(q))
        BY <1>2, <2>4, <2>7, <3>3, ExcludedBelow, NothingBelow
      <4>3. QED
        BY <1>3, <3>2, <4>1, <4>2 DEF Exact
    <3>4. CASE IsFile(p) /\ ~Excluded(spec, p) /\ found' = found \cup {<<p, "file">>}
      <4>1. Dir(p) = None
        BY <1>2, <3>4, FileIsNoDir
      <4>2. Dir(q) = None /\ (q # p => ~IsFile(q))
        BY <1>2, <2>4, <2>7, <4>1, NothingBelow
      <4>3. <<q, "dir">> \notin Shown' /\ (<<q, "file">> \in Shown' <=> q = p)
        BY <2>5, <2>6, <3>2, <3>4 DEF ShowsFound
      <4>4. QED
        BY <1>3, <3>2, <3>4, <4>2, <4>3 DEF Exact
    <3>5. QED
      <4>1. <<"watch", p>> \in R \cup {<<"watch", p>>}
        OBVIOUS
      <4>2. QED
        BY <1>1, <2>2, <3>1, <3>3, <3>4, <4>1
  <2>8. CASE ~IsPrefix(p, q)
    <3>1. ~Covered(q)
      <4>1. ASSUME NEW u \in todo, IsPrefix(u[2], q) PROVE u \in todo'
        <5>1. u # L
          BY <2>8, <4>1
        <5>2. QED
          BY <1>4, <5>1
      <4>2. QED
        BY <1>3, <2>3, <4>1 DEF Covered, Tasked
    <3>2. q # p
      BY <1>2, <2>8
    <3>3. /\ (<<q, "dir">> \in found' <=> <<q, "dir">> \in found)
          /\ (<<q, "file">> \in found' <=> <<q, "file">> \in found)
      BY <1>4, <3>2
    <3>4. /\ (<<q, "dir">> \in Shown' <=> <<q, "dir">> \in Shown)
          /\ (<<q, "file">> \in Shown' <=> <<q, "file">> \in Shown)
      BY <2>5, <2>6, <3>3 DEF ShowsFound
    <3>5. Exact(q)
      BY <2>1, <3>1 DEF ExactInv
    <3>6. QED
      BY <1>3, <3>4, <3>5 DEF Exact
  <2>9. QED
    BY <2>7, <2>8
<1>8. ASSUME ~raced', ~Afresh' PROVE MoveInv' /\ SeenInv'
  <2>1. MoveInv /\ SeenInv
    BY <1>3, <1>8
  <2>2. MoveInv'
    BY <1>2, <1>3, <2>1 DEF MoveInv, Scanning
  <2>3. SUFFICES ASSUME NEW q \in Paths, Dir(q) # None, Dir(q) \in seen'
                 PROVE  (\E w \in Maps : w[2] = q) \/ <<"watch", q>> \in todo'
    BY <1>3, <2>2 DEF SeenInv
  <2>4. CASE Dir(q) \in seen
    <3>1. (\E w \in Maps : w[2] = q) \/ <<"watch", q>> \in todo
      BY <1>2, <2>1, <2>3, <2>4 DEF SeenInv
    <3>2. <<"watch", q>> # L
      OBVIOUS
    <3>3. QED
      BY <1>4, <3>1, <3>2
  <2>5. CASE Dir(q) \notin seen
    <3>1. Dir(p) = Dir(q) /\ <<"watch", p>> \in todo'
      BY <1>1, <2>3, <2>5
    <3>2. p = q
      BY <1>2, <2>3, <3>1, PathsAre, Walks, SamePath DEF TypeInv
    <3>3. QED
      BY <3>1, <3>2
  <2>6. QED
    BY <2>4, <2>5
<1>9. QED
  BY <1>3, <1>5, <1>6, <1>7, <1>8 DEF IInv, FollowInv

\* What add_watch returns, and when it is an alias.
WdFor(p) == IF wdOf[Dir(p)] = 0 THEN nextWd ELSE wdOf[Dir(p)]
Alias(p) == \E w \in foundWds : w[1] = WdFor(p) /\ w[2] # p

\* A directory that is a step's is watched under a descriptor of its own.
LEMMA WdFacts ==
    ASSUME IInv, NEW p, <<"watch", p>> \in todo, Dir(p) # None,
           wdOf' = [wdOf EXCEPT ![Dir(p)] = WdFor(p)],
           nextWd' = IF wdOf[Dir(p)] = 0 THEN nextWd + 1 ELSE nextWd
    PROVE  /\ Dir(p) \in Nodes /\ WdFor(p) \in Nat \ {0} /\ nextWd' \in Nat \ {0}
           /\ wdOf' \in [Nodes -> Nat] /\ wdOf'[Dir(p)] = WdFor(p)
           /\ \A e \in Nodes : e # Dir(p) => wdOf'[e] = wdOf[e] /\ (wdOf[e] # 0 => wdOf[e] # WdFor(p))
           /\ WdFor(p) < nextWd' /\ nextWd <= nextWd'
           /\ \A d, e \in Nodes : d # e /\ wdOf'[d] # 0 => wdOf'[d] # wdOf'[e]
           /\ \A d \in Nodes : wdOf'[d] < nextWd'
           /\ wdOf'[Root] = 1 /\ (WdFor(p) = 1 <=> p = <<>>)
           /\ (wdOf[Dir(p)] = 0 => \A w \in foundWds : w[1] # WdFor(p))
<1> DEFINE c == Dir(p)
<1> DEFINE wd == WdFor(p)
<1>1. /\ TypeInv /\ WatchInv /\ RootInv /\ Scanning /\ p \in PathSeq /\ c \in Nodes
      /\ Disk(place) /\ c = Walk(place, Root, p) /\ Root \in Nodes
  BY TaskFacts, Walks, ConstantTypes DEF IInv, TypeInv
<1>2. wdOf \in [Nodes -> Nat] /\ nextWd \in Nat \ {0} /\ wdOf[Root] = 1
      /\ \A e \in Nodes : wdOf[e] < nextWd
  BY <1>1 DEF TypeInv, WatchInv, RootInv, Scanning
<1>3. c = Root <=> p = <<>>
  BY <1>1, WalkEmpty, WalkType
<1>4. wd = (IF wdOf[c] = 0 THEN nextWd ELSE wdOf[c])
  BY DEF WdFor
<1> HIDE DEF c, wd
<1>5. wd \in Nat \ {0} /\ nextWd' \in Nat \ {0} /\ wd < nextWd' /\ nextWd <= nextWd'
  BY <1>1, <1>2, <1>4 DEF c
<1>6. wdOf' \in [Nodes -> Nat] /\ wdOf'[c] = wd /\ \A e \in Nodes : e # c => wdOf'[e] = wdOf[e]
  BY <1>1, <1>2, <1>5 DEF c, wd
<1>7. ASSUME NEW e \in Nodes, e # c, wdOf[e] # 0 PROVE wdOf[e] # wd
  <2>1. CASE wdOf[c] = 0
    <3>1. wd = nextWd /\ wdOf[e] < nextWd /\ wdOf[e] \in Nat /\ nextWd \in Nat
      BY <1>2, <1>4, <1>7, <2>1
    <3>2. QED
      BY <3>1
  <2>2. CASE wdOf[c] # 0
    BY <1>1, <1>4, <1>7, <2>2 DEF WatchInv
  <2>3. QED
    BY <2>1, <2>2
<1>8. ASSUME NEW d \in Nodes, NEW e \in Nodes, d # e, wdOf'[d] # 0 PROVE wdOf'[d] # wdOf'[e]
  <2>1. CASE d = c
    <3>1. wdOf'[d] = wd /\ wdOf'[e] = wdOf[e] /\ wd # 0
      BY <1>5, <1>6, <1>8, <2>1
    <3>2. wdOf[e] # wd
      BY <1>5, <1>7, <1>8, <2>1
    <3>3. QED
      BY <3>1, <3>2
  <2>2. CASE e = c
    <3>1. wdOf'[d] = wdOf[d] /\ wdOf'[e] = wd
      BY <1>6, <1>8, <2>2
    <3>2. QED
      BY <1>7, <1>8, <2>2, <3>1
  <2>3. CASE d # c /\ e # c
    BY <1>1, <1>6, <1>8, <2>3 DEF WatchInv
  <2>4. QED
    BY <2>1, <2>2, <2>3
<1>9. ASSUME NEW d \in Nodes PROVE wdOf'[d] < nextWd'
  <2>1. wdOf[d] \in Nat /\ nextWd \in Nat /\ nextWd' \in Nat /\ wdOf[d] < nextWd /\ wd \in Nat
    BY <1>2, <1>5
  <2>2. wdOf'[d] = wd \/ wdOf'[d] = wdOf[d]
    BY <1>6
  <2>3. QED
    BY <1>5, <2>1, <2>2
<1>10. wdOf'[Root] = 1 /\ (wd = 1 <=> p = <<>>)
  <2>1. CASE c = Root
    BY <1>2, <1>3, <1>4, <1>6, <2>1
  <2>2. CASE c # Root
    BY <1>1, <1>2, <1>3, <1>6, <1>7, <2>2
  <2>3. QED
    BY <2>1, <2>2
<1>11. ASSUME wdOf[c] = 0, NEW w \in foundWds PROVE w[1] # wd
  <2>1. wd = nextWd /\ w[1] < nextWd /\ w[1] \in Nat /\ nextWd \in Nat
    BY <1>1, <1>2, <1>4, <1>11 DEF WatchInv, TypeInv
  <2>2. QED
    BY <2>1
<1>12. QED
  BY <1>1, <1>5, <1>6, <1>7, <1>8, <1>9, <1>10, <1>11 DEF c, wd

\* A directory that is taken for an alias of itself: it happens only in a race.
LEMMA AliasKeeps ==
    ASSUME IInv, NEW p, <<"watch", p>> \in todo, Dir(p) # None, Alias(p), ScanStep,
           wdOf' = [wdOf EXCEPT ![Dir(p)] = WdFor(p)],
           nextWd' = IF wdOf[Dir(p)] = 0 THEN nextWd + 1 ELSE nextWd,
           found' = found \cup {<<p, "dir">>}, todo' = Rest("watch", p), UNCHANGED <<foundWds, seen>>
    PROVE  IInv'
<1> DEFINE W == <<"watch", p>>
<1>1. /\ Scanning /\ TypeInv /\ p \in Paths /\ p \in PathSeq /\ Maps = foundWds
      /\ \A u \in todo : /\ u = <<u[1], u[2]>> /\ u[2] \in PathSeq
                         /\ u # W => ~IsPrefix(p, u[2]) /\ ~IsPrefix(u[2], p)
      /\ \A w \in foundWds : ~IsPrefix(p, w[2])
      /\ ~Excluded(spec, p)
  <2>1. "watch" # "list" /\ "watch" # "look"
    OBVIOUS
  <2>2. QED
    BY <2>1, TaskFacts
<1>2. PICK w \in foundWds : w[1] = WdFor(p) /\ w[2] # p
  BY DEF Alias
<1>3. Dir(p) \in Nodes /\ wdOf[Dir(p)] # 0 /\ (WdFor(p) = 1 <=> p = <<>>)
  BY <1>2, WdFacts
<1>4. wdOf[Dir(p)] = w[1] /\ wdOf' = wdOf /\ nextWd' = nextWd
  BY <1>1, <1>2, <1>3 DEF WdFor, TypeInv
<1>5. todo' \subseteq todo /\ \A u \in todo' : u # W
  BY DEF Rest
<1>6. TypeInv' /\ WatchInv' /\ RootInv'
  <2>1. todo' \subseteq ({"look", "watch", "list"} \X Paths)
    BY <1>1, <1>5 DEF TypeInv
  <2>2. found' \subseteq (Paths \X {"dir", "file"})
    BY <1>1 DEF TypeInv
  <2>3. seen' \subseteq Nodes \cup {None}
    BY <1>1 DEF TypeInv
  <2>4. <<"watch", <<>> >> \in todo => <<"watch", <<>> >> \in todo'
    <3>1. p # <<>>
      <4>1. p = <<>> => w[1] = 1
        BY <1>2, <1>3
      <4>2. w[1] = 1 <=> w[2] = <<>>
        BY <1>1 DEF IInv, RootInv, Active
      <4>3. QED
        BY <1>2, <4>1, <4>2
    <3>2. <<"watch", <<>> >> # W
      BY <3>1
    <3>3. QED
      BY <3>2 DEF Rest
  <2>5. QED
    BY <1>1, <1>4, <2>1, <2>2, <2>3, <2>4, FoundStepKeeps
<1>7. /\ spec' = spec /\ phase' = phase /\ view' = view /\ entries' = entries
      /\ ignoring' = ignoring /\ raced' = raced /\ (Afresh <=> Afresh')
      /\ ~raced' /\ ~Afresh' => MoveInv
      /\ phase # "idle"
  BY <1>1, ScanStepFacts DEF ScanStep
<1>8. ScanInv'
  <2>1. ScanInv
    BY DEF IInv
  <2>2. phase' \notin {"opening", "loading", "idle", "invalid"}
    BY <1>1, <1>7 DEF Scanning
  <2>3. ASSUME NEW t \in todo', NEW e \in found' PROVE ~IsPrefix(t[2], e[1])
    <3>1. CASE e \in found
      BY <1>5, <2>1, <3>1 DEF ScanInv
    <3>2. CASE e = <<p, "dir">>
      BY <1>1, <1>5, <3>2
    <3>3. QED
      BY <3>1, <3>2
  <2>4. QED
    BY <1>5, <1>7, <2>1, <2>2, <2>3 DEF ScanInv
<1>9. raced' \/ Afresh'
  <2>1. SUFFICES ASSUME MoveInv PROVE FALSE
    BY <1>7
  <2>2. p = w[2] \/ Excluded(spec, p) \/ phase = "idle"
    BY <1>1, <1>3, <1>4, <2>1 DEF MoveInv, Scanning
  <2>3. QED
    BY <1>1, <1>2, <1>7, <2>2
<1>10. QED
  BY <1>6, <1>7, <1>8, <1>9 DEF IInv, FollowInv

\* A directory that is watched waits to be listed.
LEMMA WatchedKeeps ==
    ASSUME IInv, NEW p, <<"watch", p>> \in todo, Dir(p) # None, ~Alias(p), ScanStep,
           wdOf' = [wdOf EXCEPT ![Dir(p)] = WdFor(p)],
           nextWd' = IF wdOf[Dir(p)] = 0 THEN nextWd + 1 ELSE nextWd,
           foundWds' = foundWds \cup {<<WdFor(p), p>>},
           todo' = Rest("watch", p) \cup {<<"list", p>>}, UNCHANGED <<found, seen>>
    PROVE  IInv'
<1> DEFINE W == <<"watch", p>>
<1> DEFINE L == <<"list", p>>
<1> DEFINE R == todo \ {W}
<1> DEFINE new == <<WdFor(p), p>>
<1>1. /\ Scanning /\ TypeInv /\ p \in Paths /\ p \in PathSeq /\ IsPrefix(p, p) /\ Maps = foundWds
      /\ \A u \in todo : /\ u = <<u[1], u[2]>> /\ u[2] \in PathSeq
                         /\ u # W => ~IsPrefix(p, u[2]) /\ ~IsPrefix(u[2], p)
      /\ \A w \in foundWds : ~IsPrefix(p, w[2])
      /\ \A e \in found : ~IsPrefix(p, e[1])
      /\ ~Excluded(spec, p)
  <2>1. "watch" # "list" /\ "watch" # "look"
    OBVIOUS
  <2>2. QED
    BY <2>1, TaskFacts
<1>2. /\ Dir(p) \in Nodes /\ WdFor(p) \in Nat \ {0} /\ nextWd' \in Nat \ {0}
      /\ wdOf' \in [Nodes -> Nat] /\ wdOf'[Dir(p)] = WdFor(p)
      /\ \A e \in Nodes : e # Dir(p) => wdOf'[e] = wdOf[e] /\ (wdOf[e] # 0 => wdOf[e] # WdFor(p))
      /\ WdFor(p) < nextWd' /\ nextWd <= nextWd'
      /\ \A d, e \in Nodes : d # e /\ wdOf'[d] # 0 => wdOf'[d] # wdOf'[e]
      /\ \A d \in Nodes : wdOf'[d] < nextWd'
      /\ wdOf'[Root] = 1 /\ (WdFor(p) = 1 <=> p = <<>>)
  BY WdFacts
<1>3. /\ Pending' = Pending /\ Maps' = foundWds' /\ Scanning' /\ Active' /\ Active /\ (Afresh <=> Afresh')
      /\ \A q : Dir(q)' = Dir(q) /\ (IsFile(q)' <=> IsFile(q))
      /\ ~raced' /\ ~Afresh' => ExactInv /\ MoveInv /\ SeenInv /\ spec = ignoring
      /\ UNCHANGED <<place, files, ignoring, changes, kernel, phase, queue, entries, wds, spec, view, raced>>
      /\ phase # "idle"
  BY <1>1, ScanStepFacts DEF ScanStep
<1>4. \A w \in foundWds : w[1] # WdFor(p) /\ w[2] # p
  BY <1>1 DEF Alias
<1>5. /\ R \subseteq todo /\ todo' = R \cup {L} /\ (\A u \in R : u # W) /\ L[1] = "list" /\ L[2] = p
      /\ \A u \in todo : u = W \/ u \in R
  BY DEF Rest
<1>6. new[1] = WdFor(p) /\ new[2] = p /\ new \in foundWds' /\ foundWds' = foundWds \cup {new}
  OBVIOUS
<1>7. \A q \in Paths : Dir(q) = Dir(p) => q = p
  BY <1>1, PathsAre, Walks, SamePath DEF TypeInv
<1>8. Len(p) <= Cardinality(Dirs)
  BY <1>1, Walks, Short DEF TypeInv
<1> HIDE DEF R, L, new, W
<1>9. TypeInv'
  <2>1. todo' \subseteq ({"look", "watch", "list"} \X Paths)
    <3>1. L \in ({"look", "watch", "list"} \X Paths)
      BY <1>1 DEF L
    <3>2. QED
      BY <1>1, <1>5, <3>1 DEF TypeInv
  <2>2. foundWds' \subseteq ((Nat \ {0}) \X Paths)
    <3>1. new \in (Nat \ {0}) \X Paths
      BY <1>1, <1>2 DEF new
    <3>2. QED
      BY <1>1, <1>6, <3>1 DEF TypeInv
  <2>3. \A w \in wds \cup foundWds' : Len(w[2]) <= Cardinality(Dirs)
    BY <1>1, <1>6, <1>8 DEF TypeInv
  <2>4. QED
    BY <1>1, <1>2, <1>3, <2>1, <2>2, <2>3 DEF TypeInv, Disk
<1>10. WatchInv'
  <2>1. WatchInv
    BY DEF IInv
  <2>2. Pairs(wds)' /\ phase' # "idle"
    BY <1>3, <2>1 DEF WatchInv, Pairs
  <2>3. Pairs(foundWds)'
    <3>1. ASSUME NEW v \in foundWds', NEW w \in foundWds' PROVE v[1] = w[1] <=> v[2] = w[2]
      <4>1. CASE v = new
        BY <1>4, <1>6, <4>1
      <4>2. CASE w = new
        BY <1>4, <1>6, <4>2
      <4>3. CASE v \in foundWds /\ w \in foundWds
        BY <2>1, <4>3 DEF WatchInv, Pairs
      <4>4. QED
        BY <1>6, <4>1, <4>2, <4>3
    <3>2. QED
      BY <3>1 DEF Pairs
  <2>4. ASSUME NEW w \in foundWds' PROVE w[1] < nextWd'
    <3>1. CASE w = new
      BY <1>2, <1>6, <3>1
    <3>2. CASE w \in foundWds
      <4>1. w[1] < nextWd /\ w[1] \in Nat /\ nextWd \in Nat /\ nextWd' \in Nat
        BY <1>1, <1>2, <2>1, <3>2 DEF WatchInv, TypeInv
      <4>2. QED
        BY <1>2, <4>1
    <3>3. QED
      BY <1>6, <3>1, <3>2
  <2>5. ASSUME NEW d \in Nodes, wdOf'[d] # 0
        PROVE  (\E w \in Maps' : w[1] = wdOf'[d]) \/ (d = Root /\ <<"watch", <<>> >> \in todo')
    <3>1. CASE d = Dir(p)
      BY <1>2, <1>3, <1>6, <3>1
    <3>2. CASE d # Dir(p)
      <4>1. wdOf'[d] = wdOf[d]
        BY <1>2, <3>2
      <4>2. (\E w \in Maps : w[1] = wdOf[d]) \/ (d = Root /\ <<"watch", <<>> >> \in todo)
        BY <1>3, <2>1, <2>5, <4>1 DEF WatchInv
      <4>3. d = Root => <<"watch", <<>> >> # W
        <5>1. p = <<>> => Dir(p) = Root
          BY Walks, WalkEmpty
        <5>2. QED
          BY <3>2, <5>1 DEF W
      <4>4. QED
        BY <1>1, <1>3, <1>5, <1>6, <4>1, <4>2, <4>3
    <3>3. QED
      BY <3>1, <3>2
  <2>6. QED
    BY <1>2, <2>2, <2>3, <2>4, <2>5 DEF WatchInv
<1>11. RootInv'
  <2>1. \A w \in Maps' : w[1] = 1 <=> w[2] = <<>>
    <3>1. \A w \in foundWds : w[1] = 1 <=> w[2] = <<>>
      BY <1>1, <1>3 DEF IInv, RootInv
    <3>2. QED
      BY <1>2, <1>3, <1>6, <3>1
  <2>2. \A e \in Pending' : e[2] = Self => e[1] # 1
    BY <1>3 DEF IInv, RootInv
  <2>3. phase' # "opening" /\ phase' # "loading"
    BY <1>1, <1>3 DEF Scanning
  <2>4. QED
    BY <1>2, <2>1, <2>2, <2>3 DEF RootInv
<1>12. ScanInv'
  <2>1. ScanInv
    BY DEF IInv
  <2>2. phase' \notin {"opening", "loading", "idle", "invalid"}
    BY <1>1, <1>3 DEF Scanning
  <2>3. ASSUME NEW t \in todo', NEW u \in todo', IsPrefix(t[2], u[2]) PROVE t = u
    <3>1. CASE t \in R /\ u \in R
      BY <1>5, <2>1, <2>3, <3>1 DEF ScanInv
    <3>2. CASE t = L \/ u = L
      BY <1>1, <1>5, <2>3, <3>2
    <3>3. QED
      BY <1>5, <3>1, <3>2
  <2>4. ASSUME NEW t \in todo', NEW w \in foundWds', IsPrefix(t[2], w[2]) PROVE t = <<"list", w[2]>>
    <3>1. CASE t \in R /\ w \in foundWds
      BY <1>5, <2>1, <2>4, <3>1 DEF ScanInv
    <3>2. CASE t \in R /\ w = new
      BY <1>1, <1>5, <1>6, <2>4, <3>2
    <3>3. CASE t = L /\ w \in foundWds
      BY <1>1, <1>5, <2>4, <3>3
    <3>4. CASE t = L /\ w = new
      BY <1>6, <3>4 DEF L
    <3>5. QED
      BY <1>5, <1>6, <3>1, <3>2, <3>3, <3>4
  <2>5. \A t \in todo', e \in found' : ~IsPrefix(t[2], e[1])
    BY <1>1, <1>5, <2>1 DEF ScanInv
  <2>6. \A t \in todo' : t[1] # "look" => ~Excluded(spec', t[2])
    BY <1>1, <1>3, <1>5, <2>1 DEF ScanInv
  <2>7. \A w \in foundWds' : ~Excluded(spec', w[2])
    BY <1>1, <1>3, <1>6, <2>1 DEF ScanInv
  <2>8. QED
    BY <2>2, <2>3, <2>4, <2>5, <2>6, <2>7 DEF ScanInv
<1>13. ASSUME ~raced', ~Afresh' PROVE ExactInv'
  <2>1. ExactInv
    BY <1>3, <1>13
  <2>2. SUFFICES ASSUME NEW q \in Paths, ~Covered(q)' PROVE Exact(q)'
    BY DEF ExactInv
  <2>3. ShowsFound /\ ShowsFound' /\ found' = found
    BY <1>1, <1>3, <1>9, ShownNow, ShownNext
  <2>4. CASE q = p
    <3>1. L \in todo' /\ <<"list", q>> = L
      BY <1>5, <2>4 DEF L
    <3>2. <<q, "dir">> \notin found /\ <<q, "file">> \notin found
      BY <1>1, <2>4
    <3>3. (<<q, "dir">> \in Shown' <=> q # <<>>) /\ <<q, "file">> \notin Shown'
      BY <2>3, <3>1, <3>2 DEF ShowsFound
    <3>4. ~IsFile(q)
      BY <1>1, <2>4, FileIsNoDir
    <3>5. Dir(q)' = Dir(p) /\ ~IsFile(q)' /\ spec' = spec /\ wdOf'[Dir(q)'] = WdFor(p)
      BY <1>2, <1>3, <2>4, <3>4
    <3>6. <<WdFor(p), q>> \in Maps' /\ \A w \in Maps' : w[2] = q => w[1] = WdFor(p)
      <4>1. <<WdFor(p), q>> = new
        BY <2>4 DEF new
      <4>2. QED
        BY <1>3, <1>4, <1>6, <2>4, <4>1
    <3>7. QED
      BY <1>1, <1>2, <2>4, <3>3, <3>5, <3>6 DEF Exact
  <2>5. CASE q # p
    <3>1. ~Covered(q)
      <4>1. ASSUME Tasked(todo, q) PROVE Tasked(todo', q)
        <5>1. PICK u \in todo : IsPrefix(u[2], q) /\ (u[1] = "list" => u[2] # q)
          BY <4>1 DEF Tasked
        <5>2. CASE u \in R
          BY <1>5, <5>1, <5>2 DEF Tasked
        <5>3. CASE u = W
          <6>1. IsPrefix(L[2], q) /\ L[2] # q /\ L \in todo'
            BY <1>5, <2>5, <5>1, <5>3 DEF W
          <6>2. QED
            BY <6>1 DEF Tasked
        <5>4. QED
          BY <1>5, <5>2, <5>3
      <4>2. Told(Pending, Maps, q) => Told(Pending', Maps', q)
        BY <1>1, <1>3, <1>6 DEF Told
      <4>3. QED
        BY <2>2, <4>1, <4>2 DEF Covered
    <3>2. Exact(q)
      BY <2>1, <3>1 DEF ExactInv
    <3>3. <<"list", q>> \in todo' <=> <<"list", q>> \in todo
      <4>1. <<"list", q>> # L /\ <<"list", q>> # W
        BY <2>5 DEF L, W
      <4>2. QED
        BY <1>5, <4>1
    <3>4. /\ (<<q, "dir">> \in Shown' <=> <<q, "dir">> \in Shown)
          /\ (<<q, "file">> \in Shown' <=> <<q, "file">> \in Shown)
      BY <2>3, <3>3 DEF ShowsFound
    <3>5. Dir(q) # None => wdOf'[Dir(q)] = wdOf[Dir(q)]
      <4>1. Dir(q) \in Nodes \cup {None}
        BY <1>1, PathsAre, Walks, WalkType, ConstantTypes DEF TypeInv
      <4>2. QED
        BY <1>2, <1>7, <2>5, <4>1
    <3>6. (\A w : w[2] = q => (w \in Maps' <=> w \in Maps))
      BY <1>1, <1>3, <1>6, <2>5
    <3>7. \A k : <<k, q>> \in Maps' <=> <<k, q>> \in Maps
      BY <3>6
    <3>8. QED
      BY <1>3, <3>2, <3>4, <3>5, <3>6, <3>7 DEF Exact
  <2>6. QED
    BY <2>4, <2>5
<1>14. ASSUME ~raced', ~Afresh' PROVE MoveInv'
  <2>1. MoveInv
    BY <1>3, <1>14
  <2>2. SUFFICES ASSUME NEW w \in foundWds', NEW q \in Paths, Dir(q) # None, wdOf'[Dir(q)] = w[1]
                 PROVE  q = w[2] \/ Excluded(spec, q)
    BY <1>3 DEF MoveInv
  <2>3. Dir(q) \in Nodes
    BY <1>1, <2>2, PathsAre, Walks, WalkType, ConstantTypes DEF TypeInv
  <2>4. CASE Dir(q) = Dir(p)
    <3>1. q = p /\ w[1] = WdFor(p)
      BY <1>2, <1>7, <2>2, <2>4
    <3>2. QED
      BY <1>4, <1>6, <3>1
  <2>5. CASE Dir(q) # Dir(p)
    <3>1. wdOf[Dir(q)] = w[1]
      BY <1>2, <2>2, <2>3, <2>5
    <3>2. w[1] # 0
      BY <1>9 DEF TypeInv
    <3>3. w # new
      BY <1>2, <1>6, <2>3, <2>5, <3>1, <3>2
    <3>4. w \in Maps
      BY <1>1, <1>6, <3>3
    <3>5. QED
      BY <1>3, <2>1, <2>2, <3>1, <3>4 DEF MoveInv
  <2>6. QED
    BY <2>4, <2>5
<1>15. ASSUME ~raced', ~Afresh' PROVE SeenInv'
  <2>1. SeenInv
    BY <1>3, <1>15
  <2>2. SUFFICES ASSUME NEW q \in Paths, Dir(q) # None, Dir(q) \in seen
                 PROVE  (\E w \in foundWds' : w[2] = q) \/ <<"watch", q>> \in todo'
    BY <1>3 DEF SeenInv
  <2>3. (\E w \in Maps : w[2] = q) \/ <<"watch", q>> \in todo
    BY <1>1, <2>1, <2>2 DEF SeenInv
  <2>4. <<"watch", q>> = W => q = p
    BY DEF W
  <2>5. QED
    BY <1>1, <1>5, <1>6, <2>3, <2>4
<1>16. QED
  BY <1>3, <1>9, <1>10, <1>11, <1>12, <1>13, <1>14, <1>15 DEF IInv, FollowInv

\* A directory is watched anew, or under its old descriptor: an alias only if it was
\* moved, which ~raced excludes.
LEMMA WatchKeeps ==
    ASSUME IInv, NEW p, Watch(p) PROVE IInv'
<1>1. /\ <<"watch", p>> \in todo /\ Dir(p) # None /\ ScanStep
      /\ wdOf' = [wdOf EXCEPT ![Dir(p)] = WdFor(p)]
      /\ nextWd' = IF wdOf[Dir(p)] = 0 THEN nextWd + 1 ELSE nextWd
      /\ IF Alias(p)
         THEN /\ found' = found \cup {<<p, "dir">>}
              /\ todo' = Rest("watch", p) /\ UNCHANGED foundWds
         ELSE /\ foundWds' = foundWds \cup {<<WdFor(p), p>>}
              /\ todo' = Rest("watch", p) \cup {<<"list", p>>} /\ UNCHANGED found
      /\ UNCHANGED seen
  BY DEF Watch, Alias, WdFor, ScanStep, diskVars, treeVars
<1>2. QED
  BY <1>1, AliasKeeps, WatchedKeeps

\* What ending watches leaves.
DropFacts(gone) ==
    /\ wdOf' \in [Nodes -> Nat]
    /\ \A d \in Nodes : wdOf'[d] # 0 => wdOf'[d] = wdOf[d]
    /\ \A d, e \in Nodes : d # e /\ wdOf'[d] # 0 => wdOf'[d] # wdOf'[e]
    /\ \A d \in Nodes : wdOf'[d] < nextWd
    /\ \A d \in Nodes : wdOf'[d] # 0 => \/ \E w \in Maps \ gone : w[1] = wdOf'[d]
                                        \/ d = Root /\ <<"watch", <<>> >> \in todo
    /\ \A w \in Maps \ gone, d \in Nodes : wdOf[d] = w[1] => wdOf'[d] = wdOf[d]
    /\ (\A w \in gone : w[2] # <<>>) => wdOf'[Root] = 1

\* Watches that end.
LEMMA Dropped ==
    ASSUME IInv, Active, NEW gone, gone \subseteq Maps,
           wdOf' = [d \in Nodes |-> IF \E w \in gone : w[1] = wdOf[d] THEN 0 ELSE wdOf[d]]
    PROVE  DropFacts(gone)
<1>1. /\ TypeInv /\ wdOf \in [Nodes -> Nat] /\ nextWd \in Nat \ {0} /\ Root \in Nodes
      /\ \A w \in Maps : w = <<w[1], w[2]>>
  <2>1. TypeInv
    BY DEF IInv
  <2>2. Maps \subseteq (Nat \ {0}) \X Paths
    BY <2>1, KindsNow DEF Kinds
  <2>3. QED
    BY <2>1, <2>2, ConstantTypes DEF TypeInv
<1>2. wdOf' \in [Nodes -> Nat]
  BY <1>1
<1>3. ASSUME NEW d \in Nodes, wdOf'[d] # 0 PROVE wdOf'[d] = wdOf[d] /\ \A w \in gone : w[1] # wdOf[d]
  BY <1>3
<1>4. ASSUME NEW d \in Nodes, NEW e \in Nodes, d # e, wdOf'[d] # 0 PROVE wdOf'[d] # wdOf'[e]
  <2>1. wdOf'[d] = wdOf[d] /\ (wdOf'[e] = 0 \/ wdOf'[e] = wdOf[e])
    BY <1>3, <1>4
  <2>2. wdOf[d] # wdOf[e]
    BY <1>4, <2>1 DEF IInv, WatchInv
  <2>3. QED
    BY <1>4, <2>1, <2>2
<1>5. ASSUME NEW d \in Nodes PROVE wdOf'[d] < nextWd
  <2>1. wdOf'[d] = 0 \/ wdOf'[d] = wdOf[d]
    BY <1>3
  <2>2. wdOf[d] < nextWd
    BY DEF IInv, WatchInv
  <2>3. QED
    BY <1>1, <2>1, <2>2
<1>6. ASSUME NEW d \in Nodes, wdOf'[d] # 0
      PROVE  (\E w \in Maps \ gone : w[1] = wdOf'[d]) \/ (d = Root /\ <<"watch", <<>> >> \in todo)
  <2>1. (\E w \in Maps : w[1] = wdOf[d]) \/ (d = Root /\ <<"watch", <<>> >> \in todo)
    BY <1>3, <1>6 DEF IInv, WatchInv
  <2>2. QED
    BY <1>3, <1>6, <2>1
<1>7. Pairs(Maps)
  BY DEF IInv, WatchInv, Maps
<1>8. ASSUME NEW w \in Maps \ gone, NEW d \in Nodes, wdOf[d] = w[1] PROVE wdOf'[d] = wdOf[d]
  <2>1. ASSUME NEW v \in gone, v[1] = wdOf[d] PROVE FALSE
    <3>1. v[1] = w[1] /\ v[2] = w[2]
      BY <1>7, <1>8, <2>1 DEF Pairs
    <3>2. QED
      BY <1>1, <1>8, <2>1, <3>1
  <2>2. QED
    BY <2>1
<1>9. ASSUME \A w \in gone : w[2] # <<>> PROVE wdOf'[Root] = 1
  <2>1. wdOf[Root] = 1 /\ \A w \in Maps : w[1] = 1 <=> w[2] = <<>>
    BY DEF IInv, RootInv, Active, Scanning
  <2>2. \A w \in gone : w[1] # wdOf[Root]
    BY <1>9, <2>1
  <2>3. QED
    BY <1>1, <2>1, <2>2
<1>10. QED
  BY <1>2, <1>3, <1>4, <1>5, <1>6, <1>8, <1>9 DEF DropFacts

\* What a directory that has vanished before it is listed leaves behind.
LEMMA ListNoneKeeps ==
    ASSUME IInv, NEW p, <<"list", p>> \in todo, Dir(p) = None, ScanStep,
           NEW gone, gone = {w \in foundWds : w[2] = p}, foundWds' = foundWds \ gone,
           wdOf' = [d \in Nodes |-> IF \E w \in gone : w[1] = wdOf[d] THEN 0 ELSE wdOf[d]],
           todo' = Rest("list", p), UNCHANGED <<nextWd, found, seen>>
    PROVE  IInv'
<1> DEFINE L == <<"list", p>>
<1>1. /\ Scanning /\ Active /\ TypeInv /\ p \in Paths /\ p \in PathSeq /\ IsPrefix(p, p)
      /\ Maps = foundWds
      /\ \A u \in todo : /\ u = <<u[1], u[2]>> /\ u[2] \in PathSeq
                         /\ u # L => ~IsPrefix(p, u[2]) /\ ~IsPrefix(u[2], p)
      /\ \A e \in found : ~IsPrefix(p, e[1])
      /\ ~Excluded(spec, p)
  <2>1. "list" # "look"
    OBVIOUS
  <2>2. QED
    BY <2>1, TaskFacts
<1>2. /\ Pending' = Pending /\ Maps' = foundWds' /\ Scanning' /\ Active' /\ (Afresh <=> Afresh')
      /\ \A q : Dir(q)' = Dir(q) /\ (IsFile(q)' <=> IsFile(q))
      /\ ~raced' /\ ~Afresh' => ExactInv /\ MoveInv /\ SeenInv /\ spec = ignoring
      /\ UNCHANGED <<place, files, ignoring, changes, kernel, phase, queue, entries, wds, spec, view, raced>>
      /\ phase # "idle"
  BY <1>1, ScanStepFacts DEF ScanStep
<1>3. todo' \subseteq todo /\ (\A u \in todo' : u # L) /\ \A u \in todo : u = L \/ u \in todo'
  BY DEF Rest
<1>4. p # <<>>
  BY <1>1, Walks, WalkEmpty, ConstantTypes
<1>5. foundWds' \subseteq foundWds /\ \A w \in foundWds : w \in foundWds' <=> w[2] # p
  OBVIOUS
<1>6. /\ wdOf' \in [Nodes -> Nat]
      /\ \A d \in Nodes : wdOf'[d] # 0 => wdOf'[d] = wdOf[d]
      /\ \A d, e \in Nodes : d # e /\ wdOf'[d] # 0 => wdOf'[d] # wdOf'[e]
      /\ \A d \in Nodes : wdOf'[d] < nextWd
      /\ \A d \in Nodes : wdOf'[d] # 0 => \/ \E w \in foundWds' : w[1] = wdOf'[d]
                                          \/ d = Root /\ <<"watch", <<>> >> \in todo
      /\ \A w \in foundWds', d \in Nodes : wdOf[d] = w[1] => wdOf'[d] = wdOf[d]
      /\ wdOf'[Root] = 1
  <2>1. gone \subseteq Maps /\ \A w \in gone : w[2] # <<>>
    BY <1>1, <1>4
  <2>2. Maps \ gone = foundWds'
    BY <1>1
  <2>3. DropFacts(gone)
    BY <1>1, <2>1, Dropped
  <2>4. QED
    BY <2>1, <2>2, <2>3 DEF DropFacts
<1> HIDE DEF L
<1>7. TypeInv'
  BY <1>1, <1>2, <1>3, <1>5, <1>6 DEF TypeInv, Disk
<1>8. WatchInv'
  <2>1. WatchInv
    BY DEF IInv
  <2>2. Pairs(wds)' /\ Pairs(foundWds)' /\ phase' # "idle"
    BY <1>2, <1>5, <2>1 DEF WatchInv, Pairs
  <2>3. <<"watch", <<>> >> \in todo => <<"watch", <<>> >> \in todo'
    <3>1. <<"watch", <<>> >> # L
      BY DEF L
    <3>2. QED
      BY <1>3, <3>1
  <2>4. \A w \in foundWds' : w[1] < nextWd'
    BY <1>5, <2>1 DEF WatchInv
  <2>5. QED
    BY <1>2, <1>6, <2>2, <2>3, <2>4 DEF WatchInv
<1>9. RootInv'
  BY <1>1, <1>2, <1>5, <1>6 DEF IInv, RootInv, Scanning
<1>10. ScanInv'
  <2>1. ScanInv
    BY DEF IInv
  <2>2. phase' \notin {"opening", "loading", "idle", "invalid"}
    BY <1>1, <1>2 DEF Scanning
  <2>3. QED
    BY <1>2, <1>3, <1>5, <2>1, <2>2 DEF ScanInv
<1>11. ASSUME ~raced', ~Afresh' PROVE ExactInv'
  <2>1. ExactInv
    BY <1>2, <1>11
  <2>2. SUFFICES ASSUME NEW q \in Paths, ~Covered(q)' PROVE Exact(q)'
    BY DEF ExactInv
  <2>3. q \in PathSeq
    BY PathsAre
  <2>4. ASSUME NEW r \in PathSeq, Told(Pending, Maps, r), ~IsPrefix(p, r) \/ r = p PROVE Covered(r)'
    <3>1. PICK e \in Pending, w \in Maps :
              e[1] = w[1] /\ e[2] \in Names /\ IsPrefix(About(e, w[2]), r)
      BY <2>4 DEF Told
    <3>2. w[2] \in PathSeq
      BY <1>1, PathsAre DEF TypeInv
    <3>3. About(e, w[2]) = Append(w[2], e[2])
      BY <3>1, ConstantTypes DEF About
    <3>4. w[2] # p
      <4>1. SUFFICES ASSUME w[2] = p PROVE FALSE
        OBVIOUS
      <4>2. Append(p, e[2]) \in PathSeq /\ Len(Append(p, e[2])) = Len(p) + 1 /\ Len(p) \in Nat
            /\ IsPrefix(p, Append(p, e[2]))
        BY <1>1, <3>1, Joined, PrefixSelf, PrefixOfJoined
      <4>3. IsPrefix(Append(p, e[2]), r)
        BY <3>1, <3>3, <4>1
      <4>4. IsPrefix(p, r)
        BY <1>1, <2>4, <4>2, <4>3, PrefixTransitive
      <4>5. Len(Append(p, e[2])) <= Len(p)
        BY <1>1, <2>4, <4>2, <4>3, <4>4, PrefixLength
      <4>6. QED
        BY <4>2, <4>5
    <3>5. w \in Maps'
      BY <1>1, <1>2, <1>5, <3>4
    <3>6. QED
      BY <1>2, <3>1, <3>5 DEF Covered, Told
  <2>5. ~IsPrefix(p, q)
    <3>1. SUFFICES Covered(p)'
      BY <1>1, <1>7, <2>2, <2>3, CoveredBelowNext
    <3>2. Covered(p)
      <4>1. ShowsFound /\ L \in todo
        BY <1>1, ShownNow DEF L
      <4>2. <<p, "dir">> \in Shown
        BY <1>4, <4>1 DEF ShowsFound, L
      <4>3. QED
        BY <1>1, <2>1, <4>2 DEF ExactInv, Exact
    <3>3. ~Tasked(todo, p)
      <4>1. ASSUME NEW u \in todo, IsPrefix(u[2], p) PROVE u[1] = "list" /\ u[2] = p
        BY <1>1, <4>1 DEF L
      <4>2. QED
        BY <4>1 DEF Tasked
    <3>4. QED
      BY <1>1, <2>4, <3>2, <3>3 DEF Covered
  <2>6. ~Covered(q)
    <3>1. ASSUME Tasked(todo, q) PROVE Tasked(todo', q)
      <4>1. PICK u \in todo : IsPrefix(u[2], q) /\ (u[1] = "list" => u[2] # q)
        BY <3>1 DEF Tasked
      <4>2. u # L
        BY <2>5, <4>1 DEF L
      <4>3. QED
        BY <1>3, <4>1, <4>2 DEF Tasked
    <3>2. QED
      BY <2>2, <2>3, <2>4, <2>5, <3>1 DEF Covered
  <2>7. Exact(q)
    BY <2>1, <2>6 DEF ExactInv
  <2>8. q # p
    BY <1>1, <2>5
  <2>9. /\ (<<q, "dir">> \in Shown' <=> <<q, "dir">> \in Shown)
        /\ (<<q, "file">> \in Shown' <=> <<q, "file">> \in Shown)
    <3>1. ShowsFound /\ ShowsFound'
      BY <1>1, <1>2, <1>7, ShownNow, ShownNext
    <3>2. <<"list", q>> # L
      BY <2>8 DEF L
    <3>3. <<"list", q>> \in todo' <=> <<"list", q>> \in todo
      BY <1>3, <3>2
    <3>4. QED
      BY <3>1, <3>3 DEF ShowsFound
  <2>10. ASSUME Dir(q) # None, ~Excluded(spec, q)
         PROVE  wdOf'[Dir(q)] # 0 /\ <<wdOf'[Dir(q)], q>> \in Maps'
    <3>1. wdOf[Dir(q)] # 0 /\ <<wdOf[Dir(q)], q>> \in Maps
      BY <2>7, <2>10 DEF Exact
    <3>2. <<wdOf[Dir(q)], q>> \in foundWds'
      BY <1>1, <1>5, <2>8, <3>1
    <3>3. Dir(q) \in Nodes
      BY <1>1, <2>3, <2>10, Walks, WalkType, ConstantTypes DEF TypeInv
    <3>4. wdOf'[Dir(q)] = wdOf[Dir(q)]
      BY <1>6, <3>2, <3>3
    <3>5. QED
      BY <1>2, <3>1, <3>2, <3>4
  <2>11. ASSUME NEW w \in Maps', w[2] = q PROVE Dir(q) # None /\ wdOf'[Dir(q)] = w[1]
    <3>1. Dir(q) # None /\ wdOf[Dir(q)] = w[1]
      BY <1>1, <1>2, <1>5, <2>7, <2>11 DEF Exact
    <3>2. Dir(q) \in Nodes
      BY <1>1, <2>3, <3>1, Walks, WalkType, ConstantTypes DEF TypeInv
    <3>3. QED
      BY <1>2, <1>6, <2>11, <3>1, <3>2
  <2>12. QED
    BY <1>2, <2>7, <2>9, <2>10, <2>11 DEF Exact
<1>12. ASSUME ~raced', ~Afresh' PROVE MoveInv' /\ SeenInv'
  <2>1. MoveInv /\ SeenInv
    BY <1>2, <1>12
  <2>2. ASSUME NEW w \in Maps', NEW q \in Paths, Dir(q) # None, wdOf'[Dir(q)] = w[1]
        PROVE  q = w[2] \/ Excluded(spec, q)
    <3>1. w \in Maps /\ w[1] # 0
      BY <1>1, <1>2, <1>5, <1>7 DEF TypeInv
    <3>2. Dir(q) \in Nodes
      BY <1>1, <2>2, PathsAre, Walks, WalkType, ConstantTypes DEF TypeInv
    <3>3. wdOf[Dir(q)] = w[1]
      BY <1>6, <2>2, <3>1, <3>2
    <3>4. QED
      BY <1>2, <2>1, <2>2, <3>1, <3>3 DEF MoveInv
  <2>3. ASSUME NEW q \in Paths, Dir(q) # None, Dir(q) \in seen
        PROVE  (\E w \in Maps' : w[2] = q) \/ <<"watch", q>> \in todo'
    <3>1. (\E w \in Maps : w[2] = q) \/ <<"watch", q>> \in todo
      BY <1>1, <2>1, <2>3 DEF SeenInv
    <3>2. q # p
      BY <2>3
    <3>3. <<"watch", q>> # L
      BY DEF L
    <3>4. QED
      BY <1>1, <1>2, <1>3, <1>5, <3>1, <3>2, <3>3
  <2>4. MoveInv'
    BY <1>2, <2>2 DEF MoveInv
  <2>5. SeenInv'
    BY <1>2, <2>3 DEF SeenInv
  <2>6. QED
    BY <2>4, <2>5
<1>13. QED
  BY <1>2, <1>7, <1>8, <1>9, <1>10, <1>11, <1>12 DEF IInv, FollowInv

\* A directory's names are all looked at.
LEMMA ListedKeeps ==
    ASSUME IInv, NEW p, <<"list", p>> \in todo, Dir(p) # None, ScanStep,
           NEW new, new = {<<"look", Append(p, n)>> : n \in Children(Dir(p))},
           todo' = Rest("list", p) \cup new,
           found' = found \cup (IF p = <<>> THEN {} ELSE {<<p, "dir">>}),
           UNCHANGED <<wdOf, nextWd, foundWds, seen>>
    PROVE  IInv'
<1> DEFINE L == <<"list", p>>
<1> DEFINE R == todo \ {L}
<1>1. /\ Scanning /\ TypeInv /\ p \in Paths /\ p \in PathSeq /\ IsPrefix(p, p) /\ Maps = foundWds
      /\ \A u \in todo : /\ u = <<u[1], u[2]>> /\ u[2] \in PathSeq
                         /\ u # L => ~IsPrefix(p, u[2]) /\ ~IsPrefix(u[2], p)
      /\ \A w \in foundWds : IsPrefix(p, w[2]) => w[2] = p
      /\ \A e \in found : ~IsPrefix(p, e[1])
      /\ ~Excluded(spec, p)
  <2>1. "list" # "look"
    OBVIOUS
  <2>2. QED
    BY <2>1, TaskFacts
<1>2. /\ Pending' = Pending /\ Maps' = Maps /\ Scanning' /\ (Afresh <=> Afresh')
      /\ \A q : Dir(q)' = Dir(q) /\ (IsFile(q)' <=> IsFile(q))
      /\ ~raced' /\ ~Afresh' => ExactInv /\ MoveInv /\ SeenInv /\ spec = ignoring
      /\ UNCHANGED <<ignoring, wdOf, phase, queue, kernel, entries, spec, view, raced>>
      /\ phase # "idle"
  BY <1>1, ScanStepFacts DEF ScanStep
<1>3. /\ R \subseteq todo /\ (\A u \in R : u # L) /\ todo' = R \cup new
      /\ \A u \in todo : u = L \/ u \in R
  BY DEF Rest
<1>4. Len(p) \in Nat /\ Len(p) <= Cardinality(Dirs) /\ Cardinality(Dirs) \in Nat
  BY <1>1, Walks, Short, ConstantTypes, LenProperties DEF TypeInv, PathSeq
<1>5. ASSUME NEW u \in new
      PROVE  \E n \in Names : /\ u = <<"look", Append(p, n)>> /\ u[1] = "look" /\ u[2] = Append(p, n)
                              /\ n \in Children(Dir(p))
  <2>1. PICK n \in Children(Dir(p)) : u = <<"look", Append(p, n)>>
    OBVIOUS
  <2>2. n \in Names
    BY DEF Children
  <2>3. QED
    BY <2>1, <2>2
<1>6. ASSUME NEW n \in Names
      PROVE  /\ Append(p, n) \in PathSeq /\ Append(p, n) \in Paths /\ Len(Append(p, n)) = Len(p) + 1
             /\ ~IsPrefix(Append(p, n), p) /\ IsPrefix(p, Append(p, n))
  <2> DEFINE a == Append(p, n)
  <2>1. a \in PathSeq /\ Len(a) = Len(p) + 1 /\ IsPrefix(p, a)
    BY <1>1, Joined, PrefixSelf, PrefixOfJoined
  <2> HIDE DEF a
  <2>2. Len(a) <= Cardinality(Dirs) + 1 /\ ~(Len(a) <= Len(p))
    BY <1>4, <2>1
  <2>3. a \in Paths /\ ~IsPrefix(a, p)
    BY <1>1, <2>1, <2>2, PathsAre, PrefixLength
  <2>4. QED
    BY <2>1, <2>3 DEF a
<1>7. ASSUME NEW u \in new, NEW s \in PathSeq, IsPrefix(s, u[2]) PROVE IsPrefix(s, p) \/ s = u[2]
  <2>1. PICK n \in Names : u[2] = Append(p, n)
    BY <1>5
  <2>2. QED
    BY <1>1, <1>7, <2>1, PrefixOfJoined
<1>8. ASSUME NEW u \in new, NEW s \in PathSeq, IsPrefix(u[2], s) PROVE IsPrefix(p, s) /\ s # p
  <2>1. PICK n \in Names : u[2] = Append(p, n)
    BY <1>5
  <2>2. QED
    BY <1>1, <1>6, <1>8, <2>1, PrefixTransitive
<1>9. ASSUME NEW t \in new, NEW u \in new, IsPrefix(t[2], u[2]) PROVE t = u
  <2>1. PICK n \in Names : t = <<"look", Append(p, n)>> /\ t[2] = Append(p, n)
    BY <1>5
  <2>2. PICK m \in Names : u = <<"look", Append(p, m)>> /\ u[2] = Append(p, m)
    BY <1>5
  <2>3. t[2] = u[2]
    BY <1>1, <1>6, <1>9, <2>1, <2>2, PrefixOfJoined
  <2>4. QED
    BY <2>1, <2>2, <2>3
<1>10. \A e \in found' : e \in found \/ (p # <<>> /\ e = <<p, "dir">>)
  OBVIOUS
<1> HIDE DEF L, R
<1>11. TypeInv' /\ WatchInv' /\ RootInv'
  <2>1. todo' \subseteq ({"look", "watch", "list"} \X Paths)
    <3>1. ASSUME NEW u \in new PROVE u \in {"look", "watch", "list"} \X Paths
      <4>1. PICK n \in Names : u = <<"look", Append(p, n)>>
        BY <1>5
      <4>2. QED
        BY <1>6, <4>1
    <3>2. QED
      BY <1>1, <1>3, <3>1 DEF TypeInv
  <2>2. found' \subseteq (Paths \X {"dir", "file"})
    BY <1>1, <1>10 DEF TypeInv
  <2>3. seen' \subseteq Nodes \cup {None}
    BY <1>1 DEF TypeInv
  <2>4. <<"watch", <<>> >> \in todo => <<"watch", <<>> >> \in todo'
    <3>1. <<"watch", <<>> >> # L
      BY DEF L
    <3>2. QED
      BY <1>3, <3>1
  <2>5. QED
    BY <1>1, <2>1, <2>2, <2>3, <2>4, FoundStepKeeps
<1>12. ScanInv'
  <2>1. ScanInv
    BY DEF IInv
  <2>2. phase' \notin {"opening", "loading", "idle", "invalid"}
    BY <1>2 DEF Scanning
  <2>3. ASSUME NEW t \in todo', NEW u \in todo', IsPrefix(t[2], u[2]) PROVE t = u
    <3>1. CASE t \in R /\ u \in R
      BY <1>3, <2>1, <2>3, <3>1 DEF ScanInv
    <3>2. CASE t \in R /\ u \in new
      <4>1. IsPrefix(t[2], p) \/ t[2] = u[2]
        BY <1>1, <1>3, <1>7, <2>3, <3>2
      <4>2. ~IsPrefix(t[2], p) /\ ~IsPrefix(p, t[2])
        BY <1>1, <1>3, <3>2
      <4>3. t[2] = u[2] => IsPrefix(p, t[2])
        BY <1>5, <1>6, <3>2
      <4>4. QED
        BY <4>1, <4>2, <4>3
    <3>3. CASE t \in new /\ u \in R
      BY <1>1, <1>3, <1>8, <2>3, <3>3
    <3>4. CASE t \in new /\ u \in new
      BY <1>9, <2>3, <3>4
    <3>5. QED
      BY <1>3, <3>1, <3>2, <3>3, <3>4
  <2>4. ASSUME NEW t \in todo', NEW w \in foundWds, IsPrefix(t[2], w[2]) PROVE t = <<"list", w[2]>>
    <3>1. CASE t \in R
      BY <1>3, <2>1, <2>4, <3>1 DEF ScanInv
    <3>2. CASE t \in new
      <4>1. w[2] \in PathSeq
        BY <1>1, PathsAre DEF TypeInv
      <4>2. IsPrefix(p, w[2]) /\ w[2] # p
        BY <1>8, <2>4, <3>2, <4>1
      <4>3. QED
        BY <1>1, <4>2
    <3>3. QED
      BY <1>3, <3>1, <3>2
  <2>5. ASSUME NEW t \in todo', NEW e \in found' PROVE ~IsPrefix(t[2], e[1])
    <3>1. CASE t \in R /\ e \in found
      BY <1>3, <2>1, <3>1 DEF ScanInv
    <3>2. CASE t \in R /\ e = <<p, "dir">>
      BY <1>1, <1>3, <3>2
    <3>3. CASE t \in new
      <4>1. e[1] \in PathSeq
        BY <1>1, <1>10, PathsAre DEF TypeInv
      <4>2. IsPrefix(t[2], e[1]) => IsPrefix(p, e[1]) /\ e[1] # p
        BY <1>8, <3>3, <4>1
      <4>3. QED
        BY <1>1, <1>10, <4>2
    <3>4. QED
      BY <1>3, <1>10, <3>1, <3>2, <3>3
  <2>6. \A t \in todo' : t[1] # "look" => ~Excluded(spec', t[2])
    BY <1>2, <1>3, <1>5, <2>1 DEF ScanInv
  <2>7. \A w \in foundWds' : ~Excluded(spec', w[2])
    BY <1>2, <2>1 DEF ScanInv
  <2>8. QED
    BY <2>2, <2>3, <2>4, <2>5, <2>6, <2>7 DEF ScanInv
<1>13. ASSUME ~raced', ~Afresh' PROVE ExactInv'
  <2>1. ExactInv
    BY <1>2, <1>13
  <2>2. SUFFICES ASSUME NEW q \in Paths, ~Covered(q)' PROVE Exact(q)'
    BY DEF ExactInv
  <2>3. q \in PathSeq
    BY PathsAre
  <2>4. /\ (<<q, "dir">> \in Shown' <=> <<q, "dir">> \in Shown)
        /\ (<<q, "file">> \in Shown' <=> <<q, "file">> \in Shown)
    <3>1. ShowsFound /\ ShowsFound'
      BY <1>1, <1>2, <1>11, ShownNow, ShownNext
    <3>2. <<"file">> # <<"dir">> /\ "file" # "dir"
      OBVIOUS
    <3>3. <<q, "file">> \in found' <=> <<q, "file">> \in found
      BY <3>2
    <3>4. <<q, "dir">> \in found' <=> <<q, "dir">> \in found \/ (q = p /\ p # <<>>)
      OBVIOUS
    <3>5. <<"list", q>> \in todo' <=> <<"list", q>> \in todo /\ q # p
      <4>1. <<"list", q>> \notin new
        BY <1>5
      <4>2. <<"list", q>> = L <=> q = p
        BY DEF L
      <4>3. QED
        BY <1>3, <4>1, <4>2
    <3>6. q = p => <<"list", q>> \in todo
      OBVIOUS
    <3>7. QED
      BY <3>1, <3>3, <3>4, <3>5, <3>6 DEF ShowsFound
  <2>5. CASE ~Covered(q)
    <3>1. Exact(q)
      BY <2>1, <2>5 DEF ExactInv
    <3>2. QED
      BY <1>2, <2>4, <3>1 DEF Exact
  <2>6. CASE Covered(q)
    <3>1. IsPrefix(p, q) /\ q # p
      <4>1. PICK u \in todo : IsPrefix(u[2], q) /\ (u[1] = "list" => u[2] # q)
        BY <1>2, <2>2, <2>6 DEF Covered, Tasked
      <4>2. u = L
        BY <1>3, <2>2, <4>1 DEF Covered, Tasked
      <4>3. QED
        BY <4>1, <4>2 DEF L
    <3>2. PICK n \in Names : IsPrefix(Append(p, n), q)
      BY <1>1, <2>3, <3>1, NextName
    <3> DEFINE a == Append(p, n)
    <3>3. a \in PathSeq /\ a # <<>> /\ Front(a) = p /\ Last(a) = n
      BY <1>1, Joined
    <3>4. n \notin Children(Dir(p))
      <4>1. SUFFICES ASSUME n \in Children(Dir(p)) PROVE FALSE
        OBVIOUS
      <4>2. <<"look", a>> \in new /\ <<"look", a>>[1] # "list"
        BY <4>1
      <4>3. QED
        BY <1>3, <2>2, <3>2, <4>2 DEF Covered, Tasked
    <3>5. Free(<<Dir(p), n>>)
      BY <3>4 DEF Children
    <3> HIDE DEF a
    <3>6. Dir(a) = None /\ ~IsFile(a)
      <4>1. ~IsFile(a)
        BY <3>3, <3>5 DEF IsFile, Free
      <4>2. Dir(a) \in Dirs \cup {None}
        BY <1>1, <3>3, Walks, WalkType, ConstantTypes DEF TypeInv
      <4>3. \A c \in Dirs : Dir(a) # c
        BY <1>1, <3>5, Walks, WalkLast, ConstantTypes DEF TypeInv, Free, a
      <4>4. QED
        BY <4>1, <4>2, <4>3
    <3>7. Dir(q) = None /\ ~IsFile(q)
      BY <1>1, <2>3, <3>2, <3>3, <3>6, NothingBelow DEF a
    <3>8. <<q, "dir">> \notin Shown /\ <<q, "file">> \notin Shown /\ \A w \in Maps : w[2] # q
      BY <2>3, <3>1, Clear
    <3>9. QED
      BY <1>2, <2>4, <3>7, <3>8 DEF Exact
  <2>7. QED
    BY <2>5, <2>6
<1>14. ASSUME ~raced', ~Afresh' PROVE MoveInv' /\ SeenInv'
  <2>1. MoveInv /\ SeenInv
    BY <1>2, <1>14
  <2>2. MoveInv'
    BY <1>2, <2>1 DEF MoveInv
  <2>3. SUFFICES ASSUME NEW q \in Paths, Dir(q) # None, Dir(q) \in seen
                 PROVE  (\E w \in Maps : w[2] = q) \/ <<"watch", q>> \in todo'
    BY <1>2, <2>2 DEF SeenInv
  <2>4. (\E w \in Maps : w[2] = q) \/ <<"watch", q>> \in todo
    BY <1>1, <2>1, <2>3 DEF SeenInv
  <2>5. <<"watch", q>> # L
    BY DEF L
  <2>6. QED
    BY <1>3, <2>4, <2>5
<1>15. QED
  BY <1>2, <1>11, <1>12, <1>13, <1>14 DEF IInv, FollowInv

\* A directory is listed: its names are covered by the looks to come.  If it is gone,
\* so are its watch and its path.
LEMMA ListKeeps ==
    ASSUME IInv, NEW p, List(p) PROVE IInv'
<1>1. /\ <<"list", p>> \in todo /\ ScanStep /\ UNCHANGED <<nextWd, seen>>
      /\ IF Dir(p) = None
         THEN LET gone == {w \in foundWds : w[2] = p} IN
              /\ foundWds' = foundWds \ gone
              /\ wdOf' = [d \in Nodes |-> IF \E w \in gone : w[1] = wdOf[d] THEN 0 ELSE wdOf[d]]
              /\ todo' = Rest("list", p) /\ UNCHANGED found
         ELSE /\ todo' = Rest("list", p) \cup {<<"look", Append(p, n)>> : n \in Children(Dir(p))}
              /\ found' = found \cup (IF p = <<>> THEN {} ELSE {<<p, "dir">>})
              /\ UNCHANGED <<wdOf, foundWds>>
  BY DEF List, ScanStep, diskVars, treeVars
<1>2. CASE Dir(p) = None
  <2>1. PICK gone : gone = {w \in foundWds : w[2] = p}
    OBVIOUS
  <2>2. /\ foundWds' = foundWds \ gone
        /\ wdOf' = [d \in Nodes |-> IF \E w \in gone : w[1] = wdOf[d] THEN 0 ELSE wdOf[d]]
        /\ todo' = Rest("list", p) /\ UNCHANGED found
    BY <1>1, <1>2, <2>1
  <2>3. QED
    BY <1>1, <1>2, <2>1, <2>2, ListNoneKeeps
<1>3. CASE Dir(p) # None
  <2>1. PICK new : new = {<<"look", Append(p, n)>> : n \in Children(Dir(p))}
    OBVIOUS
  <2>2. /\ todo' = Rest("list", p) \cup new
        /\ found' = found \cup (IF p = <<>> THEN {} ELSE {<<p, "dir">>})
        /\ UNCHANGED <<wdOf, nextWd, foundWds, seen>>
    BY <1>1, <1>3, <2>1
  <2>3. QED
    BY <1>1, <1>3, <2>1, <2>2, ListedKeeps
<1>4. QED
  BY <1>2, <1>3

-----------------------------------------------------------------------------
(* Batches *)

\* Every path has a selected one above it, or is one.
LEMMA SelectedAbove ==
    ASSUME NEW S, S \subseteq PathSeq, NEW p \in S
    PROVE  \E s \in Selected(S) : IsPrefix(s, p)
<1> DEFINE A == {s \in S : IsPrefix(s, p)}
<1> DEFINE T == {Len(s) : s \in A}
<1>1. T \subseteq Nat /\ T # {}
  <2>1. p \in A
    BY PrefixSelf
  <2>2. \A s \in A : Len(s) \in Nat
    BY LenProperties DEF PathSeq
  <2> HIDE DEF A
  <2>3. QED
    BY <2>1, <2>2
<1>2. PICK m \in T : \A k \in T : m <= k
  <2> HIDE DEF T
  <2> QED BY <1>1, LeastNumber
<1>3. PICK s \in A : m = Len(s)
  BY <1>2
<1>4. ASSUME NEW q \in S, q # s, IsPrefix(q, s) PROVE FALSE
  <2>1. q \in PathSeq /\ s \in PathSeq /\ IsPrefix(s, p)
    BY <1>3
  <2>2. q \in A
    BY <1>4, <2>1, PrefixTransitive
  <2>3. Len(s) <= Len(q)
    BY <1>2, <1>3, <2>2
  <2>4. Len(q) <= Len(s) /\ (Len(q) = Len(s) => q = s) /\ Len(q) \in Nat /\ Len(s) \in Nat
    BY <1>4, <2>1, PrefixLength, LenProperties DEF PathSeq
  <2>5. QED
    BY <1>4, <2>3, <2>4
<1>5. s \in Selected(S)
  BY <1>3, <1>4 DEF Selected
<1>6. QED
  BY <1>3, <1>5

\* The paths a batch affects, and what it tells.
LEMMA AffectedFacts ==
    ASSUME TypeInv, NEW batch, batch \subseteq Tidings
    PROVE  /\ Affected(batch) \subseteq Paths
           /\ \A q : Told(batch, wds, q) => \E a \in Affected(batch) : IsPrefix(a, q)
           /\ \A a \in Affected(batch) : \E e \in batch, w \in wds :
                  e[1] = w[1] /\ e[2] # IgnoreFile /\ a = About(e, w[2])
<1> DEFINE X == {y \in batch \X wds : y[1][1] = y[2][1] /\ y[1][2] # IgnoreFile}
<1>1. Affected(batch) = {About(x[1], x[2][2]) : x \in X}
  BY DEF Affected
<1>2. ASSUME NEW x \in X
      PROVE  x[1] \in batch /\ x[2] \in wds /\ x[1][1] = x[2][1] /\ x[1][2] # IgnoreFile
  OBVIOUS
<1>3. ASSUME NEW e \in batch, NEW w \in wds, e[1] = w[1], e[2] # IgnoreFile PROVE <<e, w>> \in X
  BY <1>3
<1> HIDE DEF X
<1>4. \A a \in Affected(batch) : \E e \in batch, w \in wds :
          e[1] = w[1] /\ e[2] # IgnoreFile /\ a = About(e, w[2])
  BY <1>1, <1>2
<1>5. ASSUME NEW a \in Affected(batch) PROVE a \in Paths
  <2>1. PICK e \in batch, w \in wds : e[1] = w[1] /\ e[2] # IgnoreFile /\ a = About(e, w[2])
    BY <1>4
  <2>2. e \in Tidings /\ e[1] # 0 /\ w[2] \in Paths /\ w[2] \in PathSeq /\ Len(w[2]) <= Cardinality(Dirs)
    BY <2>1, PathsAre DEF TypeInv
  <2>3. a \in PathSeq /\ Len(a) <= Len(w[2]) + 1
    BY <2>1, <2>2, AboutPath
  <2>4. Len(w[2]) \in Nat /\ Len(a) \in Nat /\ Cardinality(Dirs) \in Nat
    BY <2>2, <2>3, LenProperties, ConstantTypes DEF PathSeq
  <2>5. Len(a) <= Cardinality(Dirs) + 1
    BY <2>2, <2>3, <2>4
  <2>6. QED
    BY <2>3, <2>5, PathsAre
<1>6. ASSUME NEW q, Told(batch, wds, q) PROVE \E a \in Affected(batch) : IsPrefix(a, q)
  <2>1. PICK e \in batch, w \in wds : e[1] = w[1] /\ e[2] \in Names /\ IsPrefix(About(e, w[2]), q)
    BY <1>6 DEF Told
  <2>2. <<e, w>> \in X
    BY <1>3, <2>1, ConstantTypes
  <2>3. About(e, w[2]) \in Affected(batch)
    BY <1>1, <2>2
  <2>4. QED
    BY <2>1, <2>3
<1>7. QED
  BY <1>4, <1>5, <1>6

\* Batches that are taken from the queue.
Taken(n, batch) ==
    /\ n \in 1 .. Len(queue) /\ batch = UNION {queue[i] : i \in 1 .. n}
    /\ queue' = SubSeq(queue, n + 1, Len(queue)) /\ kernel' = kernel

\* The batch that is taken contains the oldest, and the rest stays pending.
LEMMA TakenFacts ==
    ASSUME TypeInv, NEW n, NEW batch, Taken(n, batch)
    PROVE  /\ batch \subseteq Pending /\ Pending' \subseteq Pending
           /\ \A e \in Pending : e \in batch \/ e \in Pending'
           /\ First \subseteq batch /\ batch \subseteq Tidings /\ queue' \in Seq(SUBSET Tidings)
<1> DEFINE m == Len(queue)
<1>1. /\ queue \in Seq(SUBSET Tidings) /\ m \in Nat /\ n \in 1 .. m
      /\ batch = UNION {queue[i] : i \in 1 .. n} /\ kernel' = kernel
      /\ queue' = SubSeq(queue, n + 1, m)
  BY LenProperties DEF Taken, TypeInv
<1>2. \A i \in 1 .. m : queue[i] \in SUBSET Tidings
  BY <1>1, ElementOfSeq
<1> HIDE DEF m
<1> DEFINE k == m - n
<1>3. /\ queue' \in Seq(SUBSET Tidings) /\ Len(queue') = k /\ k \in Nat
      /\ \A i \in 1 .. k : queue'[i] = queue[n + i]
  <2>1. n + 1 \in Int /\ m \in Int /\ n + 1 >= 1
    BY <1>1
  <2>2. \A i \in (n + 1) .. m : queue[i] \in SUBSET Tidings
    BY <1>1, <1>2
  <2>3. /\ SubSeq(queue, n + 1, m) \in Seq(SUBSET Tidings)
        /\ Len(SubSeq(queue, n + 1, m)) = IF n + 1 <= m THEN m - (n + 1) + 1 ELSE 0
        /\ \A i \in 1 .. m - (n + 1) + 1 : SubSeq(queue, n + 1, m)[i] = queue[n + 1 + i - 1]
    BY <2>1, <2>2, SubSeqProperties
  <2>4. m - (n + 1) + 1 = k /\ k \in Nat /\ (~(n + 1 <= m) => k = 0)
        /\ \A i \in 1 .. k : n + 1 + i - 1 = n + i
    BY <1>1
  <2> HIDE DEF k
  <2>5. QED
    BY <1>1, <2>3, <2>4
<1>4. /\ Pending = kernel \cup UNION {queue[i] : i \in 1 .. m}
      /\ Pending' = kernel \cup UNION {queue'[i] : i \in 1 .. k}
  BY <1>1, <1>3 DEF Pending, m
<1>5. \A i \in 1 .. n : i \in 1 .. m
  BY <1>1
<1>6. batch \subseteq Pending
  BY <1>1, <1>4, <1>5
<1>7. ASSUME NEW e \in Pending' PROVE e \in Pending
  <2>1. CASE e \in kernel
    BY <1>4, <2>1
  <2>2. CASE \E i \in 1 .. k : e \in queue'[i]
    <3>1. PICK i \in 1 .. k : e \in queue'[i]
      BY <2>2
    <3>2. n + i \in 1 .. m
      BY <1>1
    <3>3. e \in queue[n + i]
      BY <1>3, <3>1
    <3>4. QED
      BY <1>4, <3>2, <3>3
  <2>3. QED
    BY <1>4, <2>1, <2>2
<1>8. ASSUME NEW e \in Pending, e \notin batch PROVE e \in Pending'
  <2>1. CASE e \in kernel
    BY <1>4, <2>1
  <2>2. CASE \E i \in 1 .. m : e \in queue[i]
    <3>1. PICK i \in 1 .. m : e \in queue[i]
      BY <2>2
    <3>2. i \notin 1 .. n
      BY <1>1, <1>8, <3>1
    <3> DEFINE j == i - n
    <3>3. j \in 1 .. k /\ n + j = i
      BY <1>1, <3>2
    <3> HIDE DEF j, k
    <3>4. e \in queue'[j]
      BY <1>3, <3>1, <3>3
    <3>5. QED
      BY <1>4, <3>3, <3>4
  <2>3. QED
    BY <1>4, <2>1, <2>2
<1>9. First \subseteq batch
  <2>1. queue # <<>>
    BY <1>1, EmptySeq DEF m
  <2>2. 1 \in 1 .. n
    BY <1>1
  <2>3. First = queue[1]
    BY <2>1 DEF First
  <2>4. QED
    BY <1>1, <2>2, <2>3
<1>10. batch \subseteq Tidings
  BY <1>1, <1>2, <1>5
<1>11. QED
  BY <1>3, <1>6, <1>7, <1>8, <1>9, <1>10

\* Events of what is not watched any more change nothing.
LEMMA NothingAffected ==
    ASSUME IInv, phase = "idle", NEW n, NEW batch, Taken(n, batch), Affected(batch) = {},
           \A e \in batch : e # Overflow /\ e[2] # IgnoreFile,
           UNCHANGED <<diskVars, treeVars, scanVars, raced, phase, wdOf, nextWd>>
    PROVE  IInv'
<1>1. /\ UNCHANGED <<place, files, ignoring, changes, wdOf, nextWd, kernel, phase, entries, wds, spec, view>>
      /\ UNCHANGED <<todo, found, foundWds, seen, raced>>
  BY DEF diskVars, treeVars, scanVars, Taken
<1>2. TypeInv /\ \A p : Dir(p)' = Dir(p) /\ (IsFile(p)' <=> IsFile(p))
  BY DiskKept DEF IInv
<1>3. /\ Pending' \subseteq Pending /\ \A e \in Pending : e \in batch \/ e \in Pending'
      /\ First \subseteq batch /\ batch \subseteq Tidings /\ queue' \in Seq(SUBSET Tidings)
  BY <1>2, TakenFacts
<1>4. /\ Maps' = Maps /\ Maps = wds /\ Shown' = Shown /\ Active /\ Active' /\ ~Scanning /\ ~Scanning'
  BY <1>1 DEF Maps, Shown, Active, Scanning
<1>5. Afresh <=> Afresh'
  BY <1>1, <1>3 DEF Afresh
<1>6. \A q : ~Told(batch, wds, q)
  BY <1>2, <1>3, AffectedFacts
<1>7. \A q : Covered(q) => Covered(q)'
  BY <1>1, <1>3, <1>4, <1>6 DEF Covered, Told
<1>8. TypeInv'
  BY <1>1, <1>2, <1>3 DEF TypeInv, Disk
<1>9. WatchInv' /\ RootInv' /\ ScanInv'
  BY <1>1, <1>3, <1>4 DEF IInv, WatchInv, Pairs, RootInv, ScanInv
<1>10. ASSUME ~raced', ~Afresh' PROVE ExactInv' /\ MoveInv' /\ SeenInv'
  <2>1. ExactInv /\ MoveInv
    BY <1>1, <1>5, <1>10 DEF IInv, FollowInv
  <2>2. ExactInv'
    BY <1>1, <1>2, <1>4, <1>7, <2>1 DEF ExactInv, Exact
  <2>3. \A q : ~Told(First, Maps, q)
    BY <1>3, <1>4, <1>6 DEF Told
  <2>4. MoveInv'
    BY <1>1, <1>2, <1>4, <2>1, <2>3 DEF MoveInv
  <2>5. SeenInv'
    BY <1>4 DEF SeenInv
  <2>6. QED
    BY <2>2, <2>4, <2>5
<1>11. QED
  BY <1>1, <1>5, <1>8, <1>9, <1>10 DEF IInv, FollowInv

\* The paths that are told of are looked at again, and their watches ended.
LEMMA ReconcileKeeps ==
    ASSUME IInv, phase = "idle", NEW n, NEW batch, Taken(n, batch),
           \A e \in batch : e # Overflow /\ e[2] # IgnoreFile,
           NEW paths, paths = Selected(Affected(batch)), StartReconcile(paths),
           UNCHANGED <<diskVars, treeVars, raced>>
    PROVE  IInv'
<1>0. PICK gone : gone = {w \in wds : Under(w[2], paths)}
  OBVIOUS
<1>1. /\ phase' = "reconciling" /\ found' = {e \in entries : ~Under(e[1], paths)}
      /\ foundWds' = wds \ gone
      /\ wdOf' = [d \in Nodes |-> IF \E w \in gone : w[1] = wdOf[d] THEN 0 ELSE wdOf[d]]
      /\ seen' = {Dir(w[2]) : w \in wds \ gone} /\ todo' = {<<"look", p>> : p \in paths}
      /\ UNCHANGED <<place, files, ignoring, changes, nextWd, kernel, entries, wds, spec, view, raced>>
  BY <1>0 DEF StartReconcile, diskVars, treeVars
<1>2. TypeInv /\ \A p : Dir(p)' = Dir(p) /\ (IsFile(p)' <=> IsFile(p))
  BY DiskKept DEF IInv
<1>3. /\ Pending' \subseteq Pending /\ \A e \in Pending : e \in batch \/ e \in Pending'
      /\ First \subseteq batch /\ batch \subseteq Tidings /\ queue' \in Seq(SUBSET Tidings)
  BY <1>2, TakenFacts
<1>4. /\ Maps' = foundWds' /\ Maps = wds /\ Active /\ Active' /\ ~Scanning /\ Scanning'
      /\ todo = {} /\ (Afresh => Afresh')
  <2>1. Afresh => Afresh'
    BY <1>3 DEF Afresh
  <2>2. QED
    BY <1>1, <2>1 DEF Maps, Active, Scanning, IInv, ScanInv
<1>5. paths \subseteq Paths /\ paths \subseteq PathSeq /\ \A s, t \in paths : IsPrefix(s, t) => s = t
  <2>1. Affected(batch) \subseteq Paths
    BY <1>2, <1>3, AffectedFacts
  <2>2. paths \subseteq Affected(batch)
    BY DEF Selected
  <2>3. \A s, t \in paths : IsPrefix(s, t) => s = t
    BY DEF Selected
  <2>4. QED
    BY <2>1, <2>2, <2>3, PathsAre
<1>6. ASSUME NEW q \in PathSeq, Told(batch, wds, q) PROVE Under(q, paths)
  <2>1. PICK a \in Affected(batch) : IsPrefix(a, q)
    BY <1>2, <1>3, <1>6, AffectedFacts
  <2>2. Affected(batch) \subseteq PathSeq
    BY <1>2, <1>3, AffectedFacts, PathsAre
  <2>3. PICK s \in paths : IsPrefix(s, a)
    BY <2>1, <2>2, SelectedAbove
  <2>4. IsPrefix(s, q)
    BY <1>5, <1>6, <2>1, <2>2, <2>3, PrefixTransitive
  <2>5. QED
    BY <2>3, <2>4 DEF Under
<1>7. \A w \in gone : w[2] # <<>>
  <2>1. SUFFICES ASSUME NEW w \in gone, w[2] = <<>> PROVE FALSE
    OBVIOUS
  <2>2. PICK s \in paths : IsPrefix(s, <<>>)
    BY <1>0, <2>1 DEF Under
  <2>3. s = <<>>
    BY <1>5, <2>2, PrefixLength, EmptySeq DEF PathSeq
  <2>4. <<>> \in Affected(batch)
    BY <2>2, <2>3 DEF Selected
  <2>5. PICK e \in batch, v \in wds : e[1] = v[1] /\ e[2] # IgnoreFile /\ <<>> = About(e, v[2])
    BY <1>2, <1>3, <2>4, AffectedFacts
  <2>6. e \in Tidings /\ e[1] # 0 /\ v[2] \in PathSeq
    BY <1>2, <1>3, <2>5, PathsAre DEF TypeInv
  <2>7. e[2] = Self
    BY <2>5, <2>6, AboutPath
  <2>8. v[2] = <<>>
    BY <2>5, <2>7 DEF About
  <2>9. v[1] = 1
    BY <1>4, <2>8 DEF IInv, RootInv
  <2>10. e \in Pending
    BY <1>2, <2>5, TakenFacts
  <2>11. QED
    BY <2>5, <2>7, <2>9, <2>10 DEF IInv, RootInv
<1>8. DropFacts(gone)
  <2>1. gone \subseteq Maps
    BY <1>0, <1>4
  <2>2. QED
    BY <1>1, <1>4, <2>1, Dropped
<1>9. /\ wdOf' \in [Nodes -> Nat]
      /\ \A d \in Nodes : wdOf'[d] # 0 => wdOf'[d] = wdOf[d]
      /\ \A d, e \in Nodes : d # e /\ wdOf'[d] # 0 => wdOf'[d] # wdOf'[e]
      /\ \A d \in Nodes : wdOf'[d] < nextWd
      /\ \A d \in Nodes : wdOf'[d] # 0 => \E w \in foundWds' : w[1] = wdOf'[d]
      /\ \A w \in foundWds', d \in Nodes : wdOf[d] = w[1] => wdOf'[d] = wdOf[d]
      /\ wdOf'[Root] = 1
  BY <1>1, <1>4, <1>7, <1>8 DEF DropFacts
<1>10. \A w : w \in foundWds' <=> w \in wds /\ ~Under(w[2], paths)
  BY <1>0, <1>1
<1>11. ASSUME NEW u \in todo' PROVE u[1] = "look" /\ u[2] \in paths /\ u = <<"look", u[2]>>
  BY <1>1
<1>12. \A s \in paths : <<"look", s>> \in todo'
  BY <1>1
<1>13. TypeInv'
  <2>1. todo' \subseteq ({"look", "watch", "list"} \X Paths)
    BY <1>1, <1>5
  <2>2. found' \subseteq (Paths \X {"dir", "file"})
    BY <1>1, <1>2 DEF TypeInv
  <2>3. /\ foundWds' \subseteq ((Nat \ {0}) \X Paths)
        /\ \A w \in wds \cup foundWds' : Len(w[2]) <= Cardinality(Dirs)
    BY <1>2, <1>10 DEF TypeInv
  <2>4. seen' \subseteq Nodes \cup {None}
    <3>1. \A w \in wds : Dir(w[2]) \in Nodes \cup {None}
      BY <1>2, PathsAre, Walks, WalkType, ConstantTypes DEF TypeInv
    <3>2. QED
      BY <1>1, <3>1
  <2>5. QED
    BY <1>1, <1>2, <1>3, <1>9, <2>1, <2>2, <2>3, <2>4 DEF TypeInv, Disk
<1>14. WatchInv'
  <2>1. WatchInv
    BY DEF IInv
  <2>2. Pairs(wds)' /\ Pairs(foundWds)'
    BY <1>1, <1>10, <2>1 DEF WatchInv, Pairs
  <2>3. \A w \in foundWds' : w[1] < nextWd'
    BY <1>1, <1>10, <2>1 DEF WatchInv
  <2>4. phase' # "idle"
    BY <1>1
  <2>5. QED
    BY <1>1, <1>4, <1>9, <2>2, <2>3, <2>4 DEF WatchInv
<1>15. RootInv'
  <2>1. \A w \in Maps' : w[1] = 1 <=> w[2] = <<>>
    BY <1>4, <1>10 DEF IInv, RootInv
  <2>2. \A e \in Pending' : e[2] = Self => e[1] # 1
    BY <1>3 DEF IInv, RootInv
  <2>3. QED
    BY <1>1, <1>9, <2>1, <2>2 DEF RootInv
<1>16. ScanInv'
  <2>1. ScanInv
    BY DEF IInv
  <2>2. \A t, u \in todo' : IsPrefix(t[2], u[2]) => t = u
    BY <1>5, <1>11
  <2>3. \A t \in todo', w \in foundWds' : ~IsPrefix(t[2], w[2])
    BY <1>10, <1>11 DEF Under
  <2>4. \A t \in todo', e \in found' : ~IsPrefix(t[2], e[1])
    BY <1>1, <1>11 DEF Under
  <2>5. \A w \in foundWds' : ~Excluded(spec', w[2])
    BY <1>1, <1>10, <2>1 DEF ScanInv
  <2>6. \A t \in todo' : t[1] = "look"
    BY <1>11
  <2>7. QED
    BY <1>1, <2>2, <2>3, <2>4, <2>5, <2>6 DEF ScanInv
<1>17. ASSUME ~raced', ~Afresh' PROVE ExactInv /\ MoveInv /\ spec = ignoring
  BY <1>1, <1>4, <1>17 DEF IInv, FollowInv
<1>18. ASSUME ~raced', ~Afresh' PROVE ExactInv'
  <2>1. SUFFICES ASSUME NEW q \in Paths, ~Covered(q)' PROVE Exact(q)'
    BY DEF ExactInv
  <2>2. q \in PathSeq
    BY PathsAre
  <2>3. ~Under(q, paths)
    <3>1. SUFFICES ASSUME NEW s \in paths, IsPrefix(s, q) PROVE FALSE
      BY DEF Under
    <3>2. <<"look", s>>[1] # "list" /\ <<"look", s>>[2] = s
      OBVIOUS
    <3>3. QED
      BY <1>12, <2>1, <3>1, <3>2 DEF Covered, Tasked
  <2>4. ~Covered(q)
    <3>1. SUFFICES ASSUME Told(Pending, wds, q) PROVE FALSE
      BY <1>4 DEF Covered, Tasked
    <3>2. PICK e \in Pending, w \in wds :
              e[1] = w[1] /\ e[2] \in Names /\ IsPrefix(About(e, w[2]), q)
      BY <3>1 DEF Told
    <3>3. e \notin batch
      BY <1>6, <2>2, <2>3, <3>2 DEF Told
    <3>4. e \in Pending'
      BY <1>3, <3>3
    <3>5. Under(w[2], paths)
      BY <1>4, <1>10, <2>1, <3>2, <3>4 DEF Covered, Told
    <3>6. PICK s \in paths : IsPrefix(s, w[2])
      BY <3>5 DEF Under
    <3>7. e \in Tidings /\ e[1] # 0 /\ e[2] # IgnoreFile /\ w[2] \in PathSeq
      <4>1. Pending \subseteq Tidings
        BY <1>2, KindsNow DEF Kinds
      <4>2. QED
        BY <1>2, <3>2, <4>1, PathsAre, ConstantTypes DEF TypeInv
    <3>8. IsPrefix(w[2], About(e, w[2])) /\ About(e, w[2]) \in PathSeq
      BY <3>7, AboutPath
    <3>9. IsPrefix(s, q)
      <4>1. IsPrefix(s, About(e, w[2]))
        BY <1>5, <3>6, <3>7, <3>8, PrefixTransitive
      <4>2. QED
        BY <1>5, <2>2, <3>2, <3>8, <4>1, PrefixTransitive
    <3>10. QED
      BY <2>3, <3>9 DEF Under
  <2>5. Exact(q)
    BY <1>17, <1>18, <2>4 DEF ExactInv
  <2>6. /\ (<<q, "dir">> \in Shown' <=> <<q, "dir">> \in Shown)
        /\ (<<q, "file">> \in Shown' <=> <<q, "file">> \in Shown)
    <3>1. ShowsFound'
      BY <1>4, <1>13, ShownNext
    <3>2. <<"list", q>> \notin todo'
      BY <1>11
    <3>3. \A k : <<q, k>> \in found' <=> <<q, k>> \in entries
      BY <1>1, <2>3
    <3>4. Shown = entries
      BY <1>4 DEF Shown
    <3>5. QED
      BY <3>1, <3>2, <3>3, <3>4 DEF ShowsFound
  <2>7. ASSUME NEW w, w[2] = q PROVE w \in Maps' <=> w \in Maps
    BY <1>4, <1>10, <2>3, <2>7
  <2>8. ASSUME Dir(q) # None PROVE Dir(q) \in Nodes
    BY <1>2, <2>2, <2>8, Walks, WalkType, ConstantTypes DEF TypeInv
  <2>9. ASSUME Dir(q) # None, ~Excluded(spec, q)
        PROVE  wdOf'[Dir(q)] # 0 /\ <<wdOf'[Dir(q)], q>> \in Maps'
    <3>1. wdOf[Dir(q)] # 0 /\ <<wdOf[Dir(q)], q>> \in Maps
      BY <2>5, <2>9 DEF Exact
    <3>2. <<wdOf[Dir(q)], q>> \in Maps'
      BY <2>7, <3>1
    <3>3. wdOf'[Dir(q)] = wdOf[Dir(q)]
      BY <1>4, <1>9, <2>8, <2>9, <3>2
    <3>4. QED
      BY <3>1, <3>2, <3>3
  <2>10. ASSUME NEW w \in Maps', w[2] = q PROVE Dir(q) # None /\ wdOf'[Dir(q)] = w[1]
    <3>1. Dir(q) # None /\ wdOf[Dir(q)] = w[1]
      BY <2>5, <2>7, <2>10 DEF Exact
    <3>2. QED
      BY <1>4, <1>9, <2>8, <2>10, <3>1
  <2>11. QED
    BY <1>1, <1>2, <2>5, <2>6, <2>9, <2>10 DEF Exact
<1>19. ASSUME ~raced', ~Afresh' PROVE MoveInv'
  <2>1. SUFFICES ASSUME NEW w \in foundWds', NEW q \in Paths, Dir(q) # None, wdOf'[Dir(q)] = w[1]
                 PROVE  q = w[2] \/ Excluded(spec, q)
    BY <1>1, <1>2, <1>4 DEF MoveInv
  <2>2. w \in wds /\ w[1] # 0 /\ w[2] \in PathSeq /\ ~Under(w[2], paths)
    BY <1>2, <1>10, PathsAre DEF TypeInv
  <2>3. Dir(q) \in Nodes
    BY <1>2, <2>1, PathsAre, Walks, WalkType, ConstantTypes DEF TypeInv
  <2>4. wdOf[Dir(q)] = w[1]
    BY <1>9, <2>1, <2>2, <2>3
  <2>5. \/ q = w[2] \/ Excluded(spec, q)
        \/ Told(First, wds, w[2])
    BY <1>4, <1>17, <1>19, <2>1, <2>2, <2>4 DEF MoveInv
  <2>6. Told(First, wds, w[2]) => Told(batch, wds, w[2])
    BY <1>3 DEF Told
  <2>7. QED
    BY <1>6, <2>2, <2>5, <2>6
<1>20. SeenInv'
  <2>1. SUFFICES ASSUME NEW q \in Paths, Dir(q) # None, Dir(q) \in seen'
                 PROVE  \E w \in Maps' : w[2] = q
    BY <1>2 DEF SeenInv
  <2>2. PICK w \in wds \ gone : Dir(q) = Dir(w[2])
    BY <1>1, <2>1
  <2>3. w \in Maps' /\ w[2] \in PathSeq /\ q \in PathSeq
    BY <1>1, <1>2, <1>4, <2>2, PathsAre DEF TypeInv
  <2>4. q = w[2]
    BY <1>2, <2>1, <2>2, <2>3, Walks, SamePath DEF TypeInv
  <2>5. QED
    BY <2>3, <2>4
<1>21. QED
  BY <1>1, <1>4, <1>13, <1>14, <1>15, <1>16, <1>17, <1>18, <1>19, <1>20 DEF IInv, FollowInv

\* A batch ends the tree, rebuilds it, is reconciled, or was about nothing.
LEMMA ProcessBatchKeeps ==
    ASSUME IInv, NEW n \in 1 .. Len(queue), ProcessBatch(n) PROVE IInv'
<1>1. PICK batch : batch = UNION {queue[i] : i \in 1 .. n}
  OBVIOUS
<1>2. PICK paths : paths = Selected(Affected(batch))
  OBVIOUS
<1>3. /\ phase = "idle" /\ UNCHANGED <<diskVars, treeVars, raced>>
      /\ \/ phase' = "invalid" /\ UNCHANGED <<queue, inotifyVars, scanVars>>
         \/ StartRebuild
         \/ /\ Overflow \notin batch /\ \A e \in batch : e[2] # IgnoreFile
            /\ queue' = SubSeq(queue, n + 1, Len(queue))
            /\ IF paths = {} THEN UNCHANGED <<phase, inotifyVars, scanVars>>
               ELSE StartReconcile(paths)
  BY <1>1, <1>2 DEF ProcessBatch
<1>4. CASE phase' = "invalid" /\ UNCHANGED <<queue, inotifyVars, scanVars>>
  BY <1>3, <1>4, InvalidKeeps
<1>5. CASE StartRebuild
  BY <1>3, <1>5, StartRebuildKeeps
<1>6. CASE /\ Overflow \notin batch /\ \A e \in batch : e[2] # IgnoreFile
           /\ queue' = SubSeq(queue, n + 1, Len(queue))
           /\ IF paths = {} THEN UNCHANGED <<phase, inotifyVars, scanVars>>
              ELSE StartReconcile(paths)
  <2>1. \A e \in batch : e # Overflow /\ e[2] # IgnoreFile
    BY <1>6
  <2>2. CASE paths = {} /\ UNCHANGED <<phase, inotifyVars, scanVars>>
    <3>1. Taken(n, batch) /\ UNCHANGED <<wdOf, nextWd>>
      BY <1>1, <1>6, <2>2 DEF Taken, inotifyVars
    <3>2. Affected(batch) = {}
      <4>1. Affected(batch) \subseteq PathSeq
        BY <3>1, TakenFacts, AffectedFacts, PathsAre DEF IInv
      <4>2. QED
        BY <1>2, <2>2, <4>1, SelectedAbove
    <3>3. QED
      BY <1>3, <2>1, <2>2, <3>1, <3>2, NothingAffected
  <2>3. CASE StartReconcile(paths)
    <3>1. Taken(n, batch)
      BY <1>1, <1>6, <2>3 DEF Taken, StartReconcile
    <3>2. QED
      BY <1>2, <1>3, <2>1, <2>3, <3>1, ReconcileKeeps
  <2>4. QED
    BY <1>6, <2>2, <2>3
<1>7. QED
  BY <1>3, <1>4, <1>5, <1>6

\* A scan that fails ends the tree.
LEMMA WatchFailsKeeps ==
    ASSUME IInv, NEW p, WatchFails(p) PROVE IInv'
<1>1. /\ <<"watch", p>> \in todo /\ phase' = "invalid" /\ ScanEnds
      /\ UNCHANGED <<diskVars, inotifyVars, queue, treeVars, raced>>
  BY DEF WatchFails
<1>2. phase # "opening"
  BY <1>1, TaskFacts DEF Scanning
<1>3. QED
  BY <1>1, <1>2, InvalidKeeps

\* A stuttering step.
LEMMA Unchanged ==
    ASSUME IInv, UNCHANGED vars PROVE IInv'
<1>1. /\ UNCHANGED <<diskVars, scanVars, raced>>
      /\ UNCHANGED <<place, files, ignoring, changes, wdOf, nextWd, kernel, phase, queue>>
      /\ UNCHANGED <<entries, wds, spec, view, todo, found, foundWds, seen, raced>>
  BY DEF vars, diskVars, inotifyVars, treeVars, scanVars
<1>2. \A p : Dir(p)' = Dir(p) /\ (IsFile(p)' <=> IsFile(p))
  BY <1>1, DiskKept
<1>3. /\ Pending' = Pending /\ First' = First /\ Maps' = Maps /\ Shown' = Shown
      /\ (Active <=> Active') /\ (Scanning <=> Scanning') /\ (Afresh <=> Afresh')
  BY <1>1 DEF Pending, First, Maps, Shown, Active, Scanning, Afresh
<1>4. \A q : Covered(q)' <=> Covered(q)
  BY <1>1, <1>3 DEF Covered
<1>5. TypeInv'
  BY <1>1 DEF IInv, TypeInv, Disk
<1>6. WatchInv' /\ RootInv' /\ ScanInv'
  BY <1>1, <1>3 DEF IInv, WatchInv, Pairs, RootInv, ScanInv
<1>7. ASSUME ~raced, ~Afresh PROVE ExactInv' /\ MoveInv' /\ SeenInv'
  <2>1. ExactInv /\ MoveInv /\ SeenInv
    BY <1>7 DEF IInv, FollowInv
  <2>2. ExactInv'
    BY <1>1, <1>2, <1>3, <1>4, <2>1 DEF ExactInv, Exact
  <2>3. MoveInv' /\ SeenInv'
    BY <1>1, <1>2, <1>3, <2>1 DEF MoveInv, SeenInv
  <2>4. QED
    BY <2>2, <2>3
<1>8. QED
  BY <1>1, <1>3, <1>5, <1>6, <1>7 DEF IInv, FollowInv

\* Every step keeps the invariant.
LEMMA NextKeeps == IInv /\ [Next]_vars => IInv'
<1> SUFFICES ASSUME IInv, [Next]_vars PROVE IInv'
  OBVIOUS
<1>1. CASE Changes
  <2>1. ASSUME NEW at \in Places, ChangeFile(at) PROVE IInv'
    BY <2>1, ChangeFileKeeps
  <2>2. ASSUME NEW d \in Dirs, NEW at \in Places, Appear(d, at) PROVE IInv'
    BY <2>2, AppearKeeps
  <2>3. ASSUME NEW d \in Dirs, NEW at \in Places, Rename(d, at) PROVE IInv'
    BY <2>3, RenameKeeps
  <2>4. ASSUME NEW d \in Dirs, MoveOut(d) \/ RemoveDir(d) PROVE IInv'
    BY <2>4, MoveOutKeeps
  <2>5. CASE ChangeIgnoreFile
    BY <2>5, ChangeIgnoreFileKeeps
  <2>6. QED
    BY <1>1, <2>1, <2>2, <2>3, <2>4, <2>5 DEF Changes
<1>2. CASE Tree
  <2>1. CASE ReadReady
    BY <2>1, ReadReadyKeeps
  <2>2. CASE WatchRoot
    BY <2>2, WatchRootKeeps
  <2>3. CASE CompileIgnore
    BY <2>3, CompileIgnoreKeeps
  <2>4. CASE Patch
    BY <2>4, PatchKeeps
  <2>5. CASE Snapshot
    BY <2>5, SnapshotKeeps
  <2>6. ASSUME NEW n \in 1 .. Len(queue), ProcessBatch(n) PROVE IInv'
    BY <2>6, ProcessBatchKeeps
  <2>7. ASSUME NEW p, Look(p) PROVE IInv'
    BY <2>7, LookKeeps
  <2>8. ASSUME NEW p, Watch(p) PROVE IInv'
    BY <2>8, WatchKeeps
  <2>9. ASSUME NEW p, WatchFails(p) PROVE IInv'
    BY <2>9, WatchFailsKeeps
  <2>10. ASSUME NEW p, List(p) PROVE IInv'
    BY <2>10, ListKeeps
  <2>11. QED
    BY <1>2, <2>1, <2>2, <2>3, <2>4, <2>5, <2>6, <2>7, <2>8, <2>9, <2>10 DEF Tree
<1>3. CASE UNCHANGED vars
  BY <1>3, Unchanged
<1>4. QED
  BY <1>1, <1>2, <1>3 DEF Next

\* The invariant holds in every state.
LEMMA Invariant == Spec => []IInv
<1>1. Init => IInv
  BY InitFollows
<1>2. IInv /\ [Next]_vars => IInv'
  BY NextKeeps
<1>3. QED
  BY <1>1, <1>2, PTL DEF Spec

-----------------------------------------------------------------------------
(* The theorems *)

\* Every variable has a value the code can give it.
THEOREM Types == Spec => []TypeOK
<1>1. IInv => TypeOK
  BY TypesFollow DEF IInv
<1>2. QED
  BY <1>1, Invariant, PTL

\* Whatever changes on the disk between the system calls of the scans and the events
\* that are read in batches of any size: when nothing is left to read or to do, a
\* client sees the disk, unless the race of ConvergedUnlessRaced has occurred.
THEOREM FollowsTheDisk == Spec => []ConvergedUnlessRaced
<1>1. IInv => ConvergedUnlessRaced
  BY ConvergedFollows
<1>2. QED
  BY <1>1, Invariant, PTL

\* A descriptor has one path and a path one descriptor, always; and when nothing is
\* left to do every directory the client sees is watched by its path, and no watch is
\* left over.
THEOREM WatchesAreExact == Spec => []WatchesExact
<1>1. IInv => WatchesExact
  BY WatchesFollow
<1>2. QED
  BY <1>1, Invariant, PTL
=============================================================================
