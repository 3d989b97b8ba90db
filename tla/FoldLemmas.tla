----------------------------- MODULE FoldLemmas -----------------------------
(***************************************************************************)
(* What the folds of the community modules compute, for every finite set   *)
(* and every sequence.                                                     *)
(***************************************************************************)
EXTENDS SequencesExt, Integers, FiniteSetTheorems, WellFoundedInduction, TLAPS

(* Least elements stand in for induction. *)

\* A non-empty set of numbers has a least element.
LEMMA LeastNumber ==
    ASSUME NEW T \in SUBSET Nat, T # {}
    PROVE  \E n \in T : \A m \in T : n <= m
<1> DEFINE R == {ss \in Nat \X Nat : ss[1] < ss[2]}
<1>1. IsWellFoundedOn(R, Nat)
  BY NatLessThanWellFounded DEF OpToRel
<1>2. PICK n \in T : \A m \in T : <<m, n>> \notin R
  <2> HIDE DEF R
  <2> QED BY <1>1, WFMin
<1>3. ASSUME NEW m \in T PROVE n <= m
  <2>1. n \in Nat /\ m \in Nat /\ <<m, n>> \in Nat \X Nat
    BY <1>3
  <2>2. ~(m < n)
    BY <1>2, <1>3, <2>1
  <2>3. QED
    BY <2>1, <2>2
<1>4. QED
  BY <1>3

\* A set that has 0, and with each number the next one up to n, has all up to n.
LEMMA Upward ==
    ASSUME NEW n \in Nat, NEW T, 0 \in T, \A i \in 1 .. n : i - 1 \in T => i \in T
    PROVE  0 .. n \subseteq T
<1> DEFINE Bad == {i \in 0 .. n : i \notin T}
<1>1. SUFFICES ASSUME Bad # {} PROVE FALSE
  OBVIOUS
<1>2. Bad \in SUBSET Nat
  OBVIOUS
<1>3. PICK i \in Bad : \A m \in Bad : i <= m
  <2> HIDE DEF Bad
  <2> QED BY <1>1, <1>2, LeastNumber
<1>4. i \in 1 .. n /\ i - 1 \in 0 .. n /\ ~(i <= i - 1) /\ i \notin T
  BY <1>3
<1>5. i - 1 \in T
  BY <1>3, <1>4
<1>6. QED
  BY <1>4, <1>5

\* A non-empty set of subsets of a finite set has a minimal one.
LEMMA MinimalSubset ==
    ASSUME NEW S, IsFiniteSet(S), NEW C \in SUBSET SUBSET S, C # {}
    PROVE  \E T \in C : \A U \in C : U \subseteq T => U = T
<1> DEFINE N == {Cardinality(T) : T \in C}
<1>1. \A T \in C : IsFiniteSet(T) /\ Cardinality(T) \in Nat
  BY FS_Subset, FS_CardinalityType
<1>2. N \in SUBSET Nat /\ N # {}
  BY <1>1
<1>3. PICK n \in N : \A m \in N : n <= m
  <2> HIDE DEF N
  <2> QED BY <1>2, LeastNumber
<1>4. PICK T \in C : Cardinality(T) = n
  BY <1>3
<1>5. ASSUME NEW U \in C, U \subseteq T PROVE U = T
  <2>1. Cardinality(T) <= Cardinality(U)
    BY <1>3, <1>4
  <2>2. Cardinality(U) <= Cardinality(T) /\ (Cardinality(U) = Cardinality(T) => U = T)
    BY <1>1, <1>5, FS_Subset
  <2>3. QED
    BY <1>1, <2>1, <2>2
<1>6. QED
  BY <1>5

-----------------------------------------------------------------------------
(* Recursion over the subsets of a finite set *)

\* g folds the subsets of T: an empty one gives base, and of another the element
\* that c picks is combined by h with the fold of the rest.
FoldsSubsets(g, T, base, c, h) ==
    \A U \in SUBSET T : g[U] = IF U = {} THEN base ELSE h[<<c[U], g[U \ {c[U]}]>>]

\* Two such functions agree.
LEMMA FoldUnique ==
    ASSUME NEW S, IsFiniteSet(S), NEW base, NEW h,
           NEW c, \A U \in SUBSET S : U # {} => c[U] \in U,
           NEW T \in SUBSET S, NEW V \in SUBSET T, NEW f, NEW g,
           FoldsSubsets(f, T, base, c, h), FoldsSubsets(g, V, base, c, h)
    PROVE  \A U \in SUBSET V : f[U] = g[U]
<1> DEFINE C == {U \in SUBSET V : f[U] # g[U]}
<1>1. SUFFICES ASSUME C # {} PROVE FALSE
  OBVIOUS
<1>2. C \in SUBSET SUBSET S
  OBVIOUS
<1>3. PICK U \in C : \A W \in C : W \subseteq U => W = U
  <2> HIDE DEF C
  <2> QED BY <1>1, <1>2, MinimalSubset
<1>4. U # {}
  BY <1>3 DEF FoldsSubsets
<1>5. c[U] \in U /\ U \ {c[U]} \in SUBSET V /\ U \ {c[U]} # U
  BY <1>3, <1>4
<1>6. f[U \ {c[U]}] = g[U \ {c[U]}]
  BY <1>3, <1>5
<1>7. f[U] = g[U]
  BY <1>3, <1>4, <1>5, <1>6 DEF FoldsSubsets
<1>8. QED
  BY <1>3, <1>7

\* There is one for every finite set.
LEMMA FoldExists ==
    ASSUME NEW S, IsFiniteSet(S), NEW D, NEW base \in D, NEW h \in [S \X D -> D],
           NEW c, \A U \in SUBSET S : U # {} => c[U] \in U
    PROVE  \E g \in [SUBSET S -> D] : FoldsSubsets(g, S, base, c, h)
<1> DEFINE P(T) == \E g \in [SUBSET T -> D] : FoldsSubsets(g, T, base, c, h)
           C == {T \in SUBSET S : ~P(T)}
           sol(T) == CHOOSE g \in [SUBSET T -> D] : FoldsSubsets(g, T, base, c, h)
<1>1. SUFFICES ASSUME C # {} PROVE FALSE
  OBVIOUS
<1>2. C \in SUBSET SUBSET S
  OBVIOUS
<1>3. PICK T \in C : \A W \in C : W \subseteq T => W = T
  <2> HIDE DEF C
  <2> QED BY <1>1, <1>2, MinimalSubset
<1>4. \A W \in SUBSET T : W # T => /\ sol(W) \in [SUBSET W -> D]
                                    /\ FoldsSubsets(sol(W), W, base, c, h)
  <2>1. ASSUME NEW W \in SUBSET T, W # T PROVE P(W)
    BY <1>3, <2>1
  <2>2. QED
    BY <2>1
<1> DEFINE rest(U) == U \ {c[U]}
           G == [U \in SUBSET T |->
                   IF U = {} THEN base ELSE h[<<c[U], sol(rest(U))[rest(U)]>>]]
<1>5. \A U \in SUBSET T : U # {} => /\ c[U] \in U /\ c[U] \in S /\ rest(U) \in SUBSET T
                                    /\ rest(U) # T /\ rest(U) # U /\ rest(U) \in SUBSET U
  BY <1>3
<1>6. \A W \in SUBSET T : W # T => G[W] = sol(W)[W] /\ sol(W)[W] \in D
  <2> SUFFICES ASSUME NEW W \in SUBSET T, W # T PROVE G[W] = sol(W)[W] /\ sol(W)[W] \in D
    OBVIOUS
  <2>1. sol(W) \in [SUBSET W -> D] /\ FoldsSubsets(sol(W), W, base, c, h)
    BY <1>4
  <2>2. sol(W)[W] \in D
    BY <2>1
  <2>3. CASE W = {}
    BY <2>1, <2>2, <2>3 DEF FoldsSubsets
  <2>4. CASE W # {}
    <3>1. FoldsSubsets(sol(rest(W)), rest(W), base, c, h)
      BY <1>4, <1>5, <2>4
    <3>2. W \in SUBSET S /\ rest(W) \in SUBSET W /\ rest(W) \in SUBSET rest(W)
      BY <1>5, <1>3, <2>4
    <3> HIDE DEF sol, rest
    <3>3. sol(W)[rest(W)] = sol(rest(W))[rest(W)]
      BY <2>1, <3>1, <3>2, FoldUnique
    <3>4. sol(W)[W] = h[<<c[W], sol(W)[rest(W)]>>]
      BY <2>1, <2>4 DEF FoldsSubsets, rest
    <3>5. QED
      BY <2>2, <2>4, <3>3, <3>4
  <2>5. QED
    BY <2>3, <2>4
<1> HIDE DEF sol
<1>7. G \in [SUBSET T -> D]
  <2> SUFFICES ASSUME NEW U \in SUBSET T, U # {}
               PROVE  h[<<c[U], sol(rest(U))[rest(U)]>>] \in D
    OBVIOUS
  <2>1. c[U] \in S /\ sol(rest(U))[rest(U)] \in D
    BY <1>5, <1>6
  <2>2. QED
    BY <2>1
<1>8. \A U \in SUBSET T : G[U] = IF U = {} THEN base ELSE h[<<c[U], G[rest(U)]>>]
  <2> SUFFICES ASSUME NEW U \in SUBSET T, U # {} PROVE G[U] = h[<<c[U], G[rest(U)]>>]
    OBVIOUS
  <2>1. G[rest(U)] = sol(rest(U))[rest(U)]
    BY <1>5, <1>6
  <2>2. QED
    BY <2>1
<1> HIDE DEF G
<1>9. FoldsSubsets(G, T, base, c, h)
  BY <1>7, <1>8 DEF FoldsSubsets
<1>10. QED
  BY <1>3, <1>7, <1>9
-----------------------------------------------------------------------------
(* Sequences, folded from the left *)

\* Max picks an element of a finite set of numbers, and the last of 1 .. n.
LEMMA MaxPicks ==
    ASSUME NEW n \in Nat
    PROVE  /\ \A U \in SUBSET (1 .. n) : U # {} => Max(U) \in U
           /\ n > 0 => Max(1 .. n) = n
<1>1. ASSUME NEW U \in SUBSET (1 .. n), U # {} PROVE Max(U) \in U
  <2> DEFINE T == {k \in 0 .. n : n - k \in U}
  <2>1. T \in SUBSET Nat
    OBVIOUS
  <2>2. T # {}
    <3>1. PICK u \in U : TRUE
      BY <1>1
    <3>2. u \in 1 .. n /\ n - u \in 0 .. n /\ n - (n - u) = u
      BY <3>1
    <3>3. QED
      BY <3>2
  <2>3. PICK k \in T : \A m \in T : k <= m
    <3> HIDE DEF T
    <3> QED BY <2>1, <2>2, LeastNumber
  <2>4. ASSUME NEW y \in U PROVE n - k >= y
    <3>1. y \in 1 .. n /\ n - y \in 0 .. n /\ n - (n - y) = y
      OBVIOUS
    <3>2. k <= n - y
      BY <3>1, <2>3
    <3>3. QED
      BY <3>1, <3>2, <2>3
  <2>5. \E x \in U : \A y \in U : x >= y
    BY <2>3, <2>4
  <2>6. QED
    BY <2>5 DEF Max
<1>2. ASSUME n > 0 PROVE Max(1 .. n) = n
  <2>1. \A x \in 1 .. n : (\A y \in 1 .. n : x >= y) <=> x = n
    BY <1>2
  <2>2. QED
    BY <1>2, <2>1 DEF Max
<1>3. QED
  BY <1>1, <1>2

\* g folds 1 .. n and its subsets from their least element on: h takes the state
\* before an element to the one after it.
FoldsUpTo(g, n, base, h) ==
    \A U \in SUBSET (1 .. n) :
       g[U] = IF U = {} THEN base ELSE h[<<Max(U), g[U \ {Max(U)}]>>]

\* There is such a fold.
LEMMA PrefixFolds ==
    ASSUME NEW n \in Nat, NEW D, NEW base \in D, NEW h \in [(1 .. n) \X D -> D]
    PROVE  \E g \in [SUBSET (1 .. n) -> D] : FoldsUpTo(g, n, base, h)
<1> DEFINE c == [U \in SUBSET (1 .. n) |-> Max(U)]
<1>1. \A U \in SUBSET (1 .. n) : U # {} => c[U] \in U
  BY MaxPicks
<1>2. IsFiniteSet(1 .. n)
  BY FS_Interval
<1>3. \E g \in [SUBSET (1 .. n) -> D] : FoldsSubsets(g, 1 .. n, base, c, h)
  <2> HIDE DEF c
  <2> QED BY <1>1, <1>2, FoldExists
<1>4. QED
  BY <1>3 DEF FoldsSubsets, FoldsUpTo

-----------------------------------------------------------------------------
(* Sums *)

\* The function that SumFunctionOnSet chooses.
IsSum(g, f, S) ==
    g = [U \in SUBSET S |-> IF U = {} THEN 0
                            ELSE LET x == CHOOSE x \in U : TRUE IN f[x] + g[U \ {x}]]

\* Two such functions agree.
LEMMA SumUnique ==
    ASSUME NEW S, IsFiniteSet(S), NEW V \in SUBSET S, NEW f, NEW g, NEW k,
           IsSum(g, f, S), IsSum(k, f, V)
    PROVE  \A U \in SUBSET V : g[U] = k[U]
<1> DEFINE C == {U \in SUBSET V : g[U] # k[U]}
           pick(U) == CHOOSE x \in U : TRUE
<1>1. SUFFICES ASSUME C # {} PROVE FALSE
  OBVIOUS
<1>2. C \in SUBSET SUBSET S
  OBVIOUS
<1>3. PICK U \in C : \A W \in C : W \subseteq U => W = U
  <2> HIDE DEF C
  <2> QED BY <1>1, <1>2, MinimalSubset
<1>4. U # {}
  <2>1. {} \in SUBSET S /\ {} \in SUBSET V
    OBVIOUS
  <2>2. g[{}] = 0 /\ k[{}] = 0
    BY <2>1 DEF IsSum
  <2>3. QED
    BY <1>3, <2>2
<1>5. /\ pick(U) \in U /\ U \ {pick(U)} \in SUBSET V /\ U \ {pick(U)} # U
      /\ U \in SUBSET V /\ U \in SUBSET S
  BY <1>3, <1>4
<1>6. g[U \ {pick(U)}] = k[U \ {pick(U)}]
  BY <1>3, <1>5
<1>7. g[U] = f[pick(U)] + g[U \ {pick(U)}]
  BY <1>4, <1>5 DEF IsSum
<1>8. k[U] = f[pick(U)] + k[U \ {pick(U)}]
  BY <1>4, <1>5 DEF IsSum
<1>9. QED
  BY <1>3, <1>6, <1>7, <1>8

\* It exists when f gives natural numbers, and so do its sums.
LEMMA SumExists ==
    ASSUME NEW S, IsFiniteSet(S), NEW f, \A x \in S : f[x] \in Nat
    PROVE  \E g \in [SUBSET S -> Nat] : IsSum(g, f, S) /\ SumFunctionOnSet(f, S) = g[S]
<1> DEFINE c == [U \in SUBSET S |-> CHOOSE x \in U : TRUE]
           h == [p \in S \X Nat |-> f[p[1]] + p[2]]
<1>1. \A U \in SUBSET S : U # {} => c[U] \in U
  OBVIOUS
<1>2. h \in [S \X Nat -> Nat]
  OBVIOUS
<1>3. PICK g \in [SUBSET S -> Nat] : FoldsSubsets(g, S, 0, c, h)
  <2> HIDE DEF c, h
  <2> QED BY <1>1, <1>2, FoldExists
<1>4. IsSum(g, f, S)
  <2>2. ASSUME NEW U \in SUBSET S, U # {}
        PROVE  g[U] = LET x == CHOOSE x \in U : TRUE IN f[x] + g[U \ {x}]
    BY <1>3, <2>2 DEF FoldsSubsets
  <2>3. g[{}] = 0
    BY <1>3 DEF FoldsSubsets
  <2>4. QED
    BY <1>3, <2>2, <2>3 DEF IsSum
<1> DEFINE k == CHOOSE k : IsSum(k, f, S)
<1>5. IsSum(k, f, S)
  BY <1>4
<1>6. SumFunctionOnSet(f, S) = k[S]
  BY DEF SumFunctionOnSet, FoldFunctionOnSet, MapThenFoldSet, IsSum
<1>7. k[S] = g[S]
  <2> HIDE DEF k
  <2>1. S \in SUBSET S
    OBVIOUS
  <2>2. QED
    BY <1>4, <1>5, <2>1, SumUnique
<1>8. QED
  BY <1>3, <1>4, <1>6, <1>7

\* The sum over a subset is one of the sums over the set.
LEMMA SumOfSubset ==
    ASSUME NEW S, IsFiniteSet(S), NEW f, \A x \in S : f[x] \in Nat,
           NEW g, IsSum(g, f, S), NEW V \in SUBSET S
    PROVE  SumFunctionOnSet(f, V) = g[V]
<1>1. IsFiniteSet(V)
  BY FS_Subset
<1>2. PICK k \in [SUBSET V -> Nat] : IsSum(k, f, V) /\ SumFunctionOnSet(f, V) = k[V]
  BY <1>1, SumExists
<1>3. V \in SUBSET V
  OBVIOUS
<1>4. QED
  BY <1>2, <1>3, SumUnique

\* A sum is a natural number, the empty one is zero, and any element can be
\* taken out of it.
LEMMA SumSplits ==
    ASSUME NEW S, IsFiniteSet(S), NEW f, \A x \in S : f[x] \in Nat
    PROVE  /\ SumFunctionOnSet(f, S) \in Nat
           /\ SumFunctionOnSet(f, {}) = 0
           /\ \A x \in S : SumFunctionOnSet(f, S) = f[x] + SumFunctionOnSet(f, S \ {x})
<1>1. PICK g \in [SUBSET S -> Nat] : IsSum(g, f, S) /\ SumFunctionOnSet(f, S) = g[S]
  BY SumExists
<1>2. \A V \in SUBSET S : SumFunctionOnSet(f, V) = g[V]
  BY <1>1, SumOfSubset
<1> DEFINE pick(U) == CHOOSE x \in U : TRUE
           C == {U \in SUBSET S : \E x \in U : g[U] # f[x] + g[U \ {x}]}
<1>3. \A U \in SUBSET S : U # {} => pick(U) \in U /\ g[U] = f[pick(U)] + g[U \ {pick(U)}]
  BY <1>1 DEF IsSum
<1>4. C = {}
  <2>1. SUFFICES ASSUME C # {} PROVE FALSE
    OBVIOUS
  <2>2. C \in SUBSET SUBSET S
    OBVIOUS
  <2>3. PICK U \in C : \A W \in C : W \subseteq U => W = U
    <3> HIDE DEF C
    <3> QED BY <2>1, <2>2, MinimalSubset
  <2>4. PICK x \in U : g[U] # f[x] + g[U \ {x}]
    BY <2>3
  <2> DEFINE p == pick(U)
  <2>5. p \in U /\ g[U] = f[p] + g[U \ {p}]
    BY <1>3, <2>3
  <2>6. p # x
    BY <2>4, <2>5
  <2>7. g[U \ {p}] = f[x] + g[(U \ {p}) \ {x}]
    <3>1. U \ {p} \in SUBSET S /\ U \ {p} # U /\ U \ {p} \subseteq U /\ x \in U \ {p}
      BY <2>5, <2>6
    <3>2. U \ {p} \notin C
      BY <3>1, <2>3
    <3>3. QED
      BY <3>1, <3>2
  <2>8. g[U \ {x}] = f[p] + g[(U \ {x}) \ {p}]
    <3>1. U \ {x} \in SUBSET S /\ U \ {x} # U /\ U \ {x} \subseteq U /\ p \in U \ {x}
      BY <2>5, <2>6
    <3>2. U \ {x} \notin C
      BY <3>1, <2>3
    <3>3. QED
      BY <3>1, <3>2
  <2>9. (U \ {p}) \ {x} = (U \ {x}) \ {p} /\ (U \ {x}) \ {p} \in SUBSET S
    BY <2>3
  <2>10. f[x] \in Nat /\ f[p] \in Nat /\ g[(U \ {x}) \ {p}] \in Nat
    BY <1>1, <2>5, <2>9
  <2>11. f[p] + (f[x] + g[(U \ {x}) \ {p}]) = f[x] + (f[p] + g[(U \ {x}) \ {p}])
    <3> HIDE DEF p
    <3> QED BY <2>10
  <2> HIDE DEF p, C
  <2>12. g[U] = f[p] + (f[x] + g[(U \ {x}) \ {p}])
    BY <2>5, <2>7, <2>9
  <2>13. QED
    BY <2>4, <2>8, <2>11, <2>12
<1>5. g[{}] = 0
  <2>1. {} \in SUBSET S
    OBVIOUS
  <2>2. QED
    BY <1>1, <2>1 DEF IsSum
<1>6. ASSUME NEW x \in S PROVE g[S] = f[x] + g[S \ {x}]
  BY <1>4
<1>7. QED
  BY <1>1, <1>2, <1>5, <1>6

\* It depends on the values at the elements of the set only.
LEMMA SumDepends ==
    ASSUME NEW S, IsFiniteSet(S), NEW e, NEW f, \A x \in S : f[x] \in Nat /\ e[x] = f[x]
    PROVE  SumFunctionOnSet(e, S) = SumFunctionOnSet(f, S)
<1>1. PICK g \in [SUBSET S -> Nat] : IsSum(g, f, S) /\ SumFunctionOnSet(f, S) = g[S]
  BY SumExists
<1>2. IsSum(g, e, S)
  BY <1>1 DEF IsSum
<1>3. \A x \in S : e[x] \in Nat
  OBVIOUS
<1>4. S \in SUBSET S
  OBVIOUS
<1>5. QED
  BY <1>1, <1>2, <1>3, <1>4, SumOfSubset

=============================================================================
