---------------------------- MODULE SumTheorems ----------------------------
(***************************************************************************)
(* What the proofs about aggregates need to know of SumFunctionOnSet: the  *)
(* sum over a finite set does not depend on the order in which it is taken.*)
(* The community modules define it by a fold that picks one element after  *)
(* the other; induction over that fold is done here once, as the choice of *)
(* a smallest set for which a claim fails.                                 *)
(***************************************************************************)
EXTENDS Integers, FiniteSetsExt, FiniteSetTheorems, WellFoundedInduction, TLAPS

Choice(s) == CHOOSE x \in s : TRUE

\* g is the function the fold of f over S is read off.
IsFold(g, f, S) ==
    g = [s \in SUBSET S |->
            IF s = {} THEN 0 ELSE f[Choice(s)] + g[s \ {Choice(s)}]]

\* Among subsets of a finite set that fail, one is smallest.
LEMMA SmallestSubset ==
    ASSUME NEW S, IsFiniteSet(S), NEW B \in SUBSET (SUBSET S), B # {}
    PROVE  \E T \in B : \A R \in B : R \subseteq T => R = T
  <1>1. IsWellFoundedOn(StrictSubsetOrdering(S), SUBSET S)
    BY FS_StrictSubsetOrderingWellFounded, FS_FiniteSubsetsOfFinite
  <1>2. PICK T \in B : \A R \in B : ~(<< R, T >> \in StrictSubsetOrdering(S))
    BY <1>1, WFMin
  <1>3. ASSUME NEW R \in B, R \subseteq T PROVE R = T
    BY <1>2, <1>3 DEF StrictSubsetOrdering
  <1>4. QED
    BY <1>3

LEMMA FoldUnique ==
    ASSUME NEW f, NEW S, NEW T, IsFiniteSet(S), NEW g, NEW h,
           IsFold(g, f, S), IsFold(h, f, T), NEW R, R \subseteq S, R \subseteq T
    PROVE  g[R] = h[R]
  <1> DEFINE B == {Q \in SUBSET S : Q \subseteq R /\ g[Q] # h[Q]}
  <1>1. SUFFICES ASSUME B # {} PROVE FALSE
    OBVIOUS
  <1>2. PICK Q \in B : \A P \in B : P \subseteq Q => P = Q
    <2>1. B \in SUBSET (SUBSET S)
      OBVIOUS
    <2> HIDE DEF B
    <2>2. QED
      BY <1>1, <2>1, SmallestSubset
  <1>3. Q # {}
    BY <1>2 DEF IsFold
  <1>4. Choice(Q) \in Q
    BY <1>3 DEF Choice
  <1>5. g[Q \ {Choice(Q)}] = h[Q \ {Choice(Q)}]
    BY <1>2, <1>4
  <1>6. /\ g[Q] = f[Choice(Q)] + g[Q \ {Choice(Q)}]
        /\ h[Q] = f[Choice(Q)] + h[Q \ {Choice(Q)}]
    BY <1>2, <1>3 DEF IsFold
  <1>7. QED
    BY <1>2, <1>5, <1>6

LEMMA FoldExists ==
    ASSUME NEW f, NEW S, IsFiniteSet(S)
    PROVE  \E g : IsFold(g, f, S)
  <1> DEFINE B == {Q \in SUBSET S : ~ \E g : IsFold(g, f, Q)}
  <1>1. SUFFICES ASSUME B # {} PROVE FALSE
    OBVIOUS
  <1>2. PICK T \in B : \A R \in B : R \subseteq T => R = T
    <2>1. B \in SUBSET (SUBSET S)
      OBVIOUS
    <2> HIDE DEF B
    <2>2. QED
      BY <1>1, <2>1, SmallestSubset
  <1> DEFINE G(R) == CHOOSE g : IsFold(g, f, R)
             V(R) == G(R)[R]
             h == [s \in SUBSET T |->
                      IF s = {} THEN 0
                      ELSE f[Choice(s)] + V(s \ {Choice(s)})]
  <1>3. ASSUME NEW R \in SUBSET T, R # T PROVE IsFold(G(R), f, R)
    BY <1>2, <1>3
  <1>4. ASSUME NEW R \in SUBSET T, R # T PROVE V(R) = h[R]
    <2>1. IsFold(G(R), f, R)
      BY <1>3, <1>4
    <2>2. CASE R = {}
      BY <2>1, <2>2 DEF IsFold
    <2>3. CASE R # {}
      <3>1. Choice(R) \in R
        BY <2>3 DEF Choice
      <3> DEFINE P == R \ {Choice(R)}
      <3>2. IsFold(G(P), f, P)
        BY <1>3, <1>4, <3>1
      <3>3. IsFiniteSet(R)
        BY FS_Subset, <1>2
      <3>4. G(R)[P] = G(P)[P]
        <4>1. P \subseteq R
          OBVIOUS
        <4> HIDE DEF G, P
        <4>2. QED
          BY <2>1, <3>2, <3>3, <4>1, FoldUnique
      <3>5. V(R) = f[Choice(R)] + G(R)[P]
        <4> HIDE DEF G
        <4>1. QED
          BY <2>1, <2>3 DEF IsFold
      <3>6. QED
        BY <2>3, <3>4, <3>5
    <2>4. QED
      BY <2>2, <2>3
  <1>5. ASSUME NEW s \in SUBSET T, s # {}
        PROVE  V(s \ {Choice(s)}) = h[s \ {Choice(s)}]
    <2>1. Choice(s) \in s
      BY <1>5 DEF Choice
    <2>2. s \ {Choice(s)} \in SUBSET T /\ s \ {Choice(s)} # T
      BY <2>1
    <2> HIDE DEF V, h
    <2>3. QED
      BY <1>4, <2>2
  <1>6. IsFold(h, f, T)
    <2> DEFINE k == [s \in SUBSET T |->
                  IF s = {} THEN 0 ELSE f[Choice(s)] + h[s \ {Choice(s)}]]
    <2>1. ASSUME NEW s \in SUBSET T PROVE h[s] = k[s]
      <3>1. CASE s = {}
        BY <3>1
      <3>2. CASE s # {}
        <4>1. V(s \ {Choice(s)}) = h[s \ {Choice(s)}]
          BY <1>5, <3>2
        <4>2. h[s] = f[Choice(s)] + V(s \ {Choice(s)})
          BY <3>2
        <4>3. k[s] = f[Choice(s)] + h[s \ {Choice(s)}]
          BY <3>2
        <4> HIDE DEF V, h, k
        <4>4. QED
          BY <4>1, <4>2, <4>3
      <3>3. QED
        BY <3>1, <3>2
    <2>2. h = [s \in SUBSET T |-> h[s]] /\ k = [s \in SUBSET T |-> k[s]]
      OBVIOUS
    <2>3. h = k
      <3> HIDE DEF h, k
      <3>1. QED
        BY <2>1, <2>2
    <2> HIDE DEF h
    <2>4. QED
      BY <2>3 DEF IsFold
  <1>7. QED
    BY <1>2, <1>6

LEMMA SumIsFold ==
    ASSUME NEW f, NEW S, IsFiniteSet(S)
    PROVE  \E g : IsFold(g, f, S) /\ SumFunctionOnSet(f, S) = g[S]
  <1>1. PICK h : IsFold(h, f, S)
    BY FoldExists
  <1>2. QED
    BY <1>1
    DEF SumFunctionOnSet, FoldFunctionOnSet, MapThenFoldSet, IsFold, Choice

-----------------------------------------------------------------------------

LEMMA SumEmpty == ASSUME NEW f PROVE SumFunctionOnSet(f, {}) = 0
  <1>1. PICK g : IsFold(g, f, {}) /\ SumFunctionOnSet(f, {}) = g[{}]
    BY SumIsFold, FS_EmptySet
  <1>2. QED
    BY <1>1 DEF IsFold

LEMMA SumChoice ==
    ASSUME NEW f, NEW S, IsFiniteSet(S), S # {}
    PROVE  /\ Choice(S) \in S
           /\ SumFunctionOnSet(f, S) =
                 f[Choice(S)] + SumFunctionOnSet(f, S \ {Choice(S)})
  <1>1. Choice(S) \in S
    BY DEF Choice
  <1> DEFINE P == S \ {Choice(S)}
  <1>2. IsFiniteSet(P) /\ P \subseteq S
    BY FS_Subset
  <1>3. PICK g : IsFold(g, f, S) /\ SumFunctionOnSet(f, S) = g[S]
    BY SumIsFold
  <1>4. PICK h : IsFold(h, f, P) /\ SumFunctionOnSet(f, P) = h[P]
    BY <1>2, SumIsFold
  <1>5. g[P] = h[P]
    BY <1>2, <1>3, <1>4, FoldUnique
  <1>6. g[S] = f[Choice(S)] + g[P]
    BY <1>3 DEF IsFold
  <1>7. QED
    BY <1>1, <1>3, <1>4, <1>5, <1>6

\* Sums of integers are integers, and of natural numbers natural numbers.
LEMMA SumType ==
    ASSUME NEW D \in {Nat, Int}, NEW f, NEW S, IsFiniteSet(S),
           \A x \in S : f[x] \in D
    PROVE  SumFunctionOnSet(f, S) \in D
  <1> DEFINE B == {Q \in SUBSET S : SumFunctionOnSet(f, Q) \notin D}
  <1>1. SUFFICES ASSUME B # {} PROVE FALSE
    OBVIOUS
  <1>2. PICK T \in B : \A R \in B : R \subseteq T => R = T
    <2>1. B \in SUBSET (SUBSET S)
      OBVIOUS
    <2> HIDE DEF B
    <2>2. QED
      BY <1>1, <2>1, SmallestSubset
  <1>3. T # {}
    <2>1. T = {} => SumFunctionOnSet(f, T) = 0
      BY SumEmpty
    <2>2. 0 \in D
      OBVIOUS
    <2>3. QED
      BY <1>2, <2>1, <2>2
  <1>4. IsFiniteSet(T)
    BY <1>2, FS_Subset
  <1>5. /\ Choice(T) \in T
        /\ SumFunctionOnSet(f, T) =
              f[Choice(T)] + SumFunctionOnSet(f, T \ {Choice(T)})
    BY <1>3, <1>4, SumChoice
  <1>6. SumFunctionOnSet(f, T \ {Choice(T)}) \in D
    BY <1>2, <1>5
  <1>7. f[Choice(T)] \in D
    BY <1>2, <1>5
  <1>8. QED
    BY <1>2, <1>5, <1>6, <1>7

\* Any element may be taken first.
LEMMA SumRemove ==
    ASSUME NEW f, NEW S, IsFiniteSet(S), \A x \in S : f[x] \in Int, NEW x \in S
    PROVE  SumFunctionOnSet(f, S) = f[x] + SumFunctionOnSet(f, S \ {x})
  <1> DEFINE Total(Q) == SumFunctionOnSet(f, Q)
             B == {Q \in SUBSET S :
                      \E y \in Q : Total(Q) # f[y] + Total(Q \ {y})}
  <1>0. ASSUME NEW Q \in SUBSET S
        PROVE  /\ IsFiniteSet(Q) /\ Total(Q) \in Int
               /\ Q # {} => /\ Choice(Q) \in Q
                           /\ Total(Q) = f[Choice(Q)] + Total(Q \ {Choice(Q)})
    BY FS_Subset, SumType, SumChoice
  <1>1. SUFFICES ASSUME B # {} PROVE FALSE
    OBVIOUS
  <1>2. PICK T \in B : \A R \in B : R \subseteq T => R = T
    <2>1. B \in SUBSET (SUBSET S)
      OBVIOUS
    <2> HIDE DEF B
    <2>2. QED
      BY <1>1, <2>1, SmallestSubset
  <1> HIDE DEF Total
  <1>3. PICK y \in T : Total(T) # f[y] + Total(T \ {y})
    BY <1>2
  <1>4. /\ Choice(T) \in T
        /\ Total(T) = f[Choice(T)] + Total(T \ {Choice(T)})
    BY <1>0, <1>2, <1>3
  <1>5. y # Choice(T)
    BY <1>3, <1>4
  <1>6. ASSUME NEW z \in T, NEW w \in T, w # z
        PROVE  Total(T \ {z}) = f[w] + Total((T \ {z}) \ {w})
    <2>1. T \ {z} \in SUBSET S /\ T \ {z} \notin B
      BY <1>2
    <2>2. QED
      BY <1>6, <2>1
  <1>7. /\ Total(T \ {Choice(T)}) = f[y] + Total((T \ {Choice(T)}) \ {y})
        /\ Total(T \ {y}) = f[Choice(T)] + Total((T \ {y}) \ {Choice(T)})
    BY <1>4, <1>5, <1>6
  <1>8. (T \ {Choice(T)}) \ {y} = (T \ {y}) \ {Choice(T)}
    OBVIOUS
  <1> DEFINE rest == Total((T \ {y}) \ {Choice(T)})
  <1>9. rest \in Int /\ f[y] \in Int /\ f[Choice(T)] \in Int
    BY <1>0, <1>2, <1>4
  <1>10. /\ Total(T) = f[Choice(T)] + (f[y] + rest)
         /\ Total(T \ {y}) = f[Choice(T)] + rest
    BY <1>4, <1>7, <1>8
  <1> HIDE DEF B, rest
  <1>11. QED
    BY <1>3, <1>9, <1>10

\* One more element.
LEMMA SumAdd ==
    ASSUME NEW f, NEW S, IsFiniteSet(S), NEW x, x \notin S,
           f[x] \in Int, \A y \in S : f[y] \in Int
    PROVE  SumFunctionOnSet(f, S \cup {x}) = SumFunctionOnSet(f, S) + f[x]
  <1>1. IsFiniteSet(S \cup {x}) /\ (S \cup {x}) \ {x} = S
    BY FS_AddElement
  <1>2. SumFunctionOnSet(f, S) \in Int
    BY SumType
  <1>3. SumFunctionOnSet(f, S \cup {x}) =
           f[x] + SumFunctionOnSet(f, (S \cup {x}) \ {x})
    BY <1>1, SumRemove
  <1>4. SumFunctionOnSet(f, (S \cup {x}) \ {x}) = SumFunctionOnSet(f, S)
    BY <1>1
  <1>5. QED
    BY <1>2, <1>3, <1>4

\* A part of the set and the rest of it.
LEMMA SumSplit ==
    ASSUME NEW f, NEW S, IsFiniteSet(S), \A x \in S : f[x] \in Int,
           NEW R \in SUBSET S
    PROVE  SumFunctionOnSet(f, S) =
              SumFunctionOnSet(f, R) + SumFunctionOnSet(f, S \ R)
  <1> DEFINE Total(Q) == SumFunctionOnSet(f, Q)
             B == {Q \in SUBSET S : Total(S) # Total(Q) + Total(S \ Q)}
  <1>0. \A Q \in SUBSET S : IsFiniteSet(Q) /\ Total(Q) \in Int
    BY FS_Subset, SumType
  <1>1. SUFFICES ASSUME B # {} PROVE FALSE
    OBVIOUS
  <1>2. PICK T \in B : \A Q \in B : Q \subseteq T => Q = T
    <2>1. B \in SUBSET (SUBSET S)
      OBVIOUS
    <2> HIDE DEF B
    <2>2. QED
      BY <1>1, <2>1, SmallestSubset
  <1>3. T # {}
    <2>1. Total({}) = 0 /\ S \ {} = S /\ Total(S) \in Int
      BY <1>0, SumEmpty
    <2> HIDE DEF Total
    <2>2. {} \notin B
      BY <2>1
    <2>3. QED
      BY <1>2, <2>2
  <1>4. PICK x \in T : TRUE
    BY <1>3
  <1> DEFINE P == T \ {x}
  <1>5. /\ T \in SUBSET S /\ P \in SUBSET S /\ P \subseteq T /\ P # T
        /\ x \in S \ P /\ (S \ P) \ {x} = S \ T
    BY <1>2, <1>4
  <1>6. Total(T) = f[x] + Total(P)
    BY <1>0, <1>4, <1>5, SumRemove
  <1>7. Total(S \ P) = f[x] + Total(S \ T)
    <2>1. IsFiniteSet(S \ P) /\ \A y \in S \ P : f[y] \in Int
      BY FS_Subset
    <2> HIDE DEF P
    <2>2. SumFunctionOnSet(f, S \ P) = f[x] + SumFunctionOnSet(f, (S \ P) \ {x})
      BY <1>5, <2>1, SumRemove
    <2>3. QED
      BY <1>5, <2>2
  <1>8. Total(P) \in Int /\ Total(S \ T) \in Int /\ f[x] \in Int
    BY <1>0, <1>5
  <1>9. P \notin B
    BY <1>2, <1>5
  <1> HIDE DEF P, Total
  <1>10. Total(S) = Total(P) + Total(S \ P)
    BY <1>5, <1>9
  <1>11. Total(S) # Total(T) + Total(S \ T)
    BY <1>2
  <1>12. QED
    BY <1>6, <1>7, <1>8, <1>10, <1>11

\* Functions that agree on a set have one sum over it.
LEMMA SumSame ==
    ASSUME NEW f, NEW g, NEW S, IsFiniteSet(S), \A x \in S : f[x] = g[x]
    PROVE  SumFunctionOnSet(f, S) = SumFunctionOnSet(g, S)
  <1> DEFINE B == {Q \in SUBSET S :
                      SumFunctionOnSet(f, Q) # SumFunctionOnSet(g, Q)}
  <1>1. SUFFICES ASSUME B # {} PROVE FALSE
    OBVIOUS
  <1>2. PICK T \in B : \A R \in B : R \subseteq T => R = T
    <2>1. B \in SUBSET (SUBSET S)
      OBVIOUS
    <2> HIDE DEF B
    <2>2. QED
      BY <1>1, <2>1, SmallestSubset
  <1>3. T # {}
    BY <1>2, SumEmpty
  <1>4. IsFiniteSet(T)
    BY <1>2, FS_Subset
  <1>5. /\ Choice(T) \in T
        /\ SumFunctionOnSet(f, T) =
              f[Choice(T)] + SumFunctionOnSet(f, T \ {Choice(T)})
        /\ SumFunctionOnSet(g, T) =
              g[Choice(T)] + SumFunctionOnSet(g, T \ {Choice(T)})
    BY <1>3, <1>4, SumChoice
  <1>6. SumFunctionOnSet(f, T \ {Choice(T)}) = SumFunctionOnSet(g, T \ {Choice(T)})
    BY <1>2, <1>5
  <1>7. QED
    BY <1>2, <1>5, <1>6

\* The sum of sums.
LEMMA SumOfBoth ==
    ASSUME NEW f, NEW g, NEW h, NEW S, IsFiniteSet(S),
           \A x \in S : f[x] \in Int /\ g[x] \in Int /\ h[x] = f[x] + g[x]
    PROVE  SumFunctionOnSet(h, S) =
              SumFunctionOnSet(f, S) + SumFunctionOnSet(g, S)
  <1> DEFINE B == {Q \in SUBSET S : SumFunctionOnSet(h, Q) #
                      SumFunctionOnSet(f, Q) + SumFunctionOnSet(g, Q)}
  <1>1. SUFFICES ASSUME B # {} PROVE FALSE
    OBVIOUS
  <1>2. PICK T \in B : \A R \in B : R \subseteq T => R = T
    <2>1. B \in SUBSET (SUBSET S)
      OBVIOUS
    <2> HIDE DEF B
    <2>2. QED
      BY <1>1, <2>1, SmallestSubset
  <1>3. T # {}
    <2>1. T = {} => /\ SumFunctionOnSet(f, T) = 0
                    /\ SumFunctionOnSet(g, T) = 0
                    /\ SumFunctionOnSet(h, T) = 0
      BY SumEmpty
    <2>2. QED
      BY <1>2, <2>1
  <1>4. IsFiniteSet(T) /\ IsFiniteSet(T \ {Choice(T)})
    BY <1>2, FS_Subset
  <1>5. /\ Choice(T) \in T
        /\ SumFunctionOnSet(f, T) =
              f[Choice(T)] + SumFunctionOnSet(f, T \ {Choice(T)})
        /\ SumFunctionOnSet(g, T) =
              g[Choice(T)] + SumFunctionOnSet(g, T \ {Choice(T)})
        /\ SumFunctionOnSet(h, T) =
              h[Choice(T)] + SumFunctionOnSet(h, T \ {Choice(T)})
    BY <1>3, <1>4, SumChoice
  <1>6. SumFunctionOnSet(h, T \ {Choice(T)}) =
           SumFunctionOnSet(f, T \ {Choice(T)})
              + SumFunctionOnSet(g, T \ {Choice(T)})
    BY <1>2, <1>5
  <1>7. /\ SumFunctionOnSet(f, T \ {Choice(T)}) \in Int
        /\ SumFunctionOnSet(g, T \ {Choice(T)}) \in Int
    BY <1>2, <1>4, SumType
  <1>8. h[Choice(T)] = f[Choice(T)] + g[Choice(T)]
        /\ f[Choice(T)] \in Int /\ g[Choice(T)] \in Int
    BY <1>2, <1>5
  <1>9. QED
    BY <1>2, <1>5, <1>6, <1>7, <1>8

\* A larger summand makes a sum that is at least as large.
LEMMA SumAtMost ==
    ASSUME NEW f, NEW g, NEW S, IsFiniteSet(S),
           \A x \in S : f[x] \in Int /\ g[x] \in Int /\ f[x] <= g[x]
    PROVE  SumFunctionOnSet(f, S) <= SumFunctionOnSet(g, S)
  <1> DEFINE d == [x \in S |-> g[x] - f[x]]
  <1>1. SumFunctionOnSet(g, S) =
           SumFunctionOnSet(f, S) + SumFunctionOnSet(d, S)
    <2>1. \A x \in S : f[x] \in Int /\ d[x] \in Int /\ g[x] = f[x] + d[x]
      OBVIOUS
    <2> HIDE DEF d
    <2>2. QED
      BY <2>1, SumOfBoth
  <1>2. SumFunctionOnSet(d, S) \in Nat
    <2>1. \A x \in S : d[x] \in Nat
      OBVIOUS
    <2> HIDE DEF d
    <2>2. QED
      BY <2>1, SumType
  <1>3. SumFunctionOnSet(f, S) \in Int
    BY SumType
  <1>4. QED
    BY <1>1, <1>2, <1>3

LEMMA DoubleOfItself ==
    ASSUME NEW n \in Int, n = n + n
    PROVE  n = 0
  OBVIOUS

\* Nothing adds up to nothing.
LEMMA SumZero ==
    ASSUME NEW f, NEW S, IsFiniteSet(S), \A x \in S : f[x] = 0
    PROVE  SumFunctionOnSet(f, S) = 0
  <1>1. \A x \in S : f[x] \in Int
    OBVIOUS
  <1>2. \A x \in S : f[x] = f[x] + f[x]
    OBVIOUS
  <1>3. SumFunctionOnSet(f, S) = SumFunctionOnSet(f, S) + SumFunctionOnSet(f, S)
    BY <1>1, <1>2, SumOfBoth
  <1>4. SumFunctionOnSet(f, S) \in Int
    BY <1>1, SumType
  <1>5. QED
    BY <1>3, <1>4, DoubleOfItself

\* The sum over all is the sum, over the groups, of the sums over each group:
\* what a dashboard relies on that adds up series by label.
LEMMA SumByGroup ==
    ASSUME NEW f, NEW S, IsFiniteSet(S), \A x \in S : f[x] \in Int,
           NEW key, NEW K, IsFiniteSet(K), \A x \in S : key[x] \in K,
           NEW g, \A k \in K : g[k] = SumFunctionOnSet(f, {x \in S : key[x] = k})
    PROVE  SumFunctionOnSet(g, K) = SumFunctionOnSet(f, S)
  <1> DEFINE Part(Q, k) == {x \in Q : key[x] = k}
             G(Q) == [k \in K |-> SumFunctionOnSet(f, Part(Q, k))]
             B == {Q \in SUBSET S :
                      SumFunctionOnSet(G(Q), K) # SumFunctionOnSet(f, Q)}
  <1>0. ASSUME NEW Q \in SUBSET S
        PROVE  /\ IsFiniteSet(Q)
               /\ \A k \in K : /\ IsFiniteSet(Part(Q, k))
                               /\ G(Q)[k] = SumFunctionOnSet(f, Part(Q, k))
                               /\ G(Q)[k] \in Int
    <2>1. IsFiniteSet(Q) /\ \A k \in K : IsFiniteSet(Part(Q, k))
      BY FS_Subset
    <2>2. \A k \in K : SumFunctionOnSet(f, Part(Q, k)) \in Int
      <3> TAKE k \in K
      <3>1. IsFiniteSet(Part(Q, k)) /\ \A x \in Part(Q, k) : f[x] \in Int
        BY <2>1
      <3> HIDE DEF Part
      <3>2. QED
        BY <3>1, SumType
    <2>3. QED
      BY <2>1, <2>2
  <1>1. ASSUME B # {} PROVE FALSE
    <2>1. PICK T \in B : \A R \in B : R \subseteq T => R = T
      <3>1. B \in SUBSET (SUBSET S)
        OBVIOUS
      <3> HIDE DEF B
      <3>2. QED
        BY <1>1, <3>1, SmallestSubset
    <2>2. T \in SUBSET S /\ SumFunctionOnSet(G(T), K) # SumFunctionOnSet(f, T)
      OBVIOUS
    <2>3. ASSUME T = {} PROVE FALSE
      <3>1. \A k \in K : Part(T, k) = {}
        BY <2>3
      <3>2. \A k \in K : G(T)[k] = 0
        BY <3>1, SumEmpty
      <3> HIDE DEF G
      <3>3. QED
        BY <2>2, <2>3, <3>2, SumEmpty, SumZero
    <2>4. PICK x \in T : TRUE
      BY <2>3
    <2> DEFINE R == T \ {x}
    <2>5. R \in SUBSET S /\ R \notin B
      BY <2>1, <2>2, <2>4
    <2>6. SumFunctionOnSet(G(R), K) = SumFunctionOnSet(f, R)
      BY <2>5
    <2>7. SumFunctionOnSet(f, T) = f[x] + SumFunctionOnSet(f, R)
      BY <1>0, <2>2, <2>4, SumRemove
    <2> DEFINE q == key[x]
    <2>8. q \in K /\ f[x] \in Int
      BY <2>2, <2>4
    <2>9. G(T)[q] = f[x] + G(R)[q]
      <3>1. /\ IsFiniteSet(Part(T, q)) /\ x \in Part(T, q)
            /\ \A y \in Part(T, q) : f[y] \in Int
        BY <1>0, <2>2, <2>4, <2>8
      <3>2. Part(R, q) = Part(T, q) \ {x}
        OBVIOUS
      <3>3. /\ G(T)[q] = SumFunctionOnSet(f, Part(T, q))
            /\ G(R)[q] = SumFunctionOnSet(f, Part(R, q))
        BY <2>8
      <3> HIDE DEF G, Part, R, q
      <3>4. QED
        BY <3>1, <3>2, <3>3, SumRemove
    <2>10. \A k \in K \ {q} : G(T)[k] = G(R)[k]
      <3>1. \A k \in K \ {q} : Part(T, k) = Part(R, k)
        OBVIOUS
      <3>2. QED
        BY <3>1
    <2>11. \A k \in K : G(T)[k] \in Int /\ G(R)[k] \in Int
      BY <1>0, <2>2, <2>5
    <2> HIDE DEF G, R, q
    <2>12. /\ SumFunctionOnSet(G(T), K) = G(T)[q] + SumFunctionOnSet(G(T), K \ {q})
           /\ SumFunctionOnSet(G(R), K) = G(R)[q] + SumFunctionOnSet(G(R), K \ {q})
      BY <2>8, <2>11, SumRemove
    <2>13. SumFunctionOnSet(G(T), K \ {q}) = SumFunctionOnSet(G(R), K \ {q})
      <3>1. IsFiniteSet(K \ {q})
        BY FS_Subset
      <3>2. QED
        BY <2>10, <3>1, SumSame
    <2>14. /\ G(R)[q] \in Int /\ SumFunctionOnSet(G(R), K \ {q}) \in Int
      <3>1. IsFiniteSet(K \ {q}) /\ \A k \in K \ {q} : G(R)[k] \in Int
        BY <2>11, FS_Subset
      <3>2. QED
        BY <2>8, <2>11, <3>1, SumType
    <2>15. QED
      BY <2>2, <2>6, <2>7, <2>8, <2>9, <2>12, <2>13, <2>14
  <1>2. SumFunctionOnSet(G(S), K) = SumFunctionOnSet(f, S)
    BY <1>1
  <1>3. \A k \in K : G(S)[k] = g[k]
    OBVIOUS
  <1> HIDE DEF G
  <1>4. SumFunctionOnSet(G(S), K) = SumFunctionOnSet(g, K)
    BY <1>3, SumSame
  <1>5. QED
    BY <1>2, <1>4

\* A factor moves out of a sum.
LEMMA SumScaled ==
    ASSUME NEW f, NEW c \in Int, NEW h, NEW S, IsFiniteSet(S),
           \A x \in S : f[x] \in Int /\ h[x] = f[x] * c
    PROVE  SumFunctionOnSet(h, S) = SumFunctionOnSet(f, S) * c
  <1> DEFINE B == {Q \in SUBSET S :
                      SumFunctionOnSet(h, Q) # SumFunctionOnSet(f, Q) * c}
  <1>1. SUFFICES ASSUME B # {} PROVE FALSE
    OBVIOUS
  <1>2. PICK T \in B : \A R \in B : R \subseteq T => R = T
    <2>1. B \in SUBSET (SUBSET S)
      OBVIOUS
    <2> HIDE DEF B
    <2>2. QED
      BY <1>1, <2>1, SmallestSubset
  <1>3. /\ T \in SUBSET S /\ IsFiniteSet(T)
        /\ SumFunctionOnSet(h, T) # SumFunctionOnSet(f, T) * c
    BY FS_Subset
  <1>4. T # {}
    <2>1. ASSUME T = {} PROVE FALSE
      <3>1. SumFunctionOnSet(h, T) = 0 /\ SumFunctionOnSet(f, T) = 0
        BY <2>1, SumEmpty
      <3>2. 0 * c = 0
        OBVIOUS
      <3>3. QED
        BY <1>3, <3>1, <3>2
    <2>2. QED
      BY <2>1
  <1>5. PICK x \in T : TRUE
    BY <1>4
  <1> DEFINE R == T \ {x}
  <1>6. R \in SUBSET S /\ R \notin B /\ IsFiniteSet(R)
    BY <1>2, <1>3, <1>5, FS_Subset
  <1>7. SumFunctionOnSet(h, R) = SumFunctionOnSet(f, R) * c
    BY <1>6
  <1>8. \A y \in S : f[y] \in Int /\ h[y] \in Int
    OBVIOUS
  <1> HIDE DEF B, R
  <1>9. SumFunctionOnSet(f, R) \in Int
    BY <1>6, <1>8, SumType
  <1>10. /\ SumFunctionOnSet(f, T) = f[x] + SumFunctionOnSet(f, R)
         /\ SumFunctionOnSet(h, T) = h[x] + SumFunctionOnSet(h, R)
    BY <1>3, <1>5, <1>8, SumRemove DEF R
  <1>11. f[x] \in Int /\ h[x] = f[x] * c
    BY <1>3, <1>5
  <1>12. \A a, b \in Int : (a + b) * c = a * c + b * c
    OBVIOUS
  <1>13. QED
    BY <1>3, <1>7, <1>9, <1>10, <1>11, <1>12

\* One larger summand makes the sum larger.
LEMMA SumLess ==
    ASSUME NEW f, NEW g, NEW S, IsFiniteSet(S),
           \A x \in S : f[x] \in Int /\ g[x] \in Int /\ f[x] <= g[x],
           NEW y \in S, f[y] < g[y]
    PROVE  SumFunctionOnSet(f, S) < SumFunctionOnSet(g, S)
  <1> DEFINE R == S \ {y}
  <1>1. IsFiniteSet(R) /\ R \subseteq S
    BY FS_Subset
  <1>2. /\ SumFunctionOnSet(f, S) = f[y] + SumFunctionOnSet(f, R)
        /\ SumFunctionOnSet(g, S) = g[y] + SumFunctionOnSet(g, R)
    BY SumRemove
  <1> HIDE DEF R
  <1>3. SumFunctionOnSet(f, R) <= SumFunctionOnSet(g, R)
    BY <1>1, SumAtMost
  <1>4. /\ SumFunctionOnSet(f, R) \in Int /\ SumFunctionOnSet(g, R) \in Int
        /\ f[y] \in Int /\ g[y] \in Int
    BY <1>1, SumType
  <1>5. QED
    BY <1>2, <1>3, <1>4

(***************************************************************************)
(* An aggregate ratio, a sum of numerators over a sum of denominators, is  *)
(* between the smallest and the largest of the ratios it aggregates.       *)
(***************************************************************************)

LEMMA SomeRatioIsAtMost ==
    ASSUME NEW num, NEW den, NEW S, IsFiniteSet(S),
           \A x \in S : num[x] \in Nat /\ den[x] \in Nat,
           NEW N, N = SumFunctionOnSet(num, S),
           NEW D, D = SumFunctionOnSet(den, S),
           \E x \in S : den[x] > 0
    PROVE  \E x \in S : den[x] > 0 /\ N * den[x] >= num[x] * D
  <1> DEFINE f == [x \in S |-> den[x] * N]
             g == [x \in S |-> num[x] * D]
  <1>1. N \in Nat /\ D \in Nat
    BY SumType
  <1>2. SUFFICES ASSUME \A x \in S : den[x] > 0 => ~ (N * den[x] >= num[x] * D)
                 PROVE  FALSE
    OBVIOUS
  <1>3. ASSUME NEW x \in S
        PROVE  /\ f[x] \in Int /\ g[x] \in Int /\ f[x] <= g[x]
               /\ den[x] > 0 => f[x] < g[x]
    <2>1. num[x] \in Nat /\ den[x] \in Nat
      OBVIOUS
    <2>2. N * den[x] = den[x] * N /\ den[x] * N \in Int /\ num[x] * D \in Nat
      BY <1>1, <2>1
    <2>3. den[x] = 0 => den[x] * N = 0
      BY <1>1
    <2>4. f[x] = den[x] * N /\ g[x] = num[x] * D
      OBVIOUS
    <2> HIDE DEF f, g
    <2>5. CASE den[x] = 0
      <3>1. f[x] = 0 /\ g[x] \in Nat
        BY <2>2, <2>3, <2>4, <2>5
      <3>2. QED
        BY <2>5, <3>1
    <2>6. CASE den[x] > 0
      <3>1. ~ (den[x] * N >= num[x] * D)
        BY <1>2, <2>2, <2>6
      <3>2. QED
        BY <2>2, <2>4, <3>1
    <2>7. QED
      BY <2>1, <2>5, <2>6
  <1>4. /\ \A x \in S : f[x] = den[x] * N
        /\ \A x \in S : g[x] = num[x] * D
    OBVIOUS
  <1> HIDE DEF f, g
  <1>5. PICK y \in S : den[y] > 0
    OBVIOUS
  <1>6. SumFunctionOnSet(f, S) < SumFunctionOnSet(g, S)
    BY <1>3, <1>5, SumLess
  <1>7. \A x \in S : num[x] \in Int /\ den[x] \in Int
    OBVIOUS
  <1>8. SumFunctionOnSet(f, S) = D * N
    BY <1>1, <1>4, <1>7, SumScaled
  <1>9. SumFunctionOnSet(g, S) = N * D
    BY <1>1, <1>4, <1>7, SumScaled
  <1>10. N * D = D * N /\ N * D \in Int
    BY <1>1
  <1>11. QED
    BY <1>6, <1>8, <1>9, <1>10

LEMMA SomeRatioIsAtLeast ==
    ASSUME NEW num, NEW den, NEW S, IsFiniteSet(S), S # {},
           \A x \in S : num[x] \in Nat /\ den[x] \in Nat,
           NEW N, N = SumFunctionOnSet(num, S),
           NEW D, D = SumFunctionOnSet(den, S)
    PROVE  \E x \in S : num[x] * D >= N * den[x]
  <1> DEFINE f == [x \in S |-> num[x] * D]
             g == [x \in S |-> den[x] * N]
  <1>1. N \in Nat /\ D \in Nat
    BY SumType
  <1>2. SUFFICES ASSUME \A x \in S : ~ (num[x] * D >= N * den[x])
                 PROVE  FALSE
    OBVIOUS
  <1>3. ASSUME NEW x \in S
        PROVE  f[x] \in Int /\ g[x] \in Int /\ f[x] < g[x]
    <2>1. num[x] \in Nat /\ den[x] \in Nat
      OBVIOUS
    <2>2. N * den[x] = den[x] * N /\ den[x] * N \in Int /\ num[x] * D \in Int
      BY <1>1, <2>1
    <2>3. QED
      BY <1>2, <2>2
  <1>4. /\ \A x \in S : f[x] = num[x] * D
        /\ \A x \in S : g[x] = den[x] * N
    OBVIOUS
  <1> HIDE DEF f, g
  <1>5. PICK y \in S : TRUE
    OBVIOUS
  <1>6. SumFunctionOnSet(f, S) < SumFunctionOnSet(g, S)
    BY <1>3, <1>5, SumLess
  <1>7. \A x \in S : num[x] \in Int /\ den[x] \in Int
    OBVIOUS
  <1>8. SumFunctionOnSet(f, S) = N * D
    BY <1>1, <1>4, <1>7, SumScaled
  <1>9. SumFunctionOnSet(g, S) = D * N
    BY <1>1, <1>4, <1>7, SumScaled
  <1>10. N * D = D * N /\ N * D \in Int
    BY <1>1
  <1>11. QED
    BY <1>6, <1>8, <1>9, <1>10
=============================================================================
