---------------------------- MODULE FoldTheorems ----------------------------
(***************************************************************************)
(* Induction and recursion over data, in the first-order form that proofs  *)
(* about the models can instantiate: a set of numbers or of subsets takes  *)
(* the place of the induction hypothesis, a function of values and         *)
(* positions that of the recursive step.  From them, what the sums of the  *)
(* community modules (Functions, SumFunctionOnSet) are.                    *)
(***************************************************************************)
EXTENDS Integers, Functions, FiniteSetTheorems, TLAPS

-----------------------------------------------------------------------------
(* Induction.                                                              *)

\* A set that has zero and with every number the next one has them all.
LEMMA NatSetInduction ==
    ASSUME NEW T, 0 \in T, \A n \in Nat : n \in T => n + 1 \in T
    PROVE  \A n \in Nat : n \in T
<1> DEFINE R == {ij \in Nat \X Nat : ij[1] < ij[2]}
           U == {n \in Nat : n \notin T}
<1>1. IsWellFoundedOn(R, Nat)
  BY NatLessThanWellFounded, IsWellFoundedOnSubrelation DEF OpToRel
<1>2. ASSUME U # {} PROVE FALSE
  <2>1. PICK x \in U : \A y \in U : <<y, x>> \notin R
    BY <1>1, <1>2, WFMin
  <2>2. x # 0 /\ x - 1 \in Nat /\ x - 1 + 1 = x
    BY <2>1
  <2>3. <<x - 1, x>> \in R
    BY <2>1, <2>2
  <2> QED
    BY <2>1, <2>2, <2>3
<1> QED
  BY <1>2

\* A set that has the empty set and with every subset of S one with one more
\* element has all subsets of a finite S.
LEMMA SubsetInduction ==
    ASSUME NEW S, IsFiniteSet(S), NEW T, {} \in T,
           \A U \in SUBSET S : \A x \in S \ U : U \in T => U \cup {x} \in T
    PROVE  \A U \in SUBSET S : U \in T
<1> DEFINE Bad == {U \in SUBSET S : U \notin T}
<1>1. IsWellFoundedOn(StrictSubsetOrdering(S), SUBSET S)
  BY FS_StrictSubsetOrderingWellFounded, FS_FiniteSubsetsOfFinite
<1>2. ASSUME Bad # {} PROVE FALSE
  <2>1. PICK U \in Bad : \A V \in Bad : <<V, U>> \notin StrictSubsetOrdering(S)
    BY <1>1, <1>2, WFMin
  <2>2. PICK x \in U : TRUE
    BY <2>1
  <2> DEFINE V == U \ {x}
  <2>3. V \in SUBSET S /\ x \in S \ V /\ V \cup {x} = U
    BY <2>1, <2>2
  <2>4. <<V, U>> \in StrictSubsetOrdering(S)
    BY <2>1, <2>2, <2>3 DEF StrictSubsetOrdering
  <2>5. V \in T
    BY <2>1, <2>3, <2>4
  <2> QED
    BY <2>1, <2>3, <2>5
<1> QED
  BY <1>2

-----------------------------------------------------------------------------
(* Recursion.  G[i] gives the value at i from the one before.              *)

\* f starts with base and goes from each value to the next.
StepByStep(f, V, base, n, G) ==
    /\ f \in [0..n -> V]
    /\ \A i \in 0..n : f[i] = IF i = 0 THEN base ELSE G[i][f[i-1]]

\* There is such a function for every list of steps.
LEMMA RecursionOnPrefix ==
    ASSUME NEW V, NEW base \in V, NEW n \in Nat, NEW G \in [1..n -> [V -> V]]
    PROVE  \E f : StepByStep(f, V, base, n, G)
<1> DEFINE Made(m, f) == StepByStep(f, V, base, m, G)
           T == {m \in Nat : m <= n => \E f : Made(m, f)}
<1>1. 0 \in T
  <2>1. Made(0, [i \in 0..0 |-> base])
    BY DEF StepByStep
  <2> QED
    BY <2>1
<1>2. ASSUME NEW m \in Nat, m \in T PROVE m + 1 \in T
  <2> SUFFICES ASSUME m + 1 <= n PROVE \E f : Made(m + 1, f)
    OBVIOUS
  <2>1. PICK f : Made(m, f)
    BY <1>2
  <2> DEFINE g == [i \in 0..m+1 |-> IF i = m + 1 THEN G[m+1][f[m]] ELSE f[i]]
  <2>2. f[m] \in V /\ m + 1 \in 1..n
    BY <2>1 DEF StepByStep
  <2>3. G[m+1][f[m]] \in V
    BY <2>2
  <2>4. g \in [0..m+1 -> V]
    BY <2>1, <2>3 DEF StepByStep
  <2>5. ASSUME NEW i \in 0..m+1
        PROVE  g[i] = IF i = 0 THEN base ELSE G[i][g[i-1]]
    <3>1. CASE i = m + 1
      BY <3>1
    <3>2. CASE i # m + 1
      <4>1. i \in 0..m /\ g[i] = f[i]
        BY <3>2
      <4>2. i # 0 => i - 1 \in 0..m+1 /\ i - 1 # m + 1
        OBVIOUS
      <4>3. i # 0 => g[i-1] = f[i-1]
        BY <4>2
      <4> QED
        BY <2>1, <4>1, <4>3 DEF StepByStep
    <3> QED
      BY <3>1, <3>2
  <2> HIDE DEF g
  <2> QED
    BY <2>4, <2>5 DEF StepByStep
<1> HIDE DEF T
<1>3. n \in T
  BY <1>1, <1>2, NatSetInduction
<1> QED
  BY <1>3 DEF T

\* Two functions that obey the same recursion agree.
StayTogether(f, g, n) ==
    /\ f[0] = g[0]
    /\ \A i \in 1..n : f[i-1] = g[i-1] => f[i] = g[i]

LEMMA PrefixesAgree ==
    ASSUME NEW n \in Nat, NEW f, NEW g, StayTogether(f, g, n)
    PROVE  \A i \in 0..n : f[i] = g[i]
<1> USE DEF StayTogether
<1> DEFINE T == {i \in Nat : i <= n => f[i] = g[i]}
<1>1. 0 \in T
  OBVIOUS
<1>2. ASSUME NEW i \in Nat, i \in T PROVE i + 1 \in T
  <2> SUFFICES ASSUME i + 1 <= n PROVE f[i+1] = g[i+1]
    OBVIOUS
  <2>1. i + 1 \in 1..n /\ i + 1 - 1 = i /\ f[i] = g[i]
    BY <1>2
  <2> QED
    BY <2>1
<1> HIDE DEF T
<1>3. \A i \in Nat : i \in T
  BY <1>1, <1>2, NatSetInduction
<1> QED
  BY <1>3 DEF T

\* f takes the elements of a subset of D one by one, ch choosing the next.
OneByOne(f, V, base, D, G, ch) ==
    /\ f \in [SUBSET D -> V]
    /\ \A s \in SUBSET D :
          f[s] = IF s = {} THEN base ELSE G[ch[s]][f[s \ {ch[s]}]]

\* There is such a function when the set is finite.
LEMMA RecursionOnSubsets ==
    ASSUME NEW V, NEW base \in V, NEW D, IsFiniteSet(D),
           NEW G \in [D -> [V -> V]], NEW ch,
           \A s \in SUBSET D : s # {} => ch[s] \in s
    PROVE  \E f : OneByOne(f, V, base, D, G, ch)
<1> DEFINE P(m) == {s \in SUBSET D : Cardinality(s) <= m}
           Made(m, f) == /\ f \in [P(m) -> V]
                         /\ \A s \in P(m) :
                               f[s] = IF s = {} THEN base
                                      ELSE G[ch[s]][f[s \ {ch[s]}]]
           T == {m \in Nat : \E f : Made(m, f)}
<1>1. \A s \in SUBSET D : IsFiniteSet(s) /\ Cardinality(s) \in Nat
  BY FS_Subset, FS_CardinalityType
<1>2. \A s \in SUBSET D : Cardinality(s) = 0 <=> s = {}
  BY <1>1, FS_EmptySet
<1>3. \A s \in SUBSET D : s # {} =>
         /\ s \ {ch[s]} \in SUBSET D
         /\ Cardinality(s \ {ch[s]}) = Cardinality(s) - 1
  BY <1>1, FS_RemoveElement
<1>4. 0 \in T
  <2>1. \A s \in P(0) : s = {}
    BY <1>1, <1>2
  <2>2. Made(0, [s \in P(0) |-> base])
    BY <2>1
  <2> QED
    BY <2>2
<1>5. ASSUME NEW m \in Nat, m \in T PROVE m + 1 \in T
  <2>1. PICK f : Made(m, f)
    BY <1>5
  <2> DEFINE g == [s \in P(m+1) |-> IF s \in P(m) THEN f[s]
                                    ELSE G[ch[s]][f[s \ {ch[s]}]]]
  <2>2. ASSUME NEW s \in P(m+1), s # {} PROVE s \ {ch[s]} \in P(m) /\ ch[s] \in D
    BY <1>1, <1>3, <2>2
  <2>3. \A s \in P(m+1) : s \notin P(m) => s # {}
    BY <1>2
  <2>4. P(m) \subseteq P(m+1)
    BY <1>1
  <2>5. ASSUME NEW s \in P(m+1) PROVE g[s] \in V
    <3>1. CASE s \in P(m)
      BY <2>1, <3>1
    <3>2. CASE s \notin P(m)
      <4>1. f[s \ {ch[s]}] \in V /\ ch[s] \in D
        BY <2>1, <2>2, <2>3, <3>2
      <4>2. g[s] = G[ch[s]][f[s \ {ch[s]}]]
        BY <3>2
      <4>3. G[ch[s]] \in [V -> V]
        BY <4>1
      <4> HIDE DEF g, P
      <4> QED
        BY <4>1, <4>2, <4>3
    <3> QED
      BY <3>1, <3>2
  <2>6. ASSUME NEW s \in P(m+1)
        PROVE  g[s] = IF s = {} THEN base ELSE G[ch[s]][g[s \ {ch[s]}]]
    <3>1. s # {} => s \ {ch[s]} \in P(m) /\ g[s \ {ch[s]}] = f[s \ {ch[s]}]
      BY <2>2, <2>4
    <3>2. s \in P(m) => g[s] = f[s]
      OBVIOUS
    <3>3. s \notin P(m) => g[s] = G[ch[s]][f[s \ {ch[s]}]] /\ s # {}
      BY <2>3
    <3>4. s \in P(m) => f[s] = IF s = {} THEN base ELSE G[ch[s]][f[s \ {ch[s]}]]
      BY <2>1
    <3> HIDE DEF g, P
    <3> QED
      BY <3>1, <3>2, <3>3, <3>4
  <2>7. g \in [P(m+1) -> V]
    BY <2>5
  <2> HIDE DEF g, P
  <2>8. Made(m + 1, g)
    BY <2>6, <2>7
  <2> HIDE DEF Made
  <2> QED
    BY <2>8
<1> HIDE DEF T
<1>6. Cardinality(D) \in T
  BY <1>1, <1>4, <1>5, NatSetInduction
<1>7. P(Cardinality(D)) = SUBSET D
  BY <1>1, FS_Subset
<1> HIDE DEF P
<1> QED
  BY <1>6, <1>7 DEF T, OneByOne

-----------------------------------------------------------------------------
(* Sums.                                                                   *)

\* The recursion of SumFunctionOnSet.
AddedUp(f, S, iter) ==
    iter = [s \in SUBSET S |->
              IF s = {} THEN 0
              ELSE f[CHOOSE x \in s : TRUE] + iter[s \ {CHOOSE x \in s : TRUE}]]

LEMMA SumUnfolds ==
    ASSUME NEW S, IsFiniteSet(S), NEW f, \A x \in S : f[x] \in Int
    PROVE  \E iter : /\ AddedUp(f, S, iter)
                     /\ iter \in [SUBSET S -> Int]
                     /\ SumFunctionOnSet(f, S) = iter[S]
<1> DEFINE ch == [s \in SUBSET S |-> CHOOSE x \in s : TRUE]
           G == [x \in S |-> [v \in Int |-> f[x] + v]]
<1>1. G \in [S -> [Int -> Int]]
  OBVIOUS
<1>2. \A s \in SUBSET S : s # {} => ch[s] \in s
  OBVIOUS
<1>3. \A x \in S, v \in Int : G[x][v] = f[x] + v
  OBVIOUS
<1>4. \A s \in SUBSET S : ch[s] = CHOOSE x \in s : TRUE
  OBVIOUS
<1> HIDE DEF ch, G
<1>5. PICK g : OneByOne(g, Int, 0, S, G, ch)
  <2>1. 0 \in Int
    OBVIOUS
  <2> QED
    BY <1>1, <1>2, <2>1, RecursionOnSubsets
<1>6. ASSUME NEW s \in SUBSET S
      PROVE  g[s] = IF s = {} THEN 0 ELSE f[ch[s]] + g[s \ {ch[s]}]
  <2>1. s # {} => ch[s] \in S /\ g[s \ {ch[s]}] \in Int
    BY <1>2, <1>5 DEF OneByOne
  <2> QED
    BY <1>3, <1>5, <2>1 DEF OneByOne
<1>7. AddedUp(f, S, g)
  BY <1>4, <1>5, <1>6 DEF AddedUp, OneByOne
<1>8. AddedUp(f, S, CHOOSE iter : AddedUp(f, S, iter))
  BY <1>7
<1>9. SumFunctionOnSet(f, S) = (CHOOSE iter : AddedUp(f, S, iter))[S]
  BY DEF AddedUp, SumFunctionOnSet, FoldFunctionOnSet, MapThenFoldSet
<1>10. ASSUME NEW iter, AddedUp(f, S, iter) PROVE iter \in [SUBSET S -> Int]
  <2> DEFINE T == {s \in SUBSET S : iter[s] \in Int}
             m == Cardinality(S)
             N == {n \in Nat : \A s \in SUBSET S : Cardinality(s) = n => iter[s] \in Int}
  <2>1. \A s \in SUBSET S : IsFiniteSet(s) /\ Cardinality(s) \in Nat
    BY FS_Subset, FS_CardinalityType
  <2>2. \A s \in SUBSET S : Cardinality(s) = 0 <=> s = {}
    BY <2>1, FS_EmptySet
  <2>3. \A s \in SUBSET S : iter[s] = IF s = {} THEN 0 ELSE f[ch[s]] + iter[s \ {ch[s]}]
    BY <1>4, <1>10 DEF AddedUp
  <2>4. 0 \in N
    <3>1. \A s \in SUBSET S : s = {} => iter[s] = 0
      BY <2>3
    <3> QED
      BY <2>2, <3>1
  <2>5. ASSUME NEW n \in Nat, n \in N PROVE n + 1 \in N
    <3> SUFFICES ASSUME NEW s \in SUBSET S, Cardinality(s) = n + 1
                 PROVE  iter[s] \in Int
      OBVIOUS
    <3>1. s # {} /\ ch[s] \in s
      BY <1>2, <2>2
    <3>2. s \ {ch[s]} \in SUBSET S /\ Cardinality(s \ {ch[s]}) = n
      <4>1. IsFiniteSet(s) /\ Cardinality(s) - 1 = n
        BY <2>1
      <4> QED
        BY <3>1, <4>1, FS_RemoveElement
    <3>3. iter[s \ {ch[s]}] \in Int /\ f[ch[s]] \in Int
      BY <2>5, <3>1, <3>2
    <3> QED
      BY <2>3, <3>1, <3>3
  <2> HIDE DEF N
  <2>6. \A n \in Nat : n \in N
    BY <2>4, <2>5, NatSetInduction
  <2>7. \A s \in SUBSET S : iter[s] \in Int
    BY <2>1, <2>6 DEF N
  <2> QED
    BY <1>10, <2>7 DEF AddedUp
<1> HIDE DEF AddedUp
<1> QED
  BY <1>8, <1>9, <1>10

\* The recursion has one value per set, and it depends on f there alone.
LEMMA AddedUpAgree ==
    ASSUME NEW S, IsFiniteSet(S), NEW U, IsFiniteSet(U),
           NEW f, NEW g, \A x \in S \cap U : f[x] = g[x],
           NEW i, AddedUp(f, S, i), NEW j, AddedUp(g, U, j)
    PROVE  \A s \in SUBSET (S \cap U) : i[s] = j[s]
<1> DEFINE N == {n \in Nat : \A s \in SUBSET (S \cap U) :
                                Cardinality(s) = n => i[s] = j[s]}
<1>1. \A s \in SUBSET (S \cap U) : IsFiniteSet(s) /\ Cardinality(s) \in Nat
  BY FS_Subset, FS_CardinalityType
<1>2. \A s \in SUBSET (S \cap U) : Cardinality(s) = 0 <=> s = {}
  BY <1>1, FS_EmptySet
<1>3. \A s \in SUBSET (S \cap U) :
         s = {} => i[s] = 0 /\ j[s] = 0
  BY DEF AddedUp
<1>4. ASSUME NEW s \in SUBSET (S \cap U), s # {}
      PROVE  \E x \in s : /\ i[s] = f[x] + i[s \ {x}]
                          /\ j[s] = g[x] + j[s \ {x}]
  <2>1. (CHOOSE x \in s : TRUE) \in s
    BY <1>4
  <2>2. s \in SUBSET S /\ s \in SUBSET U
    OBVIOUS
  <2> QED
    BY <1>4, <2>1, <2>2 DEF AddedUp
<1>5. 0 \in N
  BY <1>2, <1>3
<1>6. ASSUME NEW n \in Nat, n \in N PROVE n + 1 \in N
  <2> SUFFICES ASSUME NEW s \in SUBSET (S \cap U), Cardinality(s) = n + 1
               PROVE  i[s] = j[s]
    OBVIOUS
  <2>1. s # {}
    BY <1>2
  <2>2. PICK x \in s : i[s] = f[x] + i[s \ {x}] /\ j[s] = g[x] + j[s \ {x}]
    BY <1>4, <2>1
  <2>3. IsFiniteSet(s) /\ Cardinality(s) - 1 = n
    BY <1>1
  <2>4. s \ {x} \in SUBSET (S \cap U) /\ Cardinality(s \ {x}) = n
    BY <2>2, <2>3, FS_RemoveElement
  <2> QED
    BY <1>6, <2>2, <2>4
<1> HIDE DEF N
<1>7. \A n \in Nat : n \in N
  BY <1>5, <1>6, NatSetInduction
<1> QED
  BY <1>1, <1>7 DEF N

LEMMA SumType ==
    ASSUME NEW S, IsFiniteSet(S), NEW f, \A x \in S : f[x] \in Int
    PROVE  SumFunctionOnSet(f, S) \in Int
<1>1. PICK iter : /\ iter \in [SUBSET S -> Int]
                  /\ SumFunctionOnSet(f, S) = iter[S]
  BY SumUnfolds
<1> QED
  BY <1>1

LEMMA SumOfNothing == \A f : SumFunctionOnSet(f, {}) = 0
<1> TAKE f
<1>1. IsFiniteSet({})
  BY FS_EmptySet
<1>2. PICK iter : AddedUp(f, {}, iter) /\ SumFunctionOnSet(f, {}) = iter[{}]
  BY <1>1, SumUnfolds
<1> QED
  BY <1>2 DEF AddedUp

\* Functions that agree on a set have the same sum there.
LEMMA SumExtensional ==
    ASSUME NEW S, IsFiniteSet(S), NEW f, NEW g,
           \A x \in S : f[x] \in Int /\ f[x] = g[x]
    PROVE  SumFunctionOnSet(f, S) = SumFunctionOnSet(g, S)
<1>1. PICK i : AddedUp(f, S, i) /\ SumFunctionOnSet(f, S) = i[S]
  BY SumUnfolds
<1>2. PICK j : AddedUp(g, S, j) /\ SumFunctionOnSet(g, S) = j[S]
  BY SumUnfolds
<1>3. \A s \in SUBSET (S \cap S) : i[s] = j[s]
  BY <1>1, <1>2, AddedUpAgree
<1> QED
  BY <1>1, <1>2, <1>3

\* Some element can be taken out of a sum: the one the recursion takes.
LEMMA SumTakesSome ==
    ASSUME NEW S, IsFiniteSet(S), S # {}, NEW f, \A x \in S : f[x] \in Int
    PROVE  \E x \in S :
              SumFunctionOnSet(f, S) = f[x] + SumFunctionOnSet(f, S \ {x})
<1>1. PICK i : AddedUp(f, S, i) /\ SumFunctionOnSet(f, S) = i[S]
  BY SumUnfolds
<1> DEFINE x == CHOOSE x \in S : TRUE
<1>2. x \in S /\ i[S] = f[x] + i[S \ {x}]
  BY <1>1 DEF AddedUp
<1> HIDE DEF x
<1>3. IsFiniteSet(S \ {x})
  BY FS_RemoveElement
<1>4. PICK j : AddedUp(f, S \ {x}, j) /\ SumFunctionOnSet(f, S \ {x}) = j[S \ {x}]
  BY <1>3, SumUnfolds
<1>5. \A s \in SUBSET (S \cap (S \ {x})) : i[s] = j[s]
  BY <1>1, <1>3, <1>4, AddedUpAgree
<1>6. i[S \ {x}] = j[S \ {x}]
  BY <1>5
<1> QED
  BY <1>1, <1>2, <1>4, <1>6

\* Any element can be taken out of a sum.
LEMMA SumTakesAny ==
    ASSUME NEW S, IsFiniteSet(S), NEW f, \A x \in S : f[x] \in Int
    PROVE  \A x \in S :
              SumFunctionOnSet(f, S) = f[x] + SumFunctionOnSet(f, S \ {x})
<1> DEFINE Sum(s) == SumFunctionOnSet(f, s)
           Takes(s) == \A x \in s : Sum(s) = f[x] + Sum(s \ {x})
           N == {n \in Nat : \A s \in SUBSET S : Cardinality(s) = n => Takes(s)}
<1>1. \A s \in SUBSET S : IsFiniteSet(s) /\ Cardinality(s) \in Nat
  BY FS_Subset, FS_CardinalityType
<1>2. \A s \in SUBSET S : Sum(s) \in Int
  BY <1>1, SumType
<1>3. 0 \in N
  <2>1. \A s \in SUBSET S : Cardinality(s) = 0 => s = {}
    BY <1>1, FS_EmptySet
  <2> QED
    BY <2>1
<1>4. ASSUME NEW n \in Nat, n \in N PROVE n + 1 \in N
  <2> SUFFICES ASSUME NEW s \in SUBSET S, Cardinality(s) = n + 1, NEW x \in s
               PROVE  Sum(s) = f[x] + Sum(s \ {x})
    OBVIOUS
  <2>1. IsFiniteSet(s) /\ Cardinality(s) - 1 = n
    BY <1>1
  <2>2. PICK c \in s : Sum(s) = f[c] + Sum(s \ {c})
    <3>1. \A y \in s : f[y] \in Int
      OBVIOUS
    <3> QED
      BY <2>1, <3>1, SumTakesSome
  <2>3. \A y \in s : s \ {y} \in SUBSET S /\ Cardinality(s \ {y}) = n
    BY <2>1, FS_RemoveElement
  <2>4. \A y \in s : Takes(s \ {y})
    BY <1>4, <2>3
  <2>5. CASE x = c
    BY <2>2, <2>5
  <2>6. CASE x # c
    <3>1. /\ x \in s \ {c} /\ c \in s \ {x}
          /\ (s \ {c}) \ {x} = (s \ {x}) \ {c}
          /\ (s \ {x}) \ {c} \in SUBSET S
      BY <2>6
    <3>2. /\ Sum(s \ {c}) = f[x] + Sum((s \ {x}) \ {c})
          /\ Sum(s \ {x}) = f[c] + Sum((s \ {x}) \ {c})
      BY <2>4, <3>1
    <3>3. Sum((s \ {x}) \ {c}) \in Int /\ f[x] \in Int /\ f[c] \in Int
      BY <1>2, <3>1
    <3> HIDE DEF Sum
    <3> QED
      BY <2>2, <3>2, <3>3
  <2> QED
    BY <2>5, <2>6
<1> HIDE DEF N
<1>5. \A n \in Nat : n \in N
  BY <1>3, <1>4, NatSetInduction
<1>6. Takes(S)
  BY <1>1, <1>5 DEF N
<1> QED
  BY <1>6

\* One more element adds its value.
LEMMA SumAdds ==
    ASSUME NEW S, IsFiniteSet(S), NEW x, x \notin S,
           NEW f, \A y \in S \cup {x} : f[y] \in Int
    PROVE  SumFunctionOnSet(f, S \cup {x}) = SumFunctionOnSet(f, S) + f[x]
<1>1. IsFiniteSet(S \cup {x}) /\ (S \cup {x}) \ {x} = S
  BY FS_AddElement
<1>2. SumFunctionOnSet(f, S \cup {x})
        = f[x] + SumFunctionOnSet(f, (S \cup {x}) \ {x})
  BY <1>1, SumTakesAny
<1>3. SumFunctionOnSet(f, S) \in Int /\ f[x] \in Int
  BY SumType
<1>4. SumFunctionOnSet(f, (S \cup {x}) \ {x}) = SumFunctionOnSet(f, S)
  BY <1>1
<1> QED
  BY <1>2, <1>3, <1>4

\* A change at one place changes the sum by as much.
LEMMA SumChanges ==
    ASSUME NEW S, IsFiniteSet(S), NEW x \in S, NEW f, NEW g,
           \A y \in S : f[y] \in Int /\ g[y] \in Int,
           \A y \in S \ {x} : f[y] = g[y]
    PROVE  SumFunctionOnSet(g, S) = SumFunctionOnSet(f, S) - f[x] + g[x]
<1>1. IsFiniteSet(S \ {x})
  BY FS_RemoveElement
<1>2. SumFunctionOnSet(f, S) = f[x] + SumFunctionOnSet(f, S \ {x})
  BY SumTakesAny
<1>3. SumFunctionOnSet(g, S) = g[x] + SumFunctionOnSet(g, S \ {x})
  BY SumTakesAny
<1>4. SumFunctionOnSet(f, S \ {x}) = SumFunctionOnSet(g, S \ {x})
  BY <1>1, SumExtensional
<1>5. SumFunctionOnSet(f, S \ {x}) \in Int
  BY <1>1, SumType
<1> QED
  BY <1>2, <1>3, <1>4, <1>5

\* Where nothing counts, the sum is zero.
LEMMA SumOfZeros ==
    ASSUME NEW S, IsFiniteSet(S), NEW f, \A x \in S : f[x] = 0
    PROVE  SumFunctionOnSet(f, S) = 0
<1> DEFINE T == {s \in SUBSET S : SumFunctionOnSet(f, s) = 0}
<1>1. {} \in T
  BY SumOfNothing
<1>2. ASSUME NEW s \in SUBSET S, NEW x \in S \ s, s \in T PROVE s \cup {x} \in T
  <2>1. IsFiniteSet(s) /\ \A y \in s \cup {x} : f[y] \in Int
    BY FS_Subset
  <2>2. SumFunctionOnSet(f, s \cup {x}) = SumFunctionOnSet(f, s) + f[x]
    BY <2>1, SumAdds
  <2> QED
    BY <1>2, <2>2
<1> HIDE DEF T
<1>3. S \in T
  BY <1>1, <1>2, SubsetInduction
<1> QED
  BY <1>3 DEF T

\* Where everything counts for nothing or more, so does the sum, and more
\* elements make it no smaller.
LEMMA SumMonotone ==
    ASSUME NEW S, IsFiniteSet(S), NEW U \in SUBSET S,
           NEW f, \A x \in S : f[x] \in Nat
    PROVE  /\ SumFunctionOnSet(f, S) \in Nat
           /\ SumFunctionOnSet(f, U) \in Nat
           /\ SumFunctionOnSet(f, U) <= SumFunctionOnSet(f, S)
<1> DEFINE D == S \ U
           T == {s \in SUBSET D : SumFunctionOnSet(f, U) <= SumFunctionOnSet(f, U \cup s)}
           N == {s \in SUBSET S : SumFunctionOnSet(f, s) \in Nat}
<1>1. IsFiniteSet(U) /\ IsFiniteSet(D) /\ \A s \in SUBSET S : IsFiniteSet(s)
  BY FS_Subset
<1>2. \A s \in SUBSET S : SumFunctionOnSet(f, s) \in Int
  BY <1>1, SumType
<1>3. ASSUME NEW s \in SUBSET S, NEW x \in S \ s
      PROVE  SumFunctionOnSet(f, s \cup {x}) = SumFunctionOnSet(f, s) + f[x]
  <2>1. IsFiniteSet(s) /\ \A y \in s \cup {x} : f[y] \in Int
    BY <1>1
  <2> QED
    BY <2>1, SumAdds
<1>4. {} \in T
  BY <1>1, <1>2
<1>5. ASSUME NEW s \in SUBSET D, NEW x \in D \ s, s \in T PROVE s \cup {x} \in T
  <2>1. U \cup s \in SUBSET S /\ x \in S \ (U \cup s) /\ (U \cup s) \cup {x} = U \cup (s \cup {x})
    OBVIOUS
  <2>2. SumFunctionOnSet(f, U \cup (s \cup {x})) = SumFunctionOnSet(f, U \cup s) + f[x]
    BY <1>3, <2>1
  <2>3. f[x] \in Nat /\ SumFunctionOnSet(f, U \cup s) \in Int /\ SumFunctionOnSet(f, U) \in Int
    BY <1>2, <2>1
  <2>4. SumFunctionOnSet(f, U) <= SumFunctionOnSet(f, U \cup s)
    BY <1>5
  <2>5. SumFunctionOnSet(f, U) <= SumFunctionOnSet(f, U \cup (s \cup {x}))
    BY <2>2, <2>3, <2>4
  <2> QED
    BY <2>5
<1>6. {} \in N
  BY SumOfNothing
<1>7. ASSUME NEW s \in SUBSET S, NEW x \in S \ s, s \in N PROVE s \cup {x} \in N
  <2>1. f[x] \in Nat /\ SumFunctionOnSet(f, s) \in Nat
    BY <1>7
  <2>2. SumFunctionOnSet(f, s \cup {x}) \in Nat
    BY <1>3, <2>1
  <2> QED
    BY <2>2
<1> HIDE DEF T, N
<1>8. D \in T
  <2> HIDE DEF D
  <2>1. \A s \in SUBSET D : s \in T
    BY <1>1, <1>4, <1>5, SubsetInduction
  <2> QED
    BY <2>1
<1>9. \A s \in SUBSET S : s \in N
  BY <1>6, <1>7, SubsetInduction
<1>10. U \cup D = S
  OBVIOUS
<1> QED
  BY <1>8, <1>9, <1>10 DEF T, N

\* Two sets with nothing in common add up.
LEMMA SumOfDisjoint ==
    ASSUME NEW S, IsFiniteSet(S), NEW U, IsFiniteSet(U), S \cap U = {},
           NEW f, \A x \in S \cup U : f[x] \in Int
    PROVE  SumFunctionOnSet(f, S \cup U)
              = SumFunctionOnSet(f, S) + SumFunctionOnSet(f, U)
<1> DEFINE T == {s \in SUBSET U : SumFunctionOnSet(f, S \cup s)
                                   = SumFunctionOnSet(f, S) + SumFunctionOnSet(f, s)}
<1>1. \A s \in SUBSET U : /\ IsFiniteSet(s) /\ IsFiniteSet(S \cup s)
                          /\ SumFunctionOnSet(f, s) \in Int
                          /\ SumFunctionOnSet(f, S \cup s) \in Int
  <2>1. \A s \in SUBSET U : IsFiniteSet(s) /\ IsFiniteSet(S \cup s)
    BY FS_Subset, FS_Union
  <2> QED
    BY <2>1, SumType
<1>2. SumFunctionOnSet(f, S) \in Int
  BY SumType
<1>3. {} \in T
  BY <1>2, SumOfNothing
<1>4. ASSUME NEW s \in SUBSET U, NEW x \in U \ s, s \in T PROVE s \cup {x} \in T
  <2>1. (S \cup s) \cup {x} = S \cup (s \cup {x}) /\ x \notin S \cup s
    OBVIOUS
  <2>2. SumFunctionOnSet(f, (S \cup s) \cup {x}) = SumFunctionOnSet(f, S \cup s) + f[x]
    <3>1. IsFiniteSet(S \cup s) /\ \A y \in (S \cup s) \cup {x} : f[y] \in Int
      BY <1>1
    <3> QED
      BY <2>1, <3>1, SumAdds
  <2>3. SumFunctionOnSet(f, s \cup {x}) = SumFunctionOnSet(f, s) + f[x]
    <3>1. IsFiniteSet(s) /\ \A y \in s \cup {x} : f[y] \in Int
      BY <1>1
    <3> QED
      BY <3>1, SumAdds
  <2>4. f[x] \in Int /\ SumFunctionOnSet(f, s) \in Int /\ s \cup {x} \in SUBSET U
    BY <1>1
  <2>5. SumFunctionOnSet(f, S \cup s) = SumFunctionOnSet(f, S) + SumFunctionOnSet(f, s)
    BY <1>4
  <2>6. SumFunctionOnSet(f, S \cup (s \cup {x})) = SumFunctionOnSet(f, S \cup s) + f[x]
    BY <2>1, <2>2
  <2>7. SumFunctionOnSet(f, S \cup (s \cup {x}))
          = SumFunctionOnSet(f, S) + SumFunctionOnSet(f, s \cup {x})
    BY <1>2, <2>3, <2>4, <2>5, <2>6
  <2> QED
    BY <2>4, <2>7
<1> HIDE DEF T
<1>5. U \in T
  BY <1>3, <1>4, SubsetInduction
<1> QED
  BY <1>5 DEF T

\* Elements that count for nothing can be left out.
LEMMA SumDropsZeros ==
    ASSUME NEW S, IsFiniteSet(S), NEW U \in SUBSET S,
           NEW f, \A x \in U : f[x] \in Int, \A x \in S \ U : f[x] = 0
    PROVE  SumFunctionOnSet(f, S) = SumFunctionOnSet(f, U)
<1> DEFINE D == S \ U
<1>1. IsFiniteSet(U) /\ IsFiniteSet(D) /\ U \cap D = {} /\ U \cup D = S
  BY FS_Subset
<1>2. \A x \in U \cup D : f[x] \in Int
  OBVIOUS
<1>3. SumFunctionOnSet(f, D) = 0
  <2>1. \A x \in D : f[x] = 0
    OBVIOUS
  <2> HIDE DEF D
  <2> QED
    BY <1>1, <2>1, SumOfZeros
<1> HIDE DEF D
<1>4. SumFunctionOnSet(f, U \cup D) = SumFunctionOnSet(f, U) + SumFunctionOnSet(f, D)
  BY <1>1, <1>2, SumOfDisjoint
<1>5. SumFunctionOnSet(f, U) \in Int
  BY <1>1, <1>2, SumType
<1> QED
  BY <1>1, <1>3, <1>4, <1>5

LEMMA SumOfOne ==
    ASSUME NEW x, NEW f, f[x] \in Int
    PROVE  SumFunctionOnSet(f, {x}) = f[x]
<1>1. IsFiniteSet({}) /\ SumFunctionOnSet(f, {}) = 0 /\ {} \cup {x} = {x}
  BY FS_EmptySet, SumOfNothing
<1>2. SumFunctionOnSet(f, {} \cup {x}) = SumFunctionOnSet(f, {}) + f[x]
  <2>1. x \notin {} /\ \A y \in {} \cup {x} : f[y] \in Int
    OBVIOUS
  <2> QED
    BY <1>1, <2>1, SumAdds
<1> QED
  BY <1>1, <1>2

\* What counts for more than nothing makes a sum of naturals more than nothing.
LEMMA SumIsPositive ==
    ASSUME NEW S, IsFiniteSet(S), NEW f, \A x \in S : f[x] \in Nat
    PROVE  SumFunctionOnSet(f, S) > 0 <=> \E x \in S : f[x] > 0
<1>1. SumFunctionOnSet(f, S) \in Nat
  BY SumMonotone
<1>2. ASSUME NEW x \in S, f[x] > 0 PROVE SumFunctionOnSet(f, S) > 0
  <2>1. f[x] \in Int /\ {x} \in SUBSET S
    OBVIOUS
  <2> SUFFICES SumFunctionOnSet(f, {x}) > 0
    BY <1>1, <2>1, SumMonotone
  <2>3. SumFunctionOnSet(f, {x}) = f[x]
    BY <2>1, SumOfOne
  <2> QED
    BY <1>2, <2>3
<1>3. ASSUME \A x \in S : ~(f[x] > 0) PROVE SumFunctionOnSet(f, S) = 0
  <2>1. \A x \in S : f[x] = 0
    BY <1>3
  <2> QED
    BY <2>1, SumOfZeros
<1> QED
  BY <1>1, <1>2, <1>3

\* The sum of sums, of products with a constant, and of what is bounded.
LEMMA SumOfSums ==
    ASSUME NEW S, IsFiniteSet(S), NEW f, NEW g, NEW h,
           \A x \in S : f[x] \in Int /\ g[x] \in Int /\ h[x] = f[x] + g[x]
    PROVE  SumFunctionOnSet(h, S) = SumFunctionOnSet(f, S) + SumFunctionOnSet(g, S)
<1> DEFINE T == {s \in SUBSET S : SumFunctionOnSet(h, s)
                                   = SumFunctionOnSet(f, s) + SumFunctionOnSet(g, s)}
<1>1. \A x \in S : h[x] \in Int
  OBVIOUS
<1>2. \A s \in SUBSET S : /\ IsFiniteSet(s) /\ SumFunctionOnSet(f, s) \in Int
                          /\ SumFunctionOnSet(g, s) \in Int
  <2>1. \A s \in SUBSET S : IsFiniteSet(s)
    BY FS_Subset
  <2> QED
    BY <2>1, SumType
<1>3. {} \in T
  BY SumOfNothing
<1>4. ASSUME NEW s \in SUBSET S, NEW x \in S \ s, s \in T PROVE s \cup {x} \in T
  <2>1. IsFiniteSet(s) /\ \A y \in s \cup {x} : f[y] \in Int /\ g[y] \in Int /\ h[y] \in Int
    BY <1>1, <1>2
  <2>2. /\ SumFunctionOnSet(f, s \cup {x}) = SumFunctionOnSet(f, s) + f[x]
        /\ SumFunctionOnSet(g, s \cup {x}) = SumFunctionOnSet(g, s) + g[x]
        /\ SumFunctionOnSet(h, s \cup {x}) = SumFunctionOnSet(h, s) + h[x]
    BY <2>1, SumAdds
  <2>3. /\ SumFunctionOnSet(h, s) = SumFunctionOnSet(f, s) + SumFunctionOnSet(g, s)
        /\ h[x] = f[x] + g[x] /\ f[x] \in Int /\ g[x] \in Int
        /\ SumFunctionOnSet(f, s) \in Int /\ SumFunctionOnSet(g, s) \in Int
    BY <1>2, <1>4
  <2>4. SumFunctionOnSet(h, s \cup {x})
          = SumFunctionOnSet(f, s \cup {x}) + SumFunctionOnSet(g, s \cup {x})
    BY <2>2, <2>3
  <2> QED
    BY <2>4
<1> HIDE DEF T
<1>5. S \in T
  BY <1>3, <1>4, SubsetInduction
<1> QED
  BY <1>5 DEF T

Transposed(f, g, S, K) == \A x \in S : \A k \in K : f[x][k] \in Int /\ g[k][x] = f[x][k]
AreSums(row, f, S, K) == \A x \in S : row[x] = SumFunctionOnSet(f[x], K)

\* A table adds up to the same by its rows as by its columns.
LEMMA SumsExchange ==
    ASSUME NEW S, IsFiniteSet(S), NEW K, IsFiniteSet(K),
           NEW f, NEW g, Transposed(f, g, S, K),
           NEW row, AreSums(row, f, S, K), NEW column, AreSums(column, g, K, S)
    PROVE  SumFunctionOnSet(row, S) = SumFunctionOnSet(column, K)
<1> DEFINE col == [s \in SUBSET S |-> [k \in K |-> SumFunctionOnSet(g[k], s)]]
           T == {s \in SUBSET S : SumFunctionOnSet(row, s) = SumFunctionOnSet(col[s], K)}
<1>1. \A s \in SUBSET S : \A k \in K : col[s][k] = SumFunctionOnSet(g[k], s)
  OBVIOUS
<1>2. \A s \in SUBSET S : IsFiniteSet(s)
  BY FS_Subset
<1> HIDE DEF col
<1>3. ASSUME NEW s \in SUBSET S, NEW k \in K PROVE col[s][k] \in Int
  <2> DEFINE h == g[k]
  <2>1. (\A x \in s : h[x] \in Int) /\ IsFiniteSet(s)
    BY <1>2 DEF Transposed
  <2>2. col[s][k] = SumFunctionOnSet(h, s)
    BY <1>1
  <2> HIDE DEF h
  <2> QED
    BY <2>1, <2>2, SumType
<1>4. ASSUME NEW x \in S PROVE row[x] \in Int
  <2> DEFINE h == f[x]
  <2>1. (\A k \in K : h[k] \in Int) /\ row[x] = SumFunctionOnSet(h, K)
    BY DEF Transposed, AreSums
  <2> HIDE DEF h
  <2> QED
    BY <2>1, SumType
<1>5. {} \in T
  <2>1. \A k \in K : col[{}][k] = 0
    BY <1>1, SumOfNothing
  <2>2. SumFunctionOnSet(col[{}], K) = 0
    BY <2>1, SumOfZeros
  <2> QED
    BY <2>2, SumOfNothing
<1>6. ASSUME NEW s \in SUBSET S, NEW x \in S \ s, s \in T PROVE s \cup {x} \in T
  <2> DEFINE u == s \cup {x}
             a == col[s]
             b == col[u]
  <2>1. u \in SUBSET S /\ IsFiniteSet(s)
    BY <1>2
  <2>2. SumFunctionOnSet(row, u) = SumFunctionOnSet(row, s) + row[x]
    <3>1. x \notin s /\ \A y \in s \cup {x} : row[y] \in Int
      BY <1>4
    <3> QED
      BY <2>1, <3>1, SumAdds
  <2>3. ASSUME NEW k \in K PROVE b[k] = a[k] + f[x][k]
    <3> DEFINE h == g[k]
    <3>1. x \notin s /\ (\A y \in s \cup {x} : h[y] \in Int) /\ h[x] = f[x][k]
      BY <2>1 DEF Transposed
    <3>2. b[k] = SumFunctionOnSet(h, u) /\ a[k] = SumFunctionOnSet(h, s)
      BY <1>1, <2>1
    <3> HIDE DEF h
    <3>3. SumFunctionOnSet(h, s \cup {x}) = SumFunctionOnSet(h, s) + h[x]
      BY <2>1, <3>1, SumAdds
    <3> QED
      BY <3>1, <3>2, <3>3
  <2>4. \A k \in K : a[k] \in Int /\ f[x][k] \in Int
    BY <1>3 DEF Transposed
  <2>5. SumFunctionOnSet(row, s) = SumFunctionOnSet(a, K) /\ row[x] = SumFunctionOnSet(f[x], K)
    BY <1>6 DEF AreSums
  <2> HIDE DEF a, b, u
  <2>6. SumFunctionOnSet(b, K) = SumFunctionOnSet(a, K) + SumFunctionOnSet(f[x], K)
    <3> DEFINE h == f[x]
    <3>1. \A k \in K : a[k] \in Int /\ h[k] \in Int /\ b[k] = a[k] + h[k]
      BY <2>3, <2>4
    <3> HIDE DEF h
    <3>2. SumFunctionOnSet(b, K) = SumFunctionOnSet(a, K) + SumFunctionOnSet(h, K)
      BY <3>1, SumOfSums
    <3> QED
      BY <3>2 DEF h
  <2> QED
    BY <2>1, <2>2, <2>5, <2>6 DEF u, b
<1> HIDE DEF T
<1>7. S \in T
  BY <1>5, <1>6, SubsetInduction
<1>8. SumFunctionOnSet(row, S) = SumFunctionOnSet(col[S], K)
  BY <1>7 DEF T
<1> DEFINE c == col[S]
<1>9. \A k \in K : c[k] \in Int /\ c[k] = column[k]
  BY <1>1, <1>3 DEF AreSums
<1> HIDE DEF c
<1>10. SumFunctionOnSet(c, K) = SumFunctionOnSet(column, K)
  BY <1>9, SumExtensional
<1> QED
  BY <1>8, <1>10 DEF c

LEMMA SumScales ==
    ASSUME NEW S, IsFiniteSet(S), NEW c \in Int, NEW f, NEW g,
           \A x \in S : f[x] \in Int /\ g[x] = c * f[x]
    PROVE  SumFunctionOnSet(g, S) = c * SumFunctionOnSet(f, S)
<1> DEFINE T == {s \in SUBSET S : SumFunctionOnSet(g, s) = c * SumFunctionOnSet(f, s)}
<1>1. \A s \in SUBSET S : IsFiniteSet(s) /\ SumFunctionOnSet(f, s) \in Int
  <2>1. \A s \in SUBSET S : IsFiniteSet(s)
    BY FS_Subset
  <2> QED
    BY <2>1, SumType
<1>2. {} \in T
  BY SumOfNothing
<1>3. \A a, b \in Int : c * (a + b) = c * a + c * b /\ c * a \in Int
  OBVIOUS
<1>4. ASSUME NEW s \in SUBSET S, NEW x \in S \ s, s \in T PROVE s \cup {x} \in T
  <2>1. IsFiniteSet(s) /\ \A y \in s \cup {x} : f[y] \in Int /\ g[y] \in Int
    BY <1>1, <1>3
  <2>2. /\ SumFunctionOnSet(f, s \cup {x}) = SumFunctionOnSet(f, s) + f[x]
        /\ SumFunctionOnSet(g, s \cup {x}) = SumFunctionOnSet(g, s) + g[x]
    BY <2>1, SumAdds
  <2>3. SumFunctionOnSet(g, s) = c * SumFunctionOnSet(f, s) /\ g[x] = c * f[x]
    BY <1>4
  <2>4. SumFunctionOnSet(f, s) \in Int /\ f[x] \in Int
    BY <1>1, <2>1
  <2>5. c * (SumFunctionOnSet(f, s) + f[x]) = c * SumFunctionOnSet(f, s) + c * f[x]
    BY <1>3, <2>4
  <2> QED
    BY <2>2, <2>3, <2>5
<1> HIDE DEF T
<1>5. S \in T
  BY <1>2, <1>4, SubsetInduction
<1> QED
  BY <1>5 DEF T

LEMMA CardinalityIsSum ==
    ASSUME NEW S, IsFiniteSet(S), NEW f, \A x \in S : f[x] = 1
    PROVE  SumFunctionOnSet(f, S) = Cardinality(S)
<1> DEFINE T == {s \in SUBSET S : SumFunctionOnSet(f, s) = Cardinality(s)}
<1>1. {} \in T
  BY SumOfNothing, FS_EmptySet
<1>2. ASSUME NEW s \in SUBSET S, NEW x \in S \ s, s \in T PROVE s \cup {x} \in T
  <2>1. IsFiniteSet(s) /\ \A y \in s \cup {x} : f[y] \in Int
    BY FS_Subset
  <2>2. SumFunctionOnSet(f, s \cup {x}) = SumFunctionOnSet(f, s) + f[x]
    BY <2>1, SumAdds
  <2>3. Cardinality(s \cup {x}) = Cardinality(s) + 1
    BY <2>1, FS_AddElement
  <2> QED
    BY <1>2, <2>2, <2>3
<1> HIDE DEF T
<1>3. S \in T
  BY <1>1, <1>2, SubsetInduction
<1> QED
  BY <1>3 DEF T

LEMMA SumIsBounded ==
    ASSUME NEW S, IsFiniteSet(S), NEW m \in Nat,
           NEW f, \A x \in S : f[x] \in Nat /\ f[x] <= m
    PROVE  SumFunctionOnSet(f, S) <= m * Cardinality(S)
<1> DEFINE T == {s \in SUBSET S : SumFunctionOnSet(f, s) <= m * Cardinality(s)}
<1>1. {} \in T
  BY SumOfNothing, FS_EmptySet
<1>2. \A n \in Nat : m * (n + 1) = m * n + m /\ m * n \in Nat
  OBVIOUS
<1>3. ASSUME NEW s \in SUBSET S, NEW x \in S \ s, s \in T PROVE s \cup {x} \in T
  <2>1. IsFiniteSet(s) /\ (\A y \in s \cup {x} : f[y] \in Int) /\ \A y \in s : f[y] \in Nat
    BY FS_Subset
  <2>2. SumFunctionOnSet(f, s \cup {x}) = SumFunctionOnSet(f, s) + f[x]
    BY <2>1, SumAdds
  <2>3. Cardinality(s) \in Nat /\ Cardinality(s \cup {x}) = Cardinality(s) + 1
    BY <2>1, FS_AddElement, FS_CardinalityType
  <2>4. m * Cardinality(s \cup {x}) = m * Cardinality(s) + m /\ m * Cardinality(s) \in Nat
    BY <1>2, <2>3
  <2>5. SumFunctionOnSet(f, s) <= m * Cardinality(s) /\ f[x] \in Nat /\ f[x] <= m
    BY <1>3
  <2>6. SumFunctionOnSet(f, s) \in Int
    BY <2>1, SumType
  <2>7. SumFunctionOnSet(f, s \cup {x}) <= m * Cardinality(s \cup {x})
    BY <2>2, <2>4, <2>5, <2>6
  <2> QED
    BY <2>7
<1> HIDE DEF T
<1>4. S \in T
  BY <1>1, <1>3, SubsetInduction
<1> QED
  BY <1>4 DEF T

\* A sum is the sum of the sums of its parts, the elements by their key.
LEMMA SumOfParts ==
    ASSUME NEW S, IsFiniteSet(S), NEW K, IsFiniteSet(K), NEW key \in [S -> K],
           NEW f, \A x \in S : f[x] \in Int,
           NEW part, \A k \in K :
                part[k] = SumFunctionOnSet(f, {x \in S : key[x] = k})
    PROVE  SumFunctionOnSet(f, S) = SumFunctionOnSet(part, K)
<1> DEFINE Of(k) == {x \in S : key[x] = k}
           In(k) == {x \in S : key[x] \in k}
           T == {k \in SUBSET K : SumFunctionOnSet(f, In(k)) = SumFunctionOnSet(part, k)}
<1>1. \A s \in SUBSET S : IsFiniteSet(s) /\ SumFunctionOnSet(f, s) \in Int
  <2>1. \A s \in SUBSET S : IsFiniteSet(s)
    BY FS_Subset
  <2> QED
    BY <2>1, SumType
<1>2. \A k \in K : part[k] \in Int
  <2>1. \A k \in K : Of(k) \in SUBSET S
    OBVIOUS
  <2> QED
    BY <1>1, <2>1
<1>3. {} \in T
  <2>1. In({}) = {}
    OBVIOUS
  <2> QED
    BY <2>1, SumOfNothing
<1>4. ASSUME NEW s \in SUBSET K, NEW k \in K \ s, s \in T PROVE s \cup {k} \in T
  <2>1. /\ In(s \cup {k}) = In(s) \cup Of(k) /\ In(s) \cap Of(k) = {}
        /\ In(s) \in SUBSET S /\ Of(k) \in SUBSET S
    OBVIOUS
  <2>2. SumFunctionOnSet(f, Of(k)) = part[k]
    OBVIOUS
  <2>3. SumFunctionOnSet(f, In(s)) = SumFunctionOnSet(part, s)
    BY <1>4
  <2> HIDE DEF In, Of
  <2>4. IsFiniteSet(In(s)) /\ IsFiniteSet(Of(k)) /\ \A x \in In(s) \cup Of(k) : f[x] \in Int
    BY <1>1, <2>1
  <2>5. SumFunctionOnSet(f, In(s) \cup Of(k))
          = SumFunctionOnSet(f, In(s)) + SumFunctionOnSet(f, Of(k))
    BY <2>1, <2>4, SumOfDisjoint
  <2>6. SumFunctionOnSet(part, s \cup {k}) = SumFunctionOnSet(part, s) + part[k]
    <3>1. IsFiniteSet(s) /\ \A y \in s \cup {k} : part[y] \in Int
      BY <1>2, FS_Subset
    <3> QED
      BY <3>1, SumAdds
  <2>7. SumFunctionOnSet(f, In(s \cup {k})) = SumFunctionOnSet(part, s \cup {k})
    BY <2>1, <2>2, <2>3, <2>5, <2>6
  <2> QED
    BY <2>7
<1>5. In(K) = S
  OBVIOUS
<1> HIDE DEF T
<1>6. K \in T
  BY <1>3, <1>4, SubsetInduction
<1> QED
  BY <1>5, <1>6 DEF T

LEMMA CardinalityOfParts ==
    ASSUME NEW S, IsFiniteSet(S), NEW K, IsFiniteSet(K), NEW key \in [S -> K],
           NEW part, \A k \in K : part[k] = Cardinality({x \in S : key[x] = k})
    PROVE  Cardinality(S) = SumFunctionOnSet(part, K)
<1> DEFINE one == [x \in S |-> 1]
<1>1. SumFunctionOnSet(one, S) = Cardinality(S) /\ \A x \in S : one[x] = 1
  BY CardinalityIsSum
<1>2. ASSUME NEW k \in K
      PROVE  part[k] = SumFunctionOnSet(one, {x \in S : key[x] = k})
  <2> DEFINE U == {x \in S : key[x] = k}
  <2>1. IsFiniteSet(U) /\ \A x \in U : one[x] = 1
    BY FS_Subset
  <2>2. part[k] = Cardinality(U)
    OBVIOUS
  <2> HIDE DEF U, one
  <2>3. SumFunctionOnSet(one, U) = Cardinality(U)
    BY <2>1, CardinalityIsSum
  <2> QED
    BY <2>2, <2>3 DEF U
<1> HIDE DEF one
<1>3. \A x \in S : one[x] \in Int
  BY <1>1
<1>4. SumFunctionOnSet(one, S) = SumFunctionOnSet(part, K)
  BY <1>2, <1>3, SumOfParts
<1> QED
  BY <1>1, <1>4

-----------------------------------------------------------------------------
(* Finite orders.                                                          *)

\* R orders S: of two elements at most one comes before the other.
IsOrder(R, S) ==
    /\ \A x \in S : <<x, x>> \notin R
    /\ \A x, y, z \in S : <<x, y>> \in R /\ <<y, z>> \in R => <<x, z>> \in R

\* A finite set has an element that nothing in it comes before.
LEMMA FiniteHasFirst ==
    ASSUME NEW S, IsFiniteSet(S), NEW R, IsOrder(R, S)
    PROVE  \A U \in SUBSET S : U # {} => \E x \in U : \A y \in U : <<y, x>> \notin R
<1> DEFINE T == {U \in SUBSET S :
                    U # {} => \E x \in U : \A y \in U : <<y, x>> \notin R}
<1>1. {} \in T
  OBVIOUS
<1>2. ASSUME NEW U \in SUBSET S, NEW n \in S \ U, U \in T PROVE U \cup {n} \in T
  <2>1. CASE U = {}
    BY <2>1 DEF IsOrder
  <2>2. CASE U # {}
    <3>1. PICK x \in U : \A y \in U : <<y, x>> \notin R
      BY <1>2, <2>2
    <3>2. CASE <<n, x>> \notin R
      BY <3>1, <3>2
    <3>3. CASE <<n, x>> \in R
      <4>1. \A y \in U : <<y, n>> \notin R
        BY <3>1, <3>3 DEF IsOrder
      <4>2. \A y \in U \cup {n} : <<y, n>> \notin R
        BY <4>1 DEF IsOrder
      <4> QED
        BY <4>2
    <3> QED
      BY <3>2, <3>3
  <2> QED
    BY <2>1, <2>2
<1> HIDE DEF T
<1>3. \A U \in SUBSET S : U \in T
  BY <1>1, <1>2, SubsetInduction
<1> QED
  BY <1>3 DEF T
=============================================================================
