---------------------------- MODULE SumTheorems ----------------------------
(***************************************************************************)
(* What the proofs need to know about SumFunctionOnSet(f, S), the sum of    *)
(* f[x] over the elements x of a finite set S.                              *)
(***************************************************************************)
EXTENDS Integers, FiniteSets, FiniteSetsExt, FiniteSetTheorems, TLAPS

-----------------------------------------------------------------------------
(* Induction.                                                               *)

\* A nonempty set of finite sets has an element that includes no other.
LEMMA MinimalSet ==
  ASSUME NEW S, IsFiniteSet(S), NEW F \in SUBSET SUBSET S, F # {}
  PROVE  \E T \in F : \A U \in F : U \subseteq T => U = T
<1>1. F \subseteq FiniteSubsetsOf(S)
  BY FS_FiniteSubsetsOfFinite
<1>2. \E T \in F : \A U \in F : ~(<<U, T>> \in StrictSubsetOrdering(S))
  BY <1>1, FS_StrictSubsetOrderingWellFounded, WFMin
<1>. QED
  BY <1>2 DEF StrictSubsetOrdering

\* A family of sets that has the empty set, and with a set every set with one
\* element more, has every finite set.
LEMMA ByOneMore ==
  ASSUME NEW S, IsFiniteSet(S), NEW F, {} \in F,
         \A T \in SUBSET S : \A x \in S \ T : T \in F => T \cup {x} \in F
  PROVE  S \in F
<1> SUFFICES ASSUME S \notin F PROVE FALSE
  OBVIOUS
<1> DEFINE G == {T \in SUBSET S : T \notin F}
<1>1. PICK T \in G : \A U \in G : U \subseteq T => U = T
  <2>1. G \in SUBSET SUBSET S /\ G # {}
    OBVIOUS
  <2>. HIDE DEF G
  <2>. QED
    BY <2>1, MinimalSet
<1>2. PICK x \in T : TRUE
  BY <1>1
<1>3. T \ {x} \in F
  BY <1>1, <1>2
<1>4. T = (T \ {x}) \cup {x} /\ x \in S \ (T \ {x}) /\ T \ {x} \in SUBSET S
  BY <1>1, <1>2
<1>. QED
  BY <1>1, <1>3, <1>4

-----------------------------------------------------------------------------
(* The sum exists: some function of the subsets of S adds f up one element  *)
(* at a time, in whatever order.                                            *)

Additive(g, f, S) ==
  /\ g \in [SUBSET S -> Int]
  /\ g[{}] = 0
  /\ \A T \in SUBSET S : \A x \in S \ T : g[T \cup {x}] = g[T] + f[x]

\* With g for T there is one for T and one element more.
LEMMA AdditiveStep ==
  ASSUME NEW T, NEW y, y \notin T, NEW f, \A x \in T \cup {y} : f[x] \in Int,
         NEW g, Additive(g, f, T)
  PROVE  \E k : Additive(k, f, T \cup {y})
<1> DEFINE k == [U \in SUBSET (T \cup {y}) |->
                   IF y \in U THEN g[U \ {y}] + f[y] ELSE g[U]]
<1>1. \A U \in SUBSET (T \cup {y}) : U \ {y} \in SUBSET T /\ (y \notin U => U \in SUBSET T)
  OBVIOUS
<1>2. k \in [SUBSET (T \cup {y}) -> Int]
  BY <1>1 DEF Additive
<1>3. k[{}] = 0
  BY DEF Additive
<1>4. ASSUME NEW U \in SUBSET (T \cup {y}), NEW x \in (T \cup {y}) \ U
      PROVE  k[U \cup {x}] = k[U] + f[x]
  <2>1. U \cup {x} \in SUBSET (T \cup {y})
    OBVIOUS
  <2>2. CASE x = y
    <3>1. (U \cup {x}) \ {y} = U /\ y \in U \cup {x} /\ y \notin U
      BY <2>2
    <3>. QED
      BY <2>1, <2>2, <3>1
  <2>3. CASE x # y /\ y \notin U
    <3>1. U \in SUBSET T /\ x \in T \ U /\ y \notin U \cup {x}
      BY <2>3
    <3>2. g[U \cup {x}] = g[U] + f[x]
      BY <3>1 DEF Additive
    <3>. QED
      BY <2>1, <2>3, <3>1, <3>2
  <2>4. CASE x # y /\ y \in U
    <3> DEFINE V == U \ {y}
    <3>1. V \in SUBSET T /\ x \in T \ V /\ (U \cup {x}) \ {y} = V \cup {x}
      BY <2>4
    <3>2. V \cup {x} \in SUBSET T
      BY <3>1
    <3>3. g[V \cup {x}] = g[V] + f[x] /\ g[V] \in Int
      <4>. HIDE DEF V
      <4>. QED
        BY <3>1, <3>2 DEF Additive
    <3>4. k[U \cup {x}] = g[V \cup {x}] + f[y]
      BY <2>1, <2>4, <3>1
    <3>5. k[U] = g[V] + f[y]
      BY <2>4
    <3>. HIDE DEF k, V
    <3>. QED
      BY <3>3, <3>4, <3>5
  <2>. QED
    BY <2>2, <2>3, <2>4
<1>5. Additive(k, f, T \cup {y})
  <2>. HIDE DEF k
  <2>. QED
    BY <1>2, <1>3, <1>4 DEF Additive
<1>. QED
  BY <1>5

\* Every finite set has one.
LEMMA AdditiveExists ==
  ASSUME NEW S, IsFiniteSet(S), NEW f, \A x \in S : f[x] \in Int
  PROVE  \E g : Additive(g, f, S)
<1> DEFINE F == {T \in SUBSET S : \E g : Additive(g, f, T)}
<1>1. {} \in F
  <2>1. Additive([T \in SUBSET {} |-> 0], f, {})
    BY DEF Additive
  <2>. QED
    BY <2>1
<1>2. \A T \in SUBSET S : \A x \in S \ T : T \in F => T \cup {x} \in F
  BY AdditiveStep
<1>3. S \in F
  <2>. HIDE DEF F
  <2>. QED
    BY <1>1, <1>2, ByOneMore
<1>. QED
  BY <1>3

\* The recursive equation that defines the sum, which takes an arbitrary
\* element out at a time.
Unfolds(g, f, S) ==
  g = [T \in SUBSET S |->
         IF T = {} THEN 0 ELSE f[CHOOSE x \in T : TRUE] + g[T \ {CHOOSE x \in T : TRUE}]]

\* An additive function satisfies it ...
LEMMA AdditiveUnfolds ==
  ASSUME NEW S, NEW f, \A x \in S : f[x] \in Int, NEW g, Additive(g, f, S)
  PROVE  Unfolds(g, f, S)
<1>1. ASSUME NEW T \in SUBSET S, T # {}
      PROVE  g[T] = f[CHOOSE x \in T : TRUE] + g[T \ {CHOOSE x \in T : TRUE}]
  <2> DEFINE c == CHOOSE x \in T : TRUE
             V == T \ {c}
  <2>1. c \in T
    BY <1>1
  <2>2. V \in SUBSET S /\ c \in S \ V /\ V \cup {c} = T
    BY <2>1
  <2>3. g[V \cup {c}] = g[V] + f[c] /\ g[V] \in Int /\ f[c] \in Int
    <3>. HIDE DEF c, V
    <3>. QED
      BY <2>2 DEF Additive
  <2>4. g[T] = g[V] + f[c]
    BY <2>2, <2>3
  <2>. HIDE DEF c
  <2>5. g[T] = f[c] + g[V]
    <3>. HIDE DEF V
    <3>. QED
      BY <2>3, <2>4
  <2>. QED
    BY <2>5 DEF c
<1>2. g \in [SUBSET S -> Int] /\ g[{}] = 0
  BY DEF Additive
<1>. QED
  BY <1>1, <1>2 DEF Unfolds

\* ... and nothing else does.
LEMMA UnfoldsUnique ==
  ASSUME NEW S, IsFiniteSet(S), NEW f, NEW g, NEW h, Unfolds(g, f, S), Unfolds(h, f, S)
  PROVE  g[S] = h[S]
<1> DEFINE F == {T \in SUBSET S : g[T] # h[T]}
<1> SUFFICES ASSUME F # {} PROVE FALSE
  OBVIOUS
<1>1. PICK T \in F : \A U \in F : U \subseteq T => U = T
  <2>1. F \in SUBSET SUBSET S
    OBVIOUS
  <2>. HIDE DEF F
  <2>. QED
    BY <2>1, MinimalSet
<1> DEFINE c == CHOOSE x \in T : TRUE
<1>2. T # {}
  BY <1>1 DEF Unfolds
<1>3. c \in T
  BY <1>2
<1>4. g[T] = f[c] + g[T \ {c}] /\ h[T] = f[c] + h[T \ {c}]
  BY <1>2 DEF Unfolds
<1>5. T \ {c} \notin F
  BY <1>1, <1>3
<1>. QED
  BY <1>1, <1>4, <1>5

\* So the sum is what any additive function says.
LEMMA SumIsAdditive ==
  ASSUME NEW S, IsFiniteSet(S), NEW f, \A x \in S : f[x] \in Int, NEW g, Additive(g, f, S)
  PROVE  SumFunctionOnSet(f, S) = g[S]
<1> DEFINE h == CHOOSE k : k = [T \in SUBSET S |->
                  IF T = {} THEN 0
                  ELSE f[CHOOSE x \in T : TRUE] + k[T \ {CHOOSE x \in T : TRUE}]]
<1>1. SumFunctionOnSet(f, S) = h[S]
  BY DEF SumFunctionOnSet, FoldFunctionOnSet, MapThenFoldSet
<1>2. Unfolds(g, f, S)
  BY AdditiveUnfolds
<1>3. Unfolds(h, f, S)
  BY <1>2 DEF Unfolds
<1>. HIDE DEF h
<1>. QED
  BY <1>1, <1>2, <1>3, UnfoldsUnique

\* Whatever satisfies the equation gives the sum, and something does.
LEMMA SumUnfolds ==
  ASSUME NEW S, IsFiniteSet(S), NEW f, \A x \in S : f[x] \in Int
  PROVE  /\ \E g : Unfolds(g, f, S)
         /\ \A g : Unfolds(g, f, S) => g[S] = SumFunctionOnSet(f, S)
<1>1. PICK g : Additive(g, f, S)
  BY AdditiveExists
<1>2. Unfolds(g, f, S) /\ SumFunctionOnSet(f, S) = g[S]
  BY <1>1, AdditiveUnfolds, SumIsAdditive
<1>. QED
  BY <1>2, UnfoldsUnique

\* The same for the subsets of S.
LEMMA SumOfSubset ==
  ASSUME NEW S, IsFiniteSet(S), NEW f, \A x \in S : f[x] \in Int, NEW g, Additive(g, f, S),
         NEW T \in SUBSET S
  PROVE  SumFunctionOnSet(f, T) = g[T]
<1> DEFINE k == [U \in SUBSET T |-> g[U]]
<1>1. \A U \in SUBSET T : U \in SUBSET S
  OBVIOUS
<1>2. \A U \in SUBSET T : \A x \in T \ U : U \cup {x} \in SUBSET T
  OBVIOUS
<1>3. Additive(k, f, T)
  <2>1. k \in [SUBSET T -> Int] /\ k[{}] = 0
    BY <1>1 DEF Additive
  <2>2. ASSUME NEW U \in SUBSET T, NEW x \in T \ U PROVE k[U \cup {x}] = k[U] + f[x]
    BY <1>1, <1>2 DEF Additive
  <2>. HIDE DEF k
  <2>. QED
    BY <2>1, <2>2 DEF Additive
<1>4. IsFiniteSet(T) /\ k[T] = g[T]
  BY FS_Subset
<1>. HIDE DEF k
<1>. QED
  BY <1>3, <1>4, SumIsAdditive

-----------------------------------------------------------------------------
(* What a sum is made of.                                                   *)

\* The sum over no element.
LEMMA SumEmpty == \A f : SumFunctionOnSet(f, {}) = 0
<1> SUFFICES ASSUME NEW f PROVE SumFunctionOnSet(f, {}) = 0
  OBVIOUS
<1>1. Additive([T \in SUBSET {} |-> 0], f, {})
  BY DEF Additive
<1>. QED
  BY <1>1, FS_EmptySet, SumIsAdditive

\* The sum of integers is one.
LEMMA SumInt ==
  ASSUME NEW S, IsFiniteSet(S), NEW f, \A x \in S : f[x] \in Int
  PROVE  SumFunctionOnSet(f, S) \in Int
<1>1. PICK g : Additive(g, f, S)
  BY AdditiveExists
<1>2. g[S] \in Int
  BY <1>1 DEF Additive
<1>. QED
  BY <1>1, <1>2, SumIsAdditive

\* One element more.
LEMMA SumAdd ==
  ASSUME NEW S, IsFiniteSet(S), NEW x, x \notin S, NEW f, \A y \in S \cup {x} : f[y] \in Int
  PROVE  SumFunctionOnSet(f, S \cup {x}) = SumFunctionOnSet(f, S) + f[x]
<1>1. IsFiniteSet(S \cup {x})
  BY FS_AddElement
<1>2. PICK g : Additive(g, f, S \cup {x})
  BY <1>1, AdditiveExists
<1>3. SumFunctionOnSet(f, S \cup {x}) = g[S \cup {x}]
  BY <1>1, <1>2, SumIsAdditive
<1>4. SumFunctionOnSet(f, S) = g[S]
  BY <1>1, <1>2, SumOfSubset
<1>. QED
  BY <1>2, <1>3, <1>4 DEF Additive

\* The sum depends on the values at the elements alone.
LEMMA SumSame ==
  ASSUME NEW S, IsFiniteSet(S), NEW f, NEW g, \A x \in S : f[x] \in Int /\ g[x] = f[x]
  PROVE  SumFunctionOnSet(g, S) = SumFunctionOnSet(f, S)
<1>1. PICK a : Additive(a, f, S)
  BY AdditiveExists
<1>2. Additive(a, g, S)
  BY <1>1 DEF Additive
<1>. QED
  BY <1>1, <1>2, SumIsAdditive

\* One value changes.
LEMMA SumChange ==
  ASSUME NEW S, IsFiniteSet(S), NEW x \in S, NEW f, NEW g,
         \A y \in S : f[y] \in Int, g[x] \in Int, \A y \in S \ {x} : g[y] = f[y]
  PROVE  SumFunctionOnSet(g, S) = SumFunctionOnSet(f, S) - f[x] + g[x]
<1> DEFINE R == S \ {x}
<1>1. IsFiniteSet(R) /\ x \notin R /\ R \cup {x} = S
  BY FS_RemoveElement
<1>2. \A y \in R : f[y] \in Int /\ g[y] = f[y]
  OBVIOUS
<1>3. \A y \in R \cup {x} : f[y] \in Int /\ g[y] \in Int
  OBVIOUS
<1>. HIDE DEF R
<1>4. SumFunctionOnSet(g, R) = SumFunctionOnSet(f, R) /\ SumFunctionOnSet(f, R) \in Int
  BY <1>1, <1>2, SumSame, SumInt
<1>5. /\ SumFunctionOnSet(f, S) = SumFunctionOnSet(f, R) + f[x]
      /\ SumFunctionOnSet(g, S) = SumFunctionOnSet(g, R) + g[x]
  BY <1>1, <1>3, SumAdd
<1>6. f[x] \in Int /\ g[x] \in Int
  OBVIOUS
<1>. QED
  BY <1>4, <1>5, <1>6

\* Elements with the value 0 do not count.
LEMMA SumZeros ==
  ASSUME NEW S, IsFiniteSet(S), NEW T \in SUBSET S, NEW f, \A x \in S : f[x] \in Int,
         \A x \in S \ T : f[x] = 0
  PROVE  SumFunctionOnSet(f, S) = SumFunctionOnSet(f, T)
<1>1. PICK g : Additive(g, f, S)
  BY AdditiveExists
<1> DEFINE F == {U \in SUBSET (S \ T) : g[T \cup U] = g[T]}
<1>2. {} \in F
  <2>1. T \cup {} = T
    OBVIOUS
  <2>. QED
    BY <2>1
<1>3. ASSUME NEW U \in SUBSET (S \ T), NEW x \in (S \ T) \ U, U \in F PROVE U \cup {x} \in F
  <2>1. /\ T \cup U \in SUBSET S /\ x \in S \ (T \cup U)
        /\ T \cup (U \cup {x}) = (T \cup U) \cup {x}
    OBVIOUS
  <2>2. g[(T \cup U) \cup {x}] = g[T \cup U] + f[x] /\ g[T \cup U] \in Int /\ f[x] = 0
    BY <1>1, <2>1 DEF Additive
  <2>3. g[T \cup U] = g[T]
    BY <1>3
  <2>4. g[T \cup (U \cup {x})] = g[T]
    <3>1. g[T \cup (U \cup {x})] = g[(T \cup U) \cup {x}]
      BY <2>1, Zenon
    <3>. QED
      BY <2>2, <2>3, <3>1
  <2>5. U \cup {x} \in SUBSET (S \ T)
    OBVIOUS
  <2>. QED
    BY <2>4, <2>5
<1>4. S \ T \in F
  <2>1. IsFiniteSet(S \ T)
    BY FS_Difference
  <2>. HIDE DEF F
  <2>. QED
    BY <1>2, <1>3, <2>1, ByOneMore
<1>5. g[S] = g[T]
  <2>1. T \cup (S \ T) = S
    OBVIOUS
  <2>. QED
    BY <1>4, <2>1
<1>6. SumFunctionOnSet(f, S) = g[S] /\ SumFunctionOnSet(f, T) = g[T]
  BY <1>1, SumIsAdditive, SumOfSubset
<1>. QED
  BY <1>5, <1>6

\* Greater values have a greater sum.
LEMMA SumMonotonic ==
  ASSUME NEW S, IsFiniteSet(S), NEW f, NEW g,
         \A x \in S : f[x] \in Int /\ g[x] \in Int /\ f[x] <= g[x]
  PROVE  SumFunctionOnSet(f, S) <= SumFunctionOnSet(g, S)
<1>1. PICK a : Additive(a, f, S)
  BY AdditiveExists
<1>2. PICK b : Additive(b, g, S)
  BY AdditiveExists
<1> DEFINE F == {T \in SUBSET S : a[T] <= b[T]}
<1>3. {} \in F
  BY <1>1, <1>2 DEF Additive
<1>4. ASSUME NEW T \in SUBSET S, NEW x \in S \ T, T \in F PROVE T \cup {x} \in F
  <2>1. /\ a[T \cup {x}] = a[T] + f[x] /\ a[T] \in Int
        /\ b[T \cup {x}] = b[T] + g[x] /\ b[T] \in Int
    BY <1>1, <1>2 DEF Additive
  <2>2. a[T] <= b[T] /\ f[x] \in Int /\ g[x] \in Int /\ f[x] <= g[x]
    BY <1>4
  <2>3. a[T \cup {x}] <= b[T \cup {x}]
    BY <2>1, <2>2
  <2>. QED
    BY <2>3
<1>5. S \in F
  <2>. HIDE DEF F
  <2>. QED
    BY <1>3, <1>4, ByOneMore
<1>6. SumFunctionOnSet(f, S) = a[S] /\ SumFunctionOnSet(g, S) = b[S]
  BY <1>1, <1>2, SumIsAdditive
<1>. QED
  BY <1>5, <1>6

\* A cardinality is a sum of ones.
LEMMA SumOnes ==
  ASSUME NEW S, IsFiniteSet(S), NEW f, \A x \in S : f[x] = 1
  PROVE  SumFunctionOnSet(f, S) = Cardinality(S)
<1>1. PICK g : Additive(g, f, S)
  BY AdditiveExists
<1> DEFINE F == {T \in SUBSET S : g[T] = Cardinality(T)}
<1>2. {} \in F
  BY <1>1, FS_EmptySet DEF Additive
<1>3. ASSUME NEW T \in SUBSET S, NEW x \in S \ T, T \in F PROVE T \cup {x} \in F
  <2>1. g[T \cup {x}] = g[T] + f[x] /\ f[x] = 1
    BY <1>1 DEF Additive
  <2>2. IsFiniteSet(T)
    BY FS_Subset
  <2>3. Cardinality(T \cup {x}) = Cardinality(T) + 1
    BY <2>2, FS_AddElement
  <2>. QED
    BY <1>3, <2>1, <2>3
<1>4. S \in F
  <2>. HIDE DEF F
  <2>. QED
    BY <1>2, <1>3, ByOneMore
<1>. QED
  BY <1>1, <1>4, SumIsAdditive

-----------------------------------------------------------------------------
(* Sums of sums.                                                            *)

\* Two sets without a common element.
LEMMA AdditiveUnion ==
  ASSUME NEW S, IsFiniteSet(S), NEW f, \A x \in S : f[x] \in Int, NEW g, Additive(g, f, S),
         NEW T \in SUBSET S, NEW V \in SUBSET S, T \cap V = {}
  PROVE  g[T \cup V] = g[T] + g[V]
<1> DEFINE F == {U \in SUBSET V : g[T \cup U] = g[T] + g[U]}
<1>1. {} \in F
  <2>1. T \cup {} = T /\ g[T] \in Int /\ g[{}] = 0
    BY DEF Additive
  <2>. QED
    BY <2>1
<1>2. ASSUME NEW U \in SUBSET V, NEW x \in V \ U, U \in F PROVE U \cup {x} \in F
  <2>1. /\ T \cup U \in SUBSET S /\ x \in S \ (T \cup U) /\ U \in SUBSET S /\ x \in S \ U
        /\ T \cup (U \cup {x}) = (T \cup U) \cup {x}
    OBVIOUS
  <2>2. /\ g[(T \cup U) \cup {x}] = g[T \cup U] + f[x]
        /\ g[U \cup {x}] = g[U] + f[x]
        /\ g[T] \in Int /\ g[U] \in Int /\ f[x] \in Int
    BY <2>1 DEF Additive
  <2>3. g[T \cup U] = g[T] + g[U]
    BY <1>2
  <2>4. g[T \cup (U \cup {x})] = g[T] + g[U \cup {x}]
    <3>1. g[T \cup (U \cup {x})] = g[(T \cup U) \cup {x}]
      BY <2>1, Zenon
    <3>. QED
      BY <2>2, <2>3, <3>1
  <2>5. U \cup {x} \in SUBSET V
    OBVIOUS
  <2>. QED
    BY <2>4, <2>5
<1>3. V \in F
  <2>1. IsFiniteSet(V)
    BY FS_Subset
  <2>. HIDE DEF F
  <2>. QED
    BY <1>1, <1>2, <2>1, ByOneMore
<1>. QED
  BY <1>3

\* The parts of a partition add up to the whole.
LEMMA SumOfParts ==
  ASSUME NEW S, IsFiniteSet(S), NEW f, \A x \in S : f[x] \in Int,
         NEW B, IsFiniteSet(B), NEW P \in [B -> SUBSET S], UNION {P[b] : b \in B} = S,
         \A b, c \in B : b # c => P[b] \cap P[c] = {},
         NEW h, \A b \in B : h[b] = SumFunctionOnSet(f, P[b])
  PROVE  SumFunctionOnSet(h, B) = SumFunctionOnSet(f, S)
<1>1. PICK g : Additive(g, f, S)
  BY AdditiveExists
<1>2. \A b \in B : h[b] = g[P[b]] /\ h[b] \in Int
  <2>1. SUFFICES ASSUME NEW b \in B PROVE h[b] = g[P[b]] /\ h[b] \in Int
    OBVIOUS
  <2>2. P[b] \in SUBSET S
    OBVIOUS
  <2>3. SumFunctionOnSet(f, P[b]) = g[P[b]]
    BY <1>1, <2>2, SumOfSubset
  <2>4. g[P[b]] \in Int
    BY <1>1, <2>2 DEF Additive
  <2>. QED
    BY <2>3, <2>4
<1>3. PICK k : Additive(k, h, B)
  BY <1>2, AdditiveExists
<1> DEFINE Whole(C) == UNION {P[b] : b \in C}
           F == {C \in SUBSET B : k[C] = g[Whole(C)]}
<1>4. {} \in F
  <2>1. Whole({}) = {}
    OBVIOUS
  <2>. QED
    BY <1>1, <1>3, <2>1 DEF Additive
<1>5. ASSUME NEW C \in SUBSET B, NEW b \in B \ C, C \in F PROVE C \cup {b} \in F
  <2>1. Whole(C \cup {b}) = Whole(C) \cup P[b]
    OBVIOUS
  <2>2. Whole(C) \in SUBSET S /\ P[b] \in SUBSET S /\ Whole(C) \cap P[b] = {}
    OBVIOUS
  <2>3. g[Whole(C) \cup P[b]] = g[Whole(C)] + g[P[b]]
    <3>. HIDE DEF Whole
    <3>. QED
      BY <1>1, <2>2, AdditiveUnion
  <2>4. k[C \cup {b}] = k[C] + h[b] /\ h[b] = g[P[b]]
    BY <1>2, <1>3 DEF Additive
  <2>5. k[C] = g[Whole(C)]
    BY <1>5
  <2>6. k[C \cup {b}] = g[Whole(C \cup {b})]
    BY <2>1, <2>3, <2>4, <2>5
  <2>7. C \cup {b} \in SUBSET B
    OBVIOUS
  <2>. QED
    BY <2>6, <2>7
<1>6. B \in F
  <2>. HIDE DEF F
  <2>. QED
    BY <1>4, <1>5, ByOneMore
<1>7. k[B] = g[S]
  BY <1>6
<1>8. SumFunctionOnSet(h, B) = k[B] /\ SumFunctionOnSet(f, S) = g[S]
  BY <1>1, <1>2, <1>3, SumIsAdditive
<1>. QED
  BY <1>7, <1>8
=============================================================================
