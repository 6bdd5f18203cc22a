----------------------------- MODULE FiniteSums -----------------------------
(***************************************************************************)
(* Sums and sizes of finite sets: what MapThenSumSet of the community      *)
(* modules computes.  Its recursive function exists and is unique, and the *)
(* order in which CHOOSE takes the elements does not matter.               *)
(***************************************************************************)
EXTENDS Integers, FiniteSets, FiniteSetsExt, FiniteSetTheorems, TLAPS

\* The sum of the weights w[x] of the elements of S.
SumOver(w, S) == MapThenSumSet(LAMBDA x : w[x], S)

Some(s) == CHOOSE x \in s : TRUE

\* The recursion of MapThenSumSet, on the subsets of S.
Sums(w, S, f) ==
  f = [s \in SUBSET S |-> IF s = {} THEN 0 ELSE w[Some(s)] + f[s \ {Some(s)}]]

---------------------------------------------------------------------------
\* Induction over the subsets of a finite set.
LEMMA SubsetInduction ==
  ASSUME NEW S, IsFiniteSet(S), NEW P,
         \A T \in SUBSET S : (\A U \in SUBSET T : U # T => U \in P) => T \in P
  PROVE  SUBSET S \subseteq P
<1> SUFFICES ASSUME (SUBSET S) \ P # {} PROVE FALSE
  OBVIOUS
<1>0. FiniteSubsetsOf(S) = SUBSET S
  BY FS_FiniteSubsetsOfFinite
<1>1. IsWellFoundedOn(StrictSubsetOrdering(S), SUBSET S)
  <2>1. IsWellFoundedOn(StrictSubsetOrdering(S), FiniteSubsetsOf(S))
    BY FS_StrictSubsetOrderingWellFounded
  <2> QED BY <1>0, <2>1
<1> DEFINE R == StrictSubsetOrdering(S)
           D == SUBSET S
           Q == D \ P
<1>2. \E T \in Q : \A U \in Q : ~ (<<U, T>> \in R)
  <2>1. IsWellFoundedOn(R, D) /\ Q \subseteq D /\ Q # {}
    BY <1>1
  <2> HIDE DEF R, D, Q
  <2> QED BY <2>1, WFMin
<1>4. PICK T \in Q : \A U \in Q : <<U, T>> \notin R
  BY <1>2
<1>3. \A U \in SUBSET T : U # T => U \in P
  BY <1>4 DEF StrictSubsetOrdering
<1> QED BY <1>4, <1>3

LEMMA SomeIsElement == ASSUME NEW S, S # {} PROVE Some(S) \in S
BY DEF Some

LEMMA SumsStep ==
  ASSUME NEW S, NEW w, NEW f, Sums(w, S, f), NEW s \in SUBSET S
  PROVE  f[s] = IF s = {} THEN 0 ELSE w[Some(s)] + f[s \ {Some(s)}]
BY DEF Sums

\* The recursion determines its values, whatever the set it began with.
LEMMA SumsAgree ==
  ASSUME NEW S, IsFiniteSet(S), NEW T \in SUBSET S, NEW w, NEW f, NEW g,
         Sums(w, S, f), Sums(w, T, g)
  PROVE  \A s \in SUBSET T : f[s] = g[s]
<1> DEFINE P == {s \in SUBSET T : f[s] = g[s]}
<1>1. ASSUME NEW s \in SUBSET T, \A u \in SUBSET s : u # s => u \in P PROVE s \in P
  <2>1. CASE s = {}
    BY <2>1, SumsStep
  <2>2. CASE s # {}
    <3>1. Some(s) \in s /\ s \ {Some(s)} \in SUBSET s /\ s \ {Some(s)} # s
      BY <2>2, SomeIsElement
    <3>2. f[s \ {Some(s)}] = g[s \ {Some(s)}]
      BY <1>1, <3>1
    <3>3. f[s] = w[Some(s)] + f[s \ {Some(s)}]
      BY <2>2, SumsStep
    <3>4. g[s] = w[Some(s)] + g[s \ {Some(s)}]
      BY <2>2, SumsStep
    <3> QED BY <3>2, <3>3, <3>4
  <2> QED BY <2>1, <2>2
<1>2. IsFiniteSet(T)
  BY FS_Subset
<1> HIDE DEF P
<1>3. SUBSET T \subseteq P
  BY <1>1, <1>2, SubsetInduction
<1> QED BY <1>3 DEF P

LEMMA SumsExist ==
  ASSUME NEW S, IsFiniteSet(S), NEW w
  PROVE  \E f : Sums(w, S, f)
<1> DEFINE P == {T \in SUBSET S : \E f : Sums(w, T, f)}
<1>1. ASSUME NEW T \in SUBSET S, \A U \in SUBSET T : U # T => U \in P PROVE T \in P
  <2> DEFINE F(U) == CHOOSE f : Sums(w, U, f)
  <2>1. \A U \in SUBSET T : U # T => Sums(w, U, F(U))
    <3> SUFFICES ASSUME NEW U \in SUBSET T, U # T PROVE Sums(w, U, F(U))
      OBVIOUS
    <3>1. \E f : Sums(w, U, f)
      BY <1>1
    <3> QED BY <3>1
  <2> HIDE DEF F
  <2> DEFINE t == Some(T)
             h == [s \in SUBSET T |->
                     IF s # T THEN F(s)[s]
                     ELSE IF T = {} THEN 0 ELSE w[t] + F(T \ {t})[T \ {t}]]
  <2>2. ASSUME NEW s \in SUBSET T
        PROVE  h[s] = IF s = {} THEN 0 ELSE w[Some(s)] + h[s \ {Some(s)}]
    <3>1. CASE s = {} /\ s # T
      BY <2>1, <3>1, SumsStep
    <3>2. CASE s = {} /\ s = T
      BY <3>2
    <3>3. CASE s # {} /\ s = T
      <4>1. t \in T /\ T \ {t} \in SUBSET T /\ T \ {t} # T
        BY <3>3, SomeIsElement
      <4>2. h[T \ {t}] = F(T \ {t})[T \ {t}]
        BY <4>1
      <4> QED BY <3>3, <4>2
    <3>4. CASE s # {} /\ s # T
      <4> DEFINE x == Some(s)
                 u == s \ {x}
      <4>1. x \in s /\ u \in SUBSET s /\ u \in SUBSET T /\ u # T
        BY <3>4, SomeIsElement
      <4>2. Sums(w, s, F(s)) /\ Sums(w, u, F(u))
        BY <2>1, <3>4, <4>1
      <4>3. h[s] = F(s)[s] /\ h[u] = F(u)[u]
        BY <3>4, <4>1
      <4> HIDE DEF h
      <4>4. F(s)[s] = w[x] + F(s)[u]
        BY <3>4, <4>2, SumsStep
      <4>5. IsFiniteSet(s)
        BY FS_Subset
      <4>6. F(s)[u] = F(u)[u]
        BY <4>1, <4>2, <4>5, SumsAgree
      <4> QED BY <3>4, <4>3, <4>4, <4>6
    <3> QED BY <3>1, <3>2, <3>3, <3>4
  <2>3. Sums(w, T, h)
    <3> DEFINE k == [s \in SUBSET T |-> IF s = {} THEN 0 ELSE w[Some(s)] + h[s \ {Some(s)}]]
    <3>1. \A s \in SUBSET T : h[s] = k[s]
      BY <2>2
    <3>2. h = k
      BY <3>1
    <3> HIDE DEF h
    <3> QED BY <3>2 DEF Sums
  <2> QED BY <2>3
<1> HIDE DEF P
<1>2. SUBSET S \subseteq P
  BY <1>1, SubsetInduction
<1> QED BY <1>2 DEF P

---------------------------------------------------------------------------
\* A function that satisfies the recursion has the sum as its value.
LEMMA SumIsValue ==
  ASSUME NEW S, IsFiniteSet(S), NEW T \in SUBSET S, NEW w, NEW f, Sums(w, S, f)
  PROVE  SumOver(w, T) = f[T]
<1> DEFINE G == CHOOSE g : Sums(w, T, g)
<1>1. SumOver(w, T) = G[T]
  BY DEF SumOver, MapThenSumSet, MapThenFoldSet, Sums, Some
<1>2. IsFiniteSet(T)
  BY FS_Subset
<1>3. Sums(w, T, G)
  BY <1>2, SumsExist
<1> HIDE DEF G
<1> QED BY <1>1, <1>3, SumsAgree

LEMMA SumEmpty == ASSUME NEW w PROVE SumOver(w, {}) = 0
<1>1. IsFiniteSet({}) /\ {} \in SUBSET {}
  BY FS_EmptySet
<1>2. PICK f : Sums(w, {}, f)
  BY <1>1, SumsExist
<1>3. SumOver(w, {}) = f[{}]
  BY <1>1, <1>2, SumIsValue
<1>4. f[{}] = 0
  BY <1>2, SumsStep
<1> QED BY <1>3, <1>4

Weights(w, S) == \A x \in S : w[x] \in Int

\* Any element may be taken out first.
TakesAnyFirst(w, S, f) ==
  \A T \in SUBSET S : f[T] \in Int /\ \A x \in T : f[T] = w[x] + f[T \ {x}]

LEMMA SumsTakeOut ==
  ASSUME NEW S, IsFiniteSet(S), NEW w, Weights(w, S), NEW f, Sums(w, S, f)
  PROVE  TakesAnyFirst(w, S, f)
<1> DEFINE P == {T \in SUBSET S : f[T] \in Int /\ \A x \in T : f[T] = w[x] + f[T \ {x}]}
<1>1. ASSUME NEW T \in SUBSET S, \A U \in SUBSET T : U # T => U \in P PROVE T \in P
  <2>1. CASE T = {}
    <3>1. f[T] = 0
      BY <2>1, SumsStep
    <3> QED BY <2>1, <3>1
  <2>2. CASE T # {}
    <3>0. PICK y : y = Some(T)
      OBVIOUS
    <3>1. y \in T /\ T \ {y} \in SUBSET T /\ T \ {y} # T
      BY <2>2, <3>0, SomeIsElement
    <3>2. f[T] = w[y] + f[T \ {y}]
      <4>1. f[T] = w[Some(T)] + f[T \ {Some(T)}]
        BY <2>2, SumsStep
      <4> QED BY <3>0, <4>1
    <3>3. f[T \ {y}] \in Int /\ w[y] \in Int
      BY <1>1, <3>1 DEF Weights
    <3>4. ASSUME NEW x \in T, x # y PROVE f[T] = w[x] + f[T \ {x}]
      <4> DEFINE U == (T \ {x}) \ {y}
      <4>1. /\ x \in T \ {y} /\ y \in T \ {x}
            /\ T \ {x} \in SUBSET T /\ T \ {x} # T
            /\ U \in SUBSET T /\ U # T
            /\ (T \ {y}) \ {x} = U
        BY <3>1, <3>4
      <4>2. f[T \ {y}] = w[x] + f[U]
        BY <1>1, <3>1, <4>1
      <4>3. f[T \ {x}] = w[y] + f[U]
        BY <1>1, <4>1
      <4>4. f[U] \in Int /\ w[x] \in Int
        BY <1>1, <4>1 DEF Weights
      <4> HIDE DEF U
      <4> QED BY <3>2, <3>3, <4>2, <4>3, <4>4
    <3>5. \A x \in T : f[T] = w[x] + f[T \ {x}]
      BY <3>2, <3>4
    <3>6. f[T] \in Int
      BY <3>2, <3>3
    <3> QED BY <3>5, <3>6
  <2> QED BY <2>1, <2>2
<1> HIDE DEF P
<1>2. SUBSET S \subseteq P
  BY <1>1, SubsetInduction
<1> QED BY <1>2 DEF P, TakesAnyFirst

(* A sum takes any element of its set out: Total and TotalOf, the sums of  *)
(* getTransferVelocity and assertPurchaseLimits, grow by what is added.    *)
THEOREM SumAddElement ==
  ASSUME NEW S, IsFiniteSet(S), NEW w, Weights(w, S),
         NEW T \in SUBSET S, NEW x \in S, x \notin T
  PROVE  /\ SumOver(w, T) \in Int
         /\ SumOver(w, T \cup {x}) = SumOver(w, T) + w[x]
<1>1. PICK f : Sums(w, S, f)
  BY SumsExist
<1>2. TakesAnyFirst(w, S, f)
  BY <1>1, SumsTakeOut
<1> DEFINE U == T \cup {x}
<1>3. U \ {x} = T /\ U \in SUBSET S /\ x \in U /\ w[x] \in Int
  BY DEF Weights
<1>4. SumOver(w, T) = f[T] /\ SumOver(w, U) = f[U]
  BY <1>1, <1>3, SumIsValue
<1>5. f[T] \in Int /\ f[U] = w[x] + f[T]
  BY <1>2, <1>3 DEF TakesAnyFirst
<1> HIDE DEF U
<1>6. SumOver(w, U) = SumOver(w, T) + w[x] /\ SumOver(w, T) \in Int
  BY <1>3, <1>4, <1>5
<1> QED BY <1>6 DEF U

\* Weights that are not negative: a part weighs no more than the whole.
LEMMA SumsGrow ==
  ASSUME NEW S, IsFiniteSet(S), NEW w, \A x \in S : w[x] \in Nat, NEW f, Sums(w, S, f)
  PROVE  \A U \in SUBSET S : f[U] \in Nat /\ \A T \in SUBSET U : f[T] <= f[U]
<1> DEFINE P == {U \in SUBSET S : f[U] \in Nat /\ \A T \in SUBSET U : f[T] <= f[U]}
<1>0. TakesAnyFirst(w, S, f)
  BY SumsTakeOut DEF Weights
<1>1. ASSUME NEW U \in SUBSET S, \A V \in SUBSET U : V # U => V \in P PROVE U \in P
  <2>1. CASE U = {}
    <3>1. f[U] = 0
      BY <2>1, SumsStep
    <3> QED BY <2>1, <3>1
  <2>2. CASE U # {}
    <3>1. ASSUME NEW x \in U
          PROVE  /\ f[U] = w[x] + f[U \ {x}] /\ w[x] \in Nat /\ f[U \ {x}] \in Nat
                 /\ \A T \in SUBSET (U \ {x}) : f[T] \in Nat /\ f[T] <= f[U \ {x}]
      BY <1>0, <1>1 DEF TakesAnyFirst
    <3>2. f[U] \in Nat
      <4>1. PICK x \in U : TRUE
        BY <2>2
      <4>2. f[U] = w[x] + f[U \ {x}] /\ w[x] \in Nat /\ f[U \ {x}] \in Nat
        BY <3>1
      <4> QED BY <4>2
    <3>3. ASSUME NEW T \in SUBSET U, T # U PROVE f[T] <= f[U]
      <4>1. PICK x \in U : x \notin T
        BY <3>3
      <4>2. T \in SUBSET (U \ {x})
        BY <4>1
      <4>3. f[U] = w[x] + f[U \ {x}] /\ w[x] \in Nat /\ f[U \ {x}] \in Nat
        BY <3>1
      <4>4. f[T] \in Nat /\ f[T] <= f[U \ {x}]
        BY <3>1, <4>2
      <4> QED BY <4>3, <4>4
    <3>4. f[U] <= f[U]
      BY <3>2
    <3> QED BY <3>2, <3>3, <3>4
  <2> QED BY <2>1, <2>2
<1> HIDE DEF P
<1>2. SUBSET S \subseteq P
  BY <1>1, SubsetInduction
<1> QED BY <1>2 DEF P

(* A part of a set of natural weights weighs no more than the set: a       *)
(* shorter history costs less (getTransferVelocity, assertPurchaseLimits). *)
THEOREM SumGrows ==
  ASSUME NEW S, IsFiniteSet(S), NEW w, \A x \in S : w[x] \in Nat, NEW T \in SUBSET S
  PROVE  /\ SumOver(w, T) \in Nat
         /\ SumOver(w, T) <= SumOver(w, S)
<1>1. PICK f : Sums(w, S, f)
  BY SumsExist
<1>2. \A U \in SUBSET S : f[U] \in Nat /\ \A V \in SUBSET U : f[V] <= f[U]
  BY <1>1, SumsGrow
<1>3. SumOver(w, T) = f[T] /\ SumOver(w, S) = f[S]
  BY <1>1, SumIsValue
<1> QED BY <1>2, <1>3

\* Only the weights of the set count.
LEMMA SameWeights ==
  ASSUME NEW S, IsFiniteSet(S), NEW w, NEW v, \A x \in S : w[x] = v[x]
  PROVE  SumOver(w, S) = SumOver(v, S)
<1>1. PICK f : Sums(w, S, f)
  BY SumsExist
<1>2. Sums(v, S, f)
  <2>1. \A s \in SUBSET S : s # {} => w[Some(s)] = v[Some(s)]
    BY SomeIsElement
  <2> QED BY <1>1, <2>1 DEF Sums
<1> QED BY <1>1, <1>2, SumIsValue

\* Nothing weighs nothing.
LEMMA ZeroSum ==
  ASSUME NEW S, IsFiniteSet(S), NEW w, \A x \in S : w[x] = 0
  PROVE  SumOver(w, S) = 0
<1>1. PICK f : Sums(w, S, f)
  BY SumsExist
<1> DEFINE P == {T \in SUBSET S : f[T] = 0}
<1>2. ASSUME NEW T \in SUBSET S, \A U \in SUBSET T : U # T => U \in P PROVE T \in P
  <2>1. CASE T = {}
    BY <1>1, <2>1, SumsStep
  <2>2. CASE T # {}
    <3>1. Some(T) \in T /\ T \ {Some(T)} \in SUBSET T /\ T \ {Some(T)} # T
      BY <2>2, SomeIsElement
    <3>2. f[T] = w[Some(T)] + f[T \ {Some(T)}]
      BY <1>1, <2>2, SumsStep
    <3>3. w[Some(T)] = 0 /\ f[T \ {Some(T)}] = 0
      BY <1>2, <3>1
    <3> QED BY <3>2, <3>3
  <2> QED BY <2>1, <2>2
<1> HIDE DEF P
<1>3. SUBSET S \subseteq P
  BY <1>2, SubsetInduction
<1>4. f[S] = 0
  BY <1>3 DEF P
<1> QED BY <1>1, <1>4, SumIsValue

---------------------------------------------------------------------------
(* Sizes.                                                                  *)

\* A part is no larger than the whole.
LEMMA SubsetSize ==
  ASSUME NEW S, IsFiniteSet(S), NEW T \in SUBSET S
  PROVE  IsFiniteSet(T) /\ Cardinality(T) \in Nat /\ Cardinality(S) \in Nat
         /\ Cardinality(T) <= Cardinality(S)
BY FS_Subset, FS_CardinalityType

\* One element more makes a set at most one larger.
LEMMA AddSize ==
  ASSUME NEW S, IsFiniteSet(S), NEW y
  PROVE  /\ IsFiniteSet(S \cup {y}) /\ Cardinality(S) \in Nat /\ Cardinality(S \cup {y}) \in Nat
         /\ Cardinality(S \cup {y}) <= Cardinality(S) + 1
<1>1. Cardinality(S) \in Nat
  BY FS_CardinalityType
<1>2. /\ IsFiniteSet(S \cup {y})
      /\ Cardinality(S \cup {y}) = Cardinality(S) \/ Cardinality(S \cup {y}) = Cardinality(S) + 1
  BY FS_AddElement
<1> QED BY <1>1, <1>2
=============================================================================
