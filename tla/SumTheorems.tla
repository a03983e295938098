---------------------------- MODULE SumTheorems -----------------------------
(***************************************************************************)
(* What sums over finite sets do. The components keep totals beside what   *)
(* they are totals of: the bytes of an upload and of its chunks, the bytes *)
(* of a link and of its files, what a limiter let through per window.      *)
(*                                                                         *)
(* SumFunctionOnSet is a fold, a recursive function over the subsets of a  *)
(* set. Induction here is over sets of sets: among the subsets for which   *)
(* something fails one would be smallest, and that one is looked at.       *)
(***************************************************************************)
EXTENDS Integers, FiniteSets, Functions, FiniteSetsExt, FiniteSetTheorems, TLAPS

-----------------------------------------------------------------------------
(* Induction *)

\* Of the subsets of a finite set that are bad, one is smallest.
LEMMA SmallestSubset ==
    ASSUME NEW S, IsFiniteSet(S), NEW Bad \in SUBSET SUBSET S, Bad # {}
    PROVE  \E T \in Bad : \A U \in Bad : U \subseteq T => U = T
<1>1. IsWellFoundedOn(StrictSubsetOrdering(S), FiniteSubsetsOf(S))
  BY FS_StrictSubsetOrderingWellFounded
<1>2. Bad \subseteq FiniteSubsetsOf(S)
  BY FS_FiniteSubsetsOfFinite
<1>3. \E T \in Bad : \A U \in Bad : ~ (<<U, T>> \in StrictSubsetOrdering(S))
  BY <1>1, <1>2, WFMin
<1> QED
  BY <1>3 DEF StrictSubsetOrdering

AnyOf(T) == CHOOSE x \in T : TRUE

\* The element the fold takes first is one of the set.
LEMMA AnyIn == ASSUME NEW T, T # {} PROVE AnyOf(T) \in T
  BY DEF AnyOf

\* g adds up f over the subsets of S, element by element
Sums(f, S, g) ==
    g = [T \in SUBSET S |-> IF T = {} THEN 0 ELSE f[AnyOf(T)] + g[T \ {AnyOf(T)}]]

\* A sum is what a function that adds up says of the whole set.
LEMMA SumDef ==
    ASSUME NEW f, NEW S
    PROVE  SumFunctionOnSet(f, S) = (CHOOSE g : Sums(f, S, g))[S]
  BY DEF SumFunctionOnSet, FoldFunctionOnSet, MapThenFoldSet, Sums, AnyOf

\* Functions that add up over a set and over a part of it agree on the part.
LEMMA SumsAgree ==
    ASSUME NEW f, NEW S, IsFiniteSet(S), NEW T \in SUBSET S, NEW g, NEW h,
           Sums(f, S, g), Sums(f, T, h)
    PROVE  \A U \in SUBSET T : g[U] = h[U]
<1> DEFINE Bad == {U \in SUBSET T : g[U] # h[U]}
<1> SUFFICES ASSUME Bad # {} PROVE FALSE
  OBVIOUS
<1>0. Bad \in SUBSET SUBSET T
  OBVIOUS
<1> HIDE DEF Bad
<1>1. PICK U \in Bad : \A V \in Bad : V \subseteq U => V = U
  <2>1. IsFiniteSet(T)
    BY FS_Subset
  <2> QED
    BY <2>1, <1>0, SmallestSubset
<1> USE DEF Bad
<1> DEFINE V == U \ {AnyOf(U)}
<1>2. U # {}
  BY DEF Sums
<1>3. V \in SUBSET T /\ V # U
  BY <1>2, AnyIn
<1>4. g[V] = h[V]
  BY <1>1, <1>3
<1>5. g[U] = f[AnyOf(U)] + g[V] /\ h[U] = f[AnyOf(U)] + h[V]
  BY <1>2 DEF Sums
<1> QED
  BY <1>4, <1>5

\* So each of them gives the sums of the parts.
LEMMA SumsOfSmaller ==
    ASSUME NEW f, NEW S, IsFiniteSet(S), NEW g, Sums(f, S, g), NEW T \in SUBSET S,
           \E h : Sums(f, T, h)
    PROVE  g[T] = SumFunctionOnSet(f, T)
<1> DEFINE h == CHOOSE h : Sums(f, T, h)
<1>1. Sums(f, T, h)
  OBVIOUS
<1> HIDE DEF h
<1>2. g[T] = h[T]
  BY <1>1, SumsAgree
<1> QED
  BY <1>2, SumDef DEF h

\* There is one for every finite set: the sums of the smaller sets define it.
LEMMA SumsExist ==
    ASSUME NEW f, NEW S, IsFiniteSet(S)
    PROVE  \E g : Sums(f, S, g)
<1> DEFINE Bad == {T \in SUBSET S : ~ \E g : Sums(f, T, g)}
<1> SUFFICES ASSUME Bad # {} PROVE FALSE
  OBVIOUS
<1>0. Bad \in SUBSET SUBSET S
  OBVIOUS
<1> HIDE DEF Bad
<1>1. PICK T \in Bad : \A U \in Bad : U \subseteq T => U = T
  BY <1>0, SmallestSubset
<1> USE DEF Bad
<1> DEFINE Sum(U) == SumFunctionOnSet(f, U)
           Next(U) == IF U = {} THEN 0 ELSE f[AnyOf(U)] + Sum(U \ {AnyOf(U)})
           h == [U \in SUBSET T |-> Next(U)]
<1>2. ASSUME NEW U \in SUBSET T, U # T
      PROVE  Sum(U) = Next(U)
  <2>1. PICK g : Sums(f, U, g)
    BY <1>1, <1>2
  <2>2. IsFiniteSet(U)
    BY FS_Subset
  <2>3. g[U] = Sum(U)
    BY <2>1, <2>2, SumsOfSmaller
  <2>4. CASE U = {}
    BY <2>1, <2>3, <2>4 DEF Sums
  <2>5. CASE U # {}
    <3> DEFINE V == U \ {AnyOf(U)}
    <3>1. V \in SUBSET T /\ V \in SUBSET U /\ V # T
      BY <2>5, <1>2, AnyIn
    <3>2. \E e : Sums(f, V, e)
      BY <1>1, <3>1
    <3>3. g[V] = Sum(V)
      BY <2>1, <2>2, <3>1, <3>2, SumsOfSmaller
    <3>4. g[U] = f[AnyOf(U)] + g[V]
      BY <2>1, <2>5, <3>1 DEF Sums
    <3> QED
      BY <2>3, <2>5, <3>3, <3>4
  <2> QED
    BY <2>4, <2>5
<1>3. Sums(f, T, h)
  <2> SUFFICES ASSUME NEW U \in SUBSET T, U # {}
               PROVE  Sum(U \ {AnyOf(U)}) = h[U \ {AnyOf(U)}]
    BY DEF Sums
  <2>1. U \ {AnyOf(U)} \in SUBSET T /\ U \ {AnyOf(U)} # T
    BY AnyIn
  <2> QED
    BY <2>1, <1>2
<1> QED
  BY <1>1, <1>3

-----------------------------------------------------------------------------
(* The laws of sums *)

\* Nothing adds up to zero.
LEMMA SumOfNone == ASSUME NEW f PROVE SumFunctionOnSet(f, {}) = 0
<1>1. PICK g : Sums(f, {}, g)
  BY SumsExist, FS_EmptySet
<1>2. g[{}] = SumFunctionOnSet(f, {})
  BY <1>1, FS_EmptySet, SumsOfSmaller
<1> QED
  BY <1>1, <1>2 DEF Sums

\* The fold's own equation.
LEMMA SumByChoice ==
    ASSUME NEW f, NEW S, IsFiniteSet(S), S # {}
    PROVE  SumFunctionOnSet(f, S) = f[AnyOf(S)] + SumFunctionOnSet(f, S \ {AnyOf(S)})
<1>1. PICK g : Sums(f, S, g)
  BY SumsExist
<1> DEFINE T == S \ {AnyOf(S)}
<1>2. IsFiniteSet(T)
  BY FS_Subset
<1>3. g[S] = SumFunctionOnSet(f, S) /\ g[T] = SumFunctionOnSet(f, T)
  BY <1>1, <1>2, SumsExist, SumsOfSmaller
<1>4. g[S] = f[AnyOf(S)] + g[T]
  BY <1>1 DEF Sums
<1> QED
  BY <1>3, <1>4

\* A sum of integers is one.
LEMMA SumIsInt ==
    ASSUME NEW f, NEW S, IsFiniteSet(S), \A x \in S : f[x] \in Int
    PROVE  SumFunctionOnSet(f, S) \in Int
<1> DEFINE Bad == {T \in SUBSET S : SumFunctionOnSet(f, T) \notin Int}
<1> SUFFICES ASSUME Bad # {} PROVE FALSE
  OBVIOUS
<1>0. Bad \in SUBSET SUBSET S
  OBVIOUS
<1> HIDE DEF Bad
<1>1. PICK T \in Bad : \A U \in Bad : U \subseteq T => U = T
  BY <1>0, SmallestSubset
<1> USE DEF Bad
<1>2. T # {}
  BY SumOfNone
<1>3. AnyOf(T) \in T
  BY <1>2, AnyIn
<1>4. SumFunctionOnSet(f, T \ {AnyOf(T)}) \in Int
  BY <1>1, <1>3
<1>5. SumFunctionOnSet(f, T) = f[AnyOf(T)] + SumFunctionOnSet(f, T \ {AnyOf(T)})
  BY <1>2, FS_Subset, SumByChoice
<1> QED
  BY <1>3, <1>4, <1>5

\* Any element may be taken out first, not only the one the fold takes.
LEMMA SumTakesOut ==
    ASSUME NEW f, NEW S, IsFiniteSet(S), \A x \in S : f[x] \in Int, NEW y \in S
    PROVE  SumFunctionOnSet(f, S) = f[y] + SumFunctionOnSet(f, S \ {y})
<1> DEFINE Sum(T) == SumFunctionOnSet(f, T)
           Bad == {T \in SUBSET S : \E x \in T : Sum(T) # f[x] + Sum(T \ {x})}
<1> HIDE DEF Sum
<1> SUFFICES ASSUME Bad # {} PROVE FALSE
  BY DEF Sum
<1>0. Bad \in SUBSET SUBSET S
  OBVIOUS
<1> HIDE DEF Bad
<1>1. PICK T \in Bad : \A U \in Bad : U \subseteq T => U = T
  BY <1>0, SmallestSubset
<1> USE DEF Bad
<1>2. PICK x \in T : Sum(T) # f[x] + Sum(T \ {x})
  OBVIOUS
<1> DEFINE c == AnyOf(T)
<1> HIDE DEF c
<1>3. c \in T /\ Sum(T) = f[c] + Sum(T \ {c})
  BY <1>2, FS_Subset, AnyIn, SumByChoice DEF Sum, c
<1>4. x # c
  BY <1>2, <1>3
<1>5. T \ {c} \notin Bad /\ T \ {x} \notin Bad
  BY <1>1, <1>3
<1>6. Sum(T \ {c}) = f[x] + Sum(T \ {x, c})
  <2>1. (T \ {c}) \ {x} = T \ {x, c} /\ x \in T \ {c}
    BY <1>4
  <2> QED
    BY <1>5, <2>1
<1>7. Sum(T \ {x}) = f[c] + Sum(T \ {x, c})
  <2>1. (T \ {x}) \ {c} = T \ {x, c} /\ c \in T \ {x}
    BY <1>3, <1>4
  <2> QED
    BY <1>5, <2>1
<1>8. Sum(T \ {x, c}) \in Int
  BY FS_Subset, SumIsInt DEF Sum
<1> QED
  BY <1>2, <1>3, <1>6, <1>7, <1>8

\* A sum of natural numbers is one.
LEMMA SumIsNat ==
    ASSUME NEW f, NEW S, IsFiniteSet(S), \A x \in S : f[x] \in Nat
    PROVE  SumFunctionOnSet(f, S) \in Nat
<1> DEFINE Sum(T) == SumFunctionOnSet(f, T)
           Bad == {T \in SUBSET S : Sum(T) \notin Nat}
<1> HIDE DEF Sum
<1> SUFFICES ASSUME Bad # {} PROVE FALSE
  BY DEF Sum
<1>0. Bad \in SUBSET SUBSET S
  OBVIOUS
<1> HIDE DEF Bad
<1>1. PICK T \in Bad : \A U \in Bad : U \subseteq T => U = T
  BY <1>0, SmallestSubset
<1> USE DEF Bad
<1>2. PICK y \in T : TRUE
  BY SumOfNone DEF Sum
<1>3. Sum(T) = f[y] + Sum(T \ {y})
  BY <1>2, FS_Subset, SumTakesOut DEF Sum
<1>4. Sum(T \ {y}) \in Nat
  BY <1>1, <1>2
<1> QED
  BY <1>2, <1>3, <1>4

\* An element more adds its value.
LEMMA SumTakesIn ==
    ASSUME NEW f, NEW S, IsFiniteSet(S), NEW y, y \notin S,
           \A x \in S \union {y} : f[x] \in Int
    PROVE  SumFunctionOnSet(f, S \union {y}) = SumFunctionOnSet(f, S) + f[y]
<1>1. IsFiniteSet(S \union {y})
  BY FS_AddElement
<1>2. (S \union {y}) \ {y} = S /\ y \in S \union {y}
  OBVIOUS
<1>3. SumFunctionOnSet(f, S \union {y}) = f[y] + SumFunctionOnSet(f, S)
  BY <1>1, <1>2, SumTakesOut
<1>4. SumFunctionOnSet(f, S) \in Int /\ f[y] \in Int
  BY SumIsInt
<1> QED
  BY <1>3, <1>4

\* Only the values at the elements count.
LEMMA SumOfSame ==
    ASSUME NEW f, NEW g, NEW S, IsFiniteSet(S), \A x \in S : f[x] = g[x]
    PROVE  SumFunctionOnSet(f, S) = SumFunctionOnSet(g, S)
<1> DEFINE Bad == {T \in SUBSET S : SumFunctionOnSet(f, T) # SumFunctionOnSet(g, T)}
<1> SUFFICES ASSUME Bad # {} PROVE FALSE
  OBVIOUS
<1>0. Bad \in SUBSET SUBSET S
  OBVIOUS
<1> HIDE DEF Bad
<1>1. PICK T \in Bad : \A U \in Bad : U \subseteq T => U = T
  BY <1>0, SmallestSubset
<1> USE DEF Bad
<1>2. T # {}
  BY SumOfNone
<1>3. AnyOf(T) \in T /\ IsFiniteSet(T)
  BY <1>2, AnyIn, FS_Subset
<1>4. SumFunctionOnSet(f, T \ {AnyOf(T)}) = SumFunctionOnSet(g, T \ {AnyOf(T)})
  BY <1>1, <1>3
<1>5. SumFunctionOnSet(f, T) = f[AnyOf(T)] + SumFunctionOnSet(f, T \ {AnyOf(T)})
  BY <1>2, <1>3, SumByChoice
<1>6. SumFunctionOnSet(g, T) = g[AnyOf(T)] + SumFunctionOnSet(g, T \ {AnyOf(T)})
  BY <1>2, <1>3, SumByChoice
<1> QED
  BY <1>3, <1>4, <1>5, <1>6

\* When one value changes the sum changes by as much.
LEMMA SumChanges ==
    ASSUME NEW f, NEW g, NEW S, IsFiniteSet(S), NEW y \in S,
           \A x \in S : f[x] \in Int /\ g[x] \in Int,
           \A x \in S \ {y} : f[x] = g[x]
    PROVE  SumFunctionOnSet(g, S) = SumFunctionOnSet(f, S) - f[y] + g[y]
<1> DEFINE T == S \ {y}
<1>1. IsFiniteSet(T)
  BY FS_Subset
<1>2. SumFunctionOnSet(f, S) = f[y] + SumFunctionOnSet(f, T)
  BY SumTakesOut
<1>3. SumFunctionOnSet(g, S) = g[y] + SumFunctionOnSet(g, T)
  BY SumTakesOut
<1>4. SumFunctionOnSet(f, T) = SumFunctionOnSet(g, T)
  BY <1>1, SumOfSame
<1>5. SumFunctionOnSet(f, T) \in Int
  BY <1>1, SumIsInt
<1>6. f[y] \in Int /\ g[y] \in Int
  OBVIOUS
<1> HIDE DEF T
<1> QED
  BY <1>2, <1>3, <1>4, <1>5, <1>6

\* Zeros add up to zero.
LEMMA SumOfZeros ==
    ASSUME NEW f, NEW S, IsFiniteSet(S), \A x \in S : f[x] = 0
    PROVE  SumFunctionOnSet(f, S) = 0
<1> DEFINE Bad == {T \in SUBSET S : SumFunctionOnSet(f, T) # 0}
<1> SUFFICES ASSUME Bad # {} PROVE FALSE
  OBVIOUS
<1>0. Bad \in SUBSET SUBSET S
  OBVIOUS
<1> HIDE DEF Bad
<1>1. PICK T \in Bad : \A U \in Bad : U \subseteq T => U = T
  BY <1>0, SmallestSubset
<1> USE DEF Bad
<1>2. T # {}
  BY SumOfNone
<1>3. AnyOf(T) \in T /\ IsFiniteSet(T)
  BY <1>2, AnyIn, FS_Subset
<1>4. SumFunctionOnSet(f, T \ {AnyOf(T)}) = 0
  BY <1>1, <1>3
<1>5. SumFunctionOnSet(f, T) = f[AnyOf(T)] + SumFunctionOnSet(f, T \ {AnyOf(T)})
  BY <1>2, <1>3, SumByChoice
<1> QED
  BY <1>3, <1>4, <1>5

\* Fewer elements or smaller values have a smaller sum.
LEMMA SumOfFewer ==
    ASSUME NEW f, NEW g, NEW S, NEW R, IsFiniteSet(S), R \subseteq S,
           \A x \in S : f[x] \in Nat /\ g[x] \in Nat,
           \A x \in R : f[x] <= g[x]
    PROVE  SumFunctionOnSet(f, R) <= SumFunctionOnSet(g, S)
<1> DEFINE A(T) == SumFunctionOnSet(f, T \intersect R)
           B(T) == SumFunctionOnSet(g, T)
           Bad == {T \in SUBSET S : ~ (A(T) <= B(T))}
<1>a. ASSUME NEW T \in SUBSET S
      PROVE  A(T) \in Nat /\ B(T) \in Nat
  <2>1. IsFiniteSet(T) /\ IsFiniteSet(T \intersect R)
    BY FS_Subset
  <2> QED
    BY <2>1, SumIsNat
<1>b. A({}) <= B({})
  <2>1. {} \intersect R = {}
    OBVIOUS
  <2> QED
    BY <2>1, SumOfNone
<1>c. ASSUME NEW T \in SUBSET S, NEW y \in T
      PROVE  /\ B(T) = g[y] + B(T \ {y})
             /\ A(T) = IF y \in R THEN f[y] + A(T \ {y}) ELSE A(T \ {y})
  <2>1. IsFiniteSet(T) /\ IsFiniteSet(T \intersect R)
    BY FS_Subset
  <2>2. B(T) = g[y] + B(T \ {y})
    BY <2>1, SumTakesOut
  <2>3. CASE y \in R
    <3>1. (T \ {y}) \intersect R = (T \intersect R) \ {y} /\ y \in T \intersect R
      BY <2>3
    <3>2. A(T) = f[y] + SumFunctionOnSet(f, (T \intersect R) \ {y})
      BY <2>1, <3>1, SumTakesOut
    <3> QED
      BY <2>2, <2>3, <3>1, <3>2
  <2>4. CASE y \notin R
    <3>1. (T \ {y}) \intersect R = T \intersect R
      BY <2>4
    <3> QED
      BY <2>2, <2>4, <3>1
  <2> QED
    BY <2>3, <2>4
<1>d. S \intersect R = R
  OBVIOUS
<1> HIDE DEF A, B
<1> SUFFICES ASSUME Bad # {} PROVE FALSE
  BY <1>d DEF A, B
<1>0. Bad \in SUBSET SUBSET S
  OBVIOUS
<1> HIDE DEF Bad
<1>1. PICK T \in Bad : \A U \in Bad : U \subseteq T => U = T
  BY <1>0, SmallestSubset
<1> USE DEF Bad
<1>2. PICK y \in T : TRUE
  BY <1>b
<1>3. T \ {y} \in SUBSET S /\ T \in SUBSET S /\ y \in S
  BY <1>2
<1>4. A(T \ {y}) <= B(T \ {y})
  BY <1>1, <1>2, <1>3
<1>5. A(T) \in Nat /\ B(T) \in Nat /\ A(T \ {y}) \in Nat /\ B(T \ {y}) \in Nat
  BY <1>3, <1>a
<1>6. /\ B(T) = g[y] + B(T \ {y})
      /\ A(T) = IF y \in R THEN f[y] + A(T \ {y}) ELSE A(T \ {y})
  BY <1>2, <1>c
<1>7. f[y] \in Nat /\ g[y] \in Nat /\ (y \in R => f[y] <= g[y]) /\ ~ (A(T) <= B(T))
  BY <1>3
<1> HIDE DEF Bad
<1> QED
  BY <1>4, <1>5, <1>6, <1>7

\* What is zero does not count.
LEMMA SumSkipsZeros ==
    ASSUME NEW f, NEW S, NEW R, IsFiniteSet(S), R \subseteq S,
           \A x \in S : f[x] \in Int, \A x \in S \ R : f[x] = 0
    PROVE  SumFunctionOnSet(f, R) = SumFunctionOnSet(f, S)
<1> DEFINE A(T) == SumFunctionOnSet(f, T \intersect R)
           B(T) == SumFunctionOnSet(f, T)
           Bad == {T \in SUBSET S : A(T) # B(T)}
<1>b. A({}) = 0 /\ B({}) = 0
  <2>1. {} \intersect R = {}
    OBVIOUS
  <2> QED
    BY <2>1, SumOfNone
<1>c. ASSUME NEW T \in SUBSET S, NEW y \in T
      PROVE  /\ B(T) = f[y] + B(T \ {y}) /\ B(T \ {y}) \in Int
             /\ A(T) = IF y \in R THEN f[y] + A(T \ {y}) ELSE A(T \ {y})
  <2>1. IsFiniteSet(T) /\ IsFiniteSet(T \intersect R) /\ IsFiniteSet(T \ {y})
    BY FS_Subset
  <2>2. B(T) = f[y] + B(T \ {y}) /\ B(T \ {y}) \in Int
    BY <2>1, SumTakesOut, SumIsInt
  <2>3. CASE y \in R
    <3>1. (T \ {y}) \intersect R = (T \intersect R) \ {y} /\ y \in T \intersect R
      BY <2>3
    <3>2. A(T) = f[y] + SumFunctionOnSet(f, (T \intersect R) \ {y})
      BY <2>1, <3>1, SumTakesOut
    <3> QED
      BY <2>2, <2>3, <3>1, <3>2
  <2>4. CASE y \notin R
    <3>1. (T \ {y}) \intersect R = T \intersect R
      BY <2>4
    <3> QED
      BY <2>2, <2>4, <3>1
  <2> QED
    BY <2>3, <2>4
<1>d. S \intersect R = R
  OBVIOUS
<1> HIDE DEF A, B
<1> SUFFICES ASSUME Bad # {} PROVE FALSE
  BY <1>d DEF A, B
<1>0. Bad \in SUBSET SUBSET S
  OBVIOUS
<1> HIDE DEF Bad
<1>1. PICK T \in Bad : \A U \in Bad : U \subseteq T => U = T
  BY <1>0, SmallestSubset
<1> USE DEF Bad
<1>2. PICK y \in T : TRUE
  BY <1>b
<1>3. T \ {y} \in SUBSET S /\ T \in SUBSET S /\ y \in S
  BY <1>2
<1>4. A(T \ {y}) = B(T \ {y})
  BY <1>1, <1>2, <1>3
<1>5. /\ B(T) = f[y] + B(T \ {y}) /\ B(T \ {y}) \in Int
      /\ A(T) = IF y \in R THEN f[y] + A(T \ {y}) ELSE A(T \ {y})
  BY <1>2, <1>c
<1>6. (y \notin R => f[y] = 0) /\ A(T) # B(T)
  BY <1>3
<1> HIDE DEF Bad
<1> QED
  BY <1>4, <1>5, <1>6

\* The sum over two sets that have nothing in common.
LEMMA SumOfDisjoint ==
    ASSUME NEW f, NEW S, NEW R, IsFiniteSet(S), IsFiniteSet(R), S \intersect R = {},
           \A x \in S \union R : f[x] \in Int
    PROVE  SumFunctionOnSet(f, S \union R) = SumFunctionOnSet(f, S) + SumFunctionOnSet(f, R)
<1> DEFINE Sum(T) == SumFunctionOnSet(f, T)
           Bad == {T \in SUBSET S : Sum(T \union R) # Sum(T) + Sum(R)}
<1>a. ASSUME NEW T \in SUBSET S
      PROVE  Sum(T) \in Int /\ Sum(R) \in Int
  BY FS_Subset, SumIsInt
<1>b. Sum({}) = 0 /\ {} \union R = R
  BY SumOfNone
<1>c. ASSUME NEW T \in SUBSET S, NEW y \in T
      PROVE  Sum(T) = f[y] + Sum(T \ {y}) /\ Sum(T \union R) = f[y] + Sum((T \ {y}) \union R)
  <2>1. IsFiniteSet(T) /\ IsFiniteSet(T \union R)
    BY FS_Subset, FS_Union
  <2>2. (T \union R) \ {y} = (T \ {y}) \union R /\ y \in T \union R
    OBVIOUS
  <2>3. Sum(T \union R) = f[y] + Sum((T \union R) \ {y})
    BY <2>1, <2>2, SumTakesOut
  <2> QED
    BY <2>1, <2>2, <2>3, SumTakesOut
<1> HIDE DEF Sum
<1> SUFFICES ASSUME Bad # {} PROVE FALSE
  BY DEF Sum
<1>0. Bad \in SUBSET SUBSET S
  OBVIOUS
<1> HIDE DEF Bad
<1>1. PICK T \in Bad : \A U \in Bad : U \subseteq T => U = T
  BY <1>0, SmallestSubset
<1> USE DEF Bad
<1>2. PICK y \in T : TRUE
  BY <1>a, <1>b
<1>3. T \ {y} \in SUBSET S /\ T \in SUBSET S /\ y \in S
  BY <1>2
<1>4. Sum((T \ {y}) \union R) = Sum(T \ {y}) + Sum(R)
  BY <1>1, <1>2, <1>3
<1>5. Sum(T \ {y}) \in Int /\ Sum(R) \in Int /\ f[y] \in Int
  BY <1>3, <1>a
<1>6. Sum(T) = f[y] + Sum(T \ {y}) /\ Sum(T \union R) = f[y] + Sum((T \ {y}) \union R)
  BY <1>2, <1>c
<1>7. Sum(T \union R) # Sum(T) + Sum(R)
  OBVIOUS
<1> HIDE DEF Bad
<1> QED
  BY <1>4, <1>5, <1>6, <1>7

-----------------------------------------------------------------------------
(* Related operators of the community modules *)

\* A finite set of integers has a greatest element.
LEMMA GreatestExists ==
    ASSUME NEW S, IsFiniteSet(S)
    PROVE  S # {} /\ S \subseteq Int => \E m \in S : \A x \in S : m >= x
<1> DEFINE Great(T) == \E m \in T : \A x \in T : m >= x
           Bad == {T \in SUBSET S : T # {} /\ ~Great(T)}
<1>0. Bad \in SUBSET SUBSET S
  OBVIOUS
<1> HIDE DEF Bad, Great
<1>1. Bad # {} => \E T \in Bad : \A U \in Bad : U \subseteq T => U = T
  BY <1>0, SmallestSubset
<1> USE DEF Bad
<1> SUFFICES ASSUME S # {}, S \subseteq Int, Bad # {} PROVE FALSE
  BY DEF Great
<1>2. PICK T \in Bad : \A U \in Bad : U \subseteq T => U = T
  BY <1>1
<1>3. T \subseteq S /\ T # {} /\ ~Great(T)
  OBVIOUS
<1> HIDE DEF Bad
<1> USE DEF Great
<1>4. PICK y \in T : TRUE
  BY <1>3
<1>5. T \ {y} # {}
  <2>1. y \in Int
    BY <1>3
  <2> QED
    BY <1>3, <2>1
<1>6. PICK m \in T \ {y} : \A x \in T \ {y} : m >= x
  <2>1. T \ {y} \notin Bad
    BY <1>2
  <2> QED
    BY <1>3, <1>5, <2>1 DEF Bad
<1>7. y \in Int /\ m \in Int /\ T \subseteq Int
  BY <1>3
<1>8. CASE m >= y
  BY <1>3, <1>6, <1>8
<1>9. CASE y >= m
  <2>1. \A x \in T : y >= x
    BY <1>6, <1>7, <1>9
  <2> QED
    BY <1>3, <2>1
<1> QED
  BY <1>7, <1>8, <1>9

\* And Max finds it.
LEMMA MaxIsGreatest ==
    ASSUME NEW S, IsFiniteSet(S), S # {}, S \subseteq Int
    PROVE  Max(S) \in S /\ \A x \in S : Max(S) >= x
<1>1. \E m \in S : \A x \in S : m >= x
  BY GreatestExists
<1> QED
  BY <1>1 DEF Max

\* The sum of an operator's values, where the operator looks up a function.
LEMMA SumOfValues ==
    ASSUME NEW f, NEW S
    PROVE  MapThenSumSet(LAMBDA x : f[x], S) = SumFunctionOnSet(f, S)
  BY DEF MapThenSumSet, SumFunctionOnSet, FoldFunctionOnSet
=============================================================================
