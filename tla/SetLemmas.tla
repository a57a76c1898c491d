------------------------------ MODULE SetLemmas ------------------------------
(***************************************************************************)
(* Finite sets of numbers and of records. What the sum of a function over  *)
(* a finite set is, for the proofs about budgets and quotas:               *)
(* SumFunctionOnSet of the module Functions, whose definition is a         *)
(* recursive function on the subsets of the set. And that a finite set of  *)
(* numbers can be put in order. Induction is on the cardinality of subsets,*)
(* in the form of a set of numbers without a least element.                *)
(***************************************************************************)
EXTENDS Integers, Sequences, Functions, FiniteSetTheorems, WellFoundedInduction, Ordering, TLAPS

(* Some number of the set is the least of it.                              *)
LEMMA LeastElement ==
  ASSUME NEW S, S \subseteq Nat, S # {}
  PROVE  \E m \in S : \A y \in S : m <= y
<1> DEFINE R == OpToRel(<, Nat)
<1>1. PICK m \in S : \A y \in S : ~(<<y, m>> \in R)
  <2>1. IsWellFoundedOn(R, Nat)
    BY NatLessThanWellFounded
  <2> HIDE DEF R
  <2> QED
    BY <2>1, WFMin
<1>2. ASSUME NEW y \in S PROVE m <= y
  <2>1. y \in Nat /\ m \in Nat /\ ~(y < m)
    BY <1>1 DEF OpToRel
  <2> QED
    BY <2>1
<1> QED
  BY <1>2

(* A set of naturals that holds 0 and every successor holds them all.      *)
LEMMA NatSetInduction ==
  ASSUME NEW P, 0 \in P, \A n \in Nat : n \in P => n + 1 \in P
  PROVE  \A n \in Nat : n \in P
<1> DEFINE Bad == {n \in Nat : n \notin P}
<1> SUFFICES ASSUME Bad # {} PROVE FALSE
  OBVIOUS
<1>1. PICK m \in Bad : \A y \in Bad : m <= y
  BY LeastElement
<1>2. m # 0 /\ m - 1 \in Nat /\ m - 1 < m
  OBVIOUS
<1>3. m - 1 \in P
  BY <1>1, <1>2
<1>4. (m - 1) + 1 \in P
  BY <1>2, <1>3
<1> QED
  BY <1>4

(* A family of subsets that holds every subset whose smaller ones it holds *)
(* holds them all.                                                         *)
LEMMA SubsetInduction ==
  ASSUME NEW S, IsFiniteSet(S), NEW F,
         \A T \in SUBSET S : (\A x \in T : T \ {x} \in F) => T \in F
  PROVE  \A T \in SUBSET S : T \in F
<1> DEFINE P == {n \in Nat : \A T \in SUBSET S : Cardinality(T) = n => T \in F}
<1>1. \A T \in SUBSET S : IsFiniteSet(T) /\ Cardinality(T) \in Nat
  BY FS_Subset, FS_CardinalityType
<1>2. 0 \in P
  <2>1. \A T \in SUBSET S : Cardinality(T) = 0 => T = {}
    BY <1>1, FS_EmptySet
  <2> QED
    BY <2>1
<1>3. \A n \in Nat : n \in P => n + 1 \in P
  <2> SUFFICES ASSUME NEW n \in Nat, n \in P, NEW T \in SUBSET S, Cardinality(T) = n + 1
               PROVE  T \in F
    OBVIOUS
  <2>1. \A x \in T : Cardinality(T \ {x}) = n
    BY <1>1, FS_RemoveElement
  <2>2. \A x \in T : T \ {x} \in F
    BY <2>1
  <2> QED
    BY <2>2
<1>4. \A n \in Nat : n \in P
  <2> HIDE DEF P
  <2> QED
    BY <1>2, <1>3, NatSetInduction
<1> QED
  BY <1>1, <1>4

(* A finite set of numbers has a largest one.                              *)
LEMMA Largest ==
  ASSUME NEW S, S \subseteq Nat, IsFiniteSet(S), S # {}
  PROVE  \E m \in S : \A x \in S : x <= m
<1> DEFINE HasMax(T) == \E m \in T : \A x \in T : x <= m
           F == {T \in SUBSET S : T = {} \/ HasMax(T)}
<1>1. ASSUME NEW T \in SUBSET S, \A x \in T : T \ {x} \in F
      PROVE  T \in F
  <2>1. CASE T = {}
    BY <2>1
  <2>2. CASE T # {}
    <3>1. PICK x \in T : TRUE
      BY <2>2
    <3>2. x \in Nat /\ \A y \in T : y \in Nat
      OBVIOUS
    <3>3. CASE T \ {x} = {}
      <4>1. \A y \in T : y <= x
        BY <3>2, <3>3
      <4> QED
        BY <3>1, <4>1
    <3>4. CASE HasMax(T \ {x})
      <4>1. PICK m \in T \ {x} : \A y \in T \ {x} : y <= m
        BY <3>4
      <4>2. CASE x <= m
        BY <4>1, <4>2
      <4>3. CASE ~(x <= m)
        <5>1. \A y \in T : y <= x
          BY <3>2, <4>1, <4>3
        <5> QED
          BY <3>1, <5>1
      <4> QED
        BY <4>2, <4>3
    <3> QED
      BY <1>1, <3>1, <3>3, <3>4
  <2> QED
    BY <2>1, <2>2
<1> HIDE DEF F
<1>2. S \in F
  BY <1>1, SubsetInduction
<1> QED
  BY <1>2 DEF F

-----------------------------------------------------------------------------
(* The recursive function behind the sum.                                  *)

SomeOf(s) == CHOOSE x \in s : TRUE
SumStep(f, g, s) == IF s = {} THEN 0 ELSE f[SomeOf(s)] + g[s \ {SomeOf(s)}]
IsSum(f, S, g) == g = [s \in SUBSET S |-> SumStep(f, g, s)]

LEMMA SumExists ==
  ASSUME NEW f, NEW S, IsFiniteSet(S)
  PROVE  \E g : IsSum(f, S, g)
<1> DEFINE UpTo(g, n) == /\ g = [s \in SUBSET S |-> g[s]]
                         /\ \A s \in SUBSET S : Cardinality(s) <= n => g[s] = SumStep(f, g, s)
           P == {n \in Nat : \E g : UpTo(g, n)}
<1>1. \A T \in SUBSET S : IsFiniteSet(T) /\ Cardinality(T) \in Nat
  BY FS_Subset, FS_CardinalityType
<1>2. 0 \in P
  <2> DEFINE g == [s \in SUBSET S |-> 0]
  <2>1. \A s \in SUBSET S : Cardinality(s) <= 0 => s = {}
    BY <1>1, FS_EmptySet
  <2>2. UpTo(g, 0)
    BY <2>1 DEF SumStep
  <2> QED
    BY <2>2
<1>3. \A n \in Nat : n \in P => n + 1 \in P
  <2> SUFFICES ASSUME NEW n \in Nat, n \in P
               PROVE  n + 1 \in P
    OBVIOUS
  <2>3. PICK g : UpTo(g, n)
    OBVIOUS
  <2> DEFINE h == [s \in SUBSET S |-> IF Cardinality(s) <= n THEN g[s] ELSE SumStep(f, g, s)]
  <2>1. ASSUME NEW s \in SUBSET S, Cardinality(s) <= n + 1
        PROVE  h[s] = SumStep(f, h, s)
    <3>1. CASE s = {}
      BY <2>3, <3>1 DEF SumStep
    <3>2. CASE s # {}
      <4>1. SomeOf(s) \in s
        BY <3>2 DEF SomeOf
      <4>2. /\ s \ {SomeOf(s)} \in SUBSET S
            /\ Cardinality(s \ {SomeOf(s)}) = Cardinality(s) - 1
        BY <1>1, <4>1, FS_RemoveElement
      <4>3. Cardinality(s \ {SomeOf(s)}) <= n
        BY <1>1, <2>1, <4>2
      <4>4. h[s \ {SomeOf(s)}] = g[s \ {SomeOf(s)}]
        BY <4>2, <4>3
      <4>5. h[s] = SumStep(f, g, s)
        BY <2>3
      <4> QED
        BY <3>2, <4>4, <4>5 DEF SumStep
    <3> QED
      BY <3>1, <3>2
  <2>2. h = [s \in SUBSET S |-> h[s]]
    OBVIOUS
  <2>4. UpTo(h, n + 1)
    <3> HIDE DEF h
    <3> QED
      BY <2>1, <2>2
  <2> HIDE DEF UpTo, h
  <2> QED
    BY <2>4
<1>4. \A n \in Nat : n \in P
  <2> HIDE DEF P
  <2> QED
    BY <1>2, <1>3, NatSetInduction
<1>5. PICK g : UpTo(g, Cardinality(S))
  BY <1>1, <1>4
<1>6. \A s \in SUBSET S : Cardinality(s) <= Cardinality(S)
  BY FS_Subset
<1>7. \A s \in SUBSET S : g[s] = SumStep(f, g, s)
  BY <1>5, <1>6
<1>8. g = [s \in SUBSET S |-> SumStep(f, g, s)]
  BY <1>5, <1>7
<1> QED
  BY <1>8 DEF IsSum

LEMMA SumIsChosen ==
  ASSUME NEW f, NEW S
  PROVE  SumFunctionOnSet(f, S) = (CHOOSE g : IsSum(f, S, g))[S]
  BY DEF SumFunctionOnSet, FoldFunctionOnSet, MapThenFoldSet, IsSum, SumStep, SomeOf

(* Two such functions agree where both are defined.                        *)
LEMMA SumAgrees ==
  ASSUME NEW f, NEW S, NEW T, IsFiniteSet(S), T \subseteq S,
         NEW g, NEW h, IsSum(f, S, g), IsSum(f, T, h)
  PROVE  g[T] = h[T]
<1> DEFINE F == {U \in SUBSET T : g[U] = h[U]}
<1>1. ASSUME NEW U \in SUBSET T, \A x \in U : U \ {x} \in F
      PROVE  U \in F
  <2>1. g[U] = SumStep(f, g, U) /\ h[U] = SumStep(f, h, U)
    BY DEF IsSum
  <2>2. CASE U = {}
    BY <2>1, <2>2 DEF SumStep
  <2>3. CASE U # {}
    <3>1. SomeOf(U) \in U
      BY <2>3 DEF SomeOf
    <3>2. g[U \ {SomeOf(U)}] = h[U \ {SomeOf(U)}]
      BY <1>1, <3>1
    <3> QED
      BY <2>1, <2>3, <3>2 DEF SumStep
  <2> QED
    BY <2>2, <2>3
<1>2. IsFiniteSet(T)
  BY FS_Subset
<1>3. \A U \in SUBSET T : U \in F
  <2> HIDE DEF F
  <2> QED
    BY <1>1, <1>2, SubsetInduction
<1> QED
  BY <1>3

(* The sum of a set with elements is one of them and the sum of the rest.  *)
LEMMA SumUnfold ==
  ASSUME NEW f, NEW S, IsFiniteSet(S)
  PROVE  SumFunctionOnSet(f, S) =
           IF S = {} THEN 0 ELSE f[SomeOf(S)] + SumFunctionOnSet(f, S \ {SomeOf(S)})
<1> DEFINE T == S \ {SomeOf(S)}
           g == CHOOSE g : IsSum(f, S, g)
           h == CHOOSE h : IsSum(f, T, h)
<1>1. IsFiniteSet(T) /\ T \subseteq S
  BY FS_Subset
<1>2. IsSum(f, S, g) /\ IsSum(f, T, h)
  BY <1>1, SumExists
<1>3. SumFunctionOnSet(f, S) = g[S] /\ SumFunctionOnSet(f, T) = h[T]
  BY SumIsChosen
<1>4. g[S] = SumStep(f, g, S)
  BY <1>2 DEF IsSum
<1>5. g[T] = h[T]
  <2> HIDE DEF T, g, h
  <2> QED
    BY <1>1, <1>2, SumAgrees
<1> QED
  <2> HIDE DEF g, h
  <2> QED
    BY <1>3, <1>4, <1>5 DEF SumStep

-----------------------------------------------------------------------------
(* The lemmas that the proofs cite.                                        *)

LEMMA SumOfNone ==
  ASSUME NEW f
  PROVE  SumFunctionOnSet(f, {}) = 0
  BY SumUnfold, FS_EmptySet

LEMMA SumType ==
  ASSUME NEW f, NEW S, IsFiniteSet(S), NEW N, N \in {Nat, Int}, \A x \in S : f[x] \in N
  PROVE  SumFunctionOnSet(f, S) \in N
<1> DEFINE F == {T \in SUBSET S : SumFunctionOnSet(f, T) \in N}
<1>0. \A m, n \in N : m + n \in N
  OBVIOUS
<1>1. ASSUME NEW T \in SUBSET S, \A x \in T : T \ {x} \in F
      PROVE  T \in F
  <2>1. IsFiniteSet(T)
    BY FS_Subset
  <2>2. CASE T = {}
    BY <2>2, SumOfNone
  <2>3. CASE T # {}
    <3>1. SomeOf(T) \in T
      BY <2>3 DEF SomeOf
    <3>2. f[SomeOf(T)] \in N /\ SumFunctionOnSet(f, T \ {SomeOf(T)}) \in N
      BY <1>1, <3>1
    <3>3. SumFunctionOnSet(f, T) = f[SomeOf(T)] + SumFunctionOnSet(f, T \ {SomeOf(T)})
      BY <2>1, <2>3, SumUnfold
    <3> QED
      BY <1>0, <3>2, <3>3
  <2> QED
    BY <2>2, <2>3
<1>2. \A T \in SUBSET S : T \in F
  <2> HIDE DEF F
  <2> QED
    BY <1>1, SubsetInduction
<1> QED
  BY <1>2

(* Any element can be taken out of the sum.                                *)
LEMMA SumRemove ==
  ASSUME NEW f, NEW S, IsFiniteSet(S), \A x \in S : f[x] \in Int, NEW y \in S
  PROVE  SumFunctionOnSet(f, S) = f[y] + SumFunctionOnSet(f, S \ {y})
<1> DEFINE Sum(T) == SumFunctionOnSet(f, T)
           F == {T \in SUBSET S : \A x \in T : Sum(T) = f[x] + Sum(T \ {x})}
<1>0. \A T \in SUBSET S : IsFiniteSet(T) /\ Sum(T) \in Int
  BY FS_Subset, SumType
<1>1. ASSUME NEW T \in SUBSET S, \A x \in T : T \ {x} \in F
      PROVE  T \in F
  <2> SUFFICES ASSUME NEW x \in T PROVE Sum(T) = f[x] + Sum(T \ {x})
    OBVIOUS
  <2> DEFINE c == SomeOf(T)
  <2>1. c \in T
    BY DEF SomeOf
  <2>2. Sum(T) = f[c] + Sum(T \ {c})
    BY <1>0, <2>1, SumUnfold
  <2>3. CASE x = c
    BY <2>2, <2>3
  <2>4. CASE x # c
    <3> DEFINE U == (T \ {c}) \ {x}
    <3>1. Sum(T \ {c}) = f[x] + Sum(U)
      BY <1>1, <2>1, <2>4
    <3>2. (T \ {x}) \ {c} = U
      OBVIOUS
    <3>3. Sum(T \ {x}) = f[c] + Sum((T \ {x}) \ {c})
      BY <1>1, <2>1, <2>4
    <3>4. Sum(T \ {x}) = f[c] + Sum(U)
      BY <3>2, <3>3
    <3>5. f[x] \in Int /\ f[c] \in Int /\ Sum(U) \in Int
      BY <1>0, <2>1
    <3> HIDE DEF Sum, c, U
    <3> QED
      BY <2>2, <3>1, <3>4, <3>5
  <2> QED
    BY <2>3, <2>4
<1>2. \A T \in SUBSET S : T \in F
  <2> HIDE DEF F
  <2> QED
    BY <1>1, SubsetInduction
<1> QED
  BY <1>2

LEMMA SumAdd ==
  ASSUME NEW f, NEW S, IsFiniteSet(S), NEW y, y \notin S, \A x \in S \cup {y} : f[x] \in Int
  PROVE  SumFunctionOnSet(f, S \cup {y}) = SumFunctionOnSet(f, S) + f[y]
<1>1. IsFiniteSet(S \cup {y}) /\ (S \cup {y}) \ {y} = S
  BY FS_AddElement
<1>2. SumFunctionOnSet(f, S \cup {y}) = f[y] + SumFunctionOnSet(f, S)
  BY <1>1, SumRemove
<1>3. f[y] \in Int /\ SumFunctionOnSet(f, S) \in Int
  BY SumType
<1> QED
  BY <1>2, <1>3

(* Only the values on the set count.                                       *)
LEMMA SumSame ==
  ASSUME NEW f, NEW g, NEW S, IsFiniteSet(S), \A x \in S : f[x] = g[x]
  PROVE  SumFunctionOnSet(f, S) = SumFunctionOnSet(g, S)
<1> DEFINE F == {T \in SUBSET S : SumFunctionOnSet(f, T) = SumFunctionOnSet(g, T)}
<1>1. ASSUME NEW T \in SUBSET S, \A x \in T : T \ {x} \in F
      PROVE  T \in F
  <2>1. IsFiniteSet(T)
    BY FS_Subset
  <2>2. CASE T = {}
    BY <2>2, SumOfNone
  <2>3. CASE T # {}
    <3>1. SomeOf(T) \in T
      BY <2>3 DEF SomeOf
    <3>2. /\ f[SomeOf(T)] = g[SomeOf(T)]
          /\ SumFunctionOnSet(f, T \ {SomeOf(T)}) = SumFunctionOnSet(g, T \ {SomeOf(T)})
      BY <1>1, <3>1
    <3>3. /\ SumFunctionOnSet(f, T) = f[SomeOf(T)] + SumFunctionOnSet(f, T \ {SomeOf(T)})
          /\ SumFunctionOnSet(g, T) = g[SomeOf(T)] + SumFunctionOnSet(g, T \ {SomeOf(T)})
      BY <2>1, <2>3, SumUnfold
    <3> QED
      BY <3>2, <3>3
  <2> QED
    BY <2>2, <2>3
<1>2. \A T \in SUBSET S : T \in F
  <2> HIDE DEF F
  <2> QED
    BY <1>1, SubsetInduction
<1> QED
  BY <1>2

(* One value changes.                                                      *)
LEMMA SumChange ==
  ASSUME NEW f, NEW g, NEW S, IsFiniteSet(S), NEW y \in S,
         \A x \in S : f[x] \in Int /\ g[x] \in Int,
         \A x \in S \ {y} : f[x] = g[x]
  PROVE  SumFunctionOnSet(g, S) = SumFunctionOnSet(f, S) - f[y] + g[y]
<1> DEFINE rest == SumFunctionOnSet(f, S \ {y})
<1>1. IsFiniteSet(S \ {y})
  BY FS_Subset
<1>2. rest \in Int /\ SumFunctionOnSet(g, S \ {y}) = rest
  BY <1>1, SumType, SumSame
<1>3. SumFunctionOnSet(f, S) = f[y] + rest /\ SumFunctionOnSet(g, S) = g[y] + rest
  BY <1>2, SumRemove
<1>4. f[y] \in Int /\ g[y] \in Int
  OBVIOUS
<1> HIDE DEF rest
<1> QED
  BY <1>2, <1>3, <1>4

(* A sum of zeros.                                                         *)
LEMMA SumZero ==
  ASSUME NEW f, NEW S, IsFiniteSet(S), \A x \in S : f[x] = 0
  PROVE  SumFunctionOnSet(f, S) = 0
<1> DEFINE F == {T \in SUBSET S : SumFunctionOnSet(f, T) = 0}
<1>1. ASSUME NEW T \in SUBSET S, \A x \in T : T \ {x} \in F
      PROVE  T \in F
  <2>1. IsFiniteSet(T) /\ \A x \in T : f[x] = 0 /\ f[x] \in Int
    BY FS_Subset
  <2>2. CASE T = {}
    BY <2>2, SumOfNone
  <2>3. CASE T # {}
    <3>1. PICK x \in T : TRUE
      BY <2>3
    <3>2. SumFunctionOnSet(f, T) = f[x] + SumFunctionOnSet(f, T \ {x})
      BY <2>1, SumRemove
    <3>3. SumFunctionOnSet(f, T \ {x}) = 0
      BY <1>1
    <3> QED
      BY <2>1, <3>2, <3>3
  <2> QED
    BY <2>2, <2>3
<1> HIDE DEF F
<1>2. \A T \in SUBSET S : T \in F
  BY <1>1, SubsetInduction
<1> QED
  BY <1>2 DEF F

(* One element gains one.                                                  *)
LEMMA SumBump ==
  ASSUME NEW f, NEW g, NEW S, IsFiniteSet(S), NEW y \in S,
         \A x \in S : f[x] \in Int, g[y] = f[y] + 1,
         \A x \in S : x # y => g[x] = f[x]
  PROVE  SumFunctionOnSet(g, S) = SumFunctionOnSet(f, S) + 1
<1>1. \A x \in S : f[x] \in Int /\ g[x] \in Int
  OBVIOUS
<1>2. \A x \in S \ {y} : f[x] = g[x]
  OBVIOUS
<1>3. SumFunctionOnSet(g, S) = SumFunctionOnSet(f, S) - f[y] + g[y]
  BY <1>1, <1>2, SumChange
<1>4. SumFunctionOnSet(f, S) \in Int /\ f[y] \in Int
  BY SumType
<1> QED
  BY <1>3, <1>4

(* Sums over the first of the natural numbers.                             *)
LEMMA SumToNext ==
  ASSUME NEW g, NEW n \in Nat, \A i \in 1 .. n + 1 : g[i] \in Int
  PROVE  SumFunctionOnSet(g, 1 .. n + 1) = SumFunctionOnSet(g, 1 .. n) + g[n + 1]
<1> DEFINE S == 1 .. n
           y == n + 1
<1>1. IsFiniteSet(S)
  BY FS_Interval
<1>2. S \cup {y} = 1 .. n + 1 /\ y \notin S
  OBVIOUS
<1> HIDE DEF S, y
<1>3. \A i \in S \cup {y} : g[i] \in Int
  BY <1>2
<1>4. SumFunctionOnSet(g, S \cup {y}) = SumFunctionOnSet(g, S) + g[y]
  BY <1>1, <1>2, <1>3, SumAdd
<1> QED
  BY <1>2, <1>4 DEF S, y

LEMMA SumToSame ==
  ASSUME NEW f, NEW g, NEW n \in Nat, \A i \in 1 .. n : f[i] = g[i]
  PROVE  SumFunctionOnSet(f, 1 .. n) = SumFunctionOnSet(g, 1 .. n)
<1> DEFINE S == 1 .. n
<1>1. IsFiniteSet(S)
  BY FS_Interval
<1>2. \A i \in S : f[i] = g[i]
  OBVIOUS
<1> HIDE DEF S
<1>3. SumFunctionOnSet(f, S) = SumFunctionOnSet(g, S)
  BY <1>1, <1>2, SumSame
<1> QED
  BY <1>3 DEF S

LEMMA SumInTwo ==
  ASSUME NEW g, NEW h, NEW m \in Nat, NEW n \in Nat,
         \A i \in 1 .. m + n : g[i] \in Int, \A i \in 1 .. n : h[i] = g[m + i]
  PROVE  SumFunctionOnSet(g, 1 .. m + n) = SumFunctionOnSet(g, 1 .. m) + SumFunctionOnSet(h, 1 .. n)
<1> DEFINE Sum(f, k) == SumFunctionOnSet(f, 1 .. k)
           P == {k \in Nat : k <= n => Sum(g, m + k) = Sum(g, m) + Sum(h, k)}
<1>1. Sum(h, 0) = 0 /\ Sum(g, m) \in Int
  <2>1. (1 .. 0) = {} /\ IsFiniteSet(1 .. m) /\ \A i \in 1 .. m : g[i] \in Int
    BY FS_Interval
  <2>2. Sum(g, m) \in Int
    <3> DEFINE S == 1 .. m
    <3> HIDE DEF S
    <3>1. SumFunctionOnSet(g, S) \in Int
      BY <2>1, SumType DEF S
    <3> QED
      BY <3>1 DEF S
  <2> QED
    BY <2>1, <2>2, SumOfNone
<1>2. \A k \in 1 .. n : Sum(h, k) \in Int
  <2> TAKE k \in 1 .. n
  <2> DEFINE S == 1 .. k
  <2>0. k \in Int /\ \A i \in S : h[i] \in Int
    OBVIOUS
  <2>1. IsFiniteSet(S)
    BY <2>0, FS_Interval
  <2> HIDE DEF S
  <2>2. SumFunctionOnSet(h, S) \in Int
    BY <2>0, <2>1, SumType
  <2> QED
    BY <2>2 DEF S
<1>3. ASSUME NEW k \in Nat, k \in P PROVE k + 1 \in P
  <2> SUFFICES ASSUME k + 1 <= n PROVE Sum(g, m + (k + 1)) = Sum(g, m) + Sum(h, k + 1)
    OBVIOUS
  <2> DEFINE j == m + k
  <2>0. j \in Nat /\ j + 1 = m + (k + 1) /\ \A i \in 1 .. j + 1 : g[i] \in Int
    OBVIOUS
  <2> HIDE DEF j
  <2>1. Sum(g, j + 1) = Sum(g, j) + g[j + 1]
    BY <2>0, SumToNext
  <2>2. Sum(h, k + 1) = Sum(h, k) + h[k + 1]
    <3>1. \A i \in 1 .. k + 1 : h[i] \in Int
      OBVIOUS
    <3> QED
      BY <3>1, SumToNext
  <2>3. Sum(g, j) = Sum(g, m) + Sum(h, k)
    BY <1>3 DEF j
  <2>4. h[k + 1] = g[j + 1] /\ g[j + 1] \in Int
    BY <2>0
  <2>5. Sum(h, k) \in Int
    BY <1>1, <1>2
  <2> HIDE DEF Sum
  <2> QED
    BY <1>1, <2>0, <2>1, <2>2, <2>3, <2>4, <2>5
<1>4. 0 \in P
  BY <1>1
<1> HIDE DEF P
<1>5. n \in P
  BY <1>3, <1>4, NatSetInduction
<1> QED
  BY <1>5 DEF P

-----------------------------------------------------------------------------
(* Numbers in order.                                                       *)

Below(S, m) == {x \in S : x < m}

LEMMA BelowIsFinite ==
  ASSUME NEW S, S \subseteq Nat, IsFiniteSet(S), NEW m \in S
  PROVE  /\ IsFiniteSet(Below(S, m)) /\ Cardinality(Below(S, m)) \in Nat
         /\ Cardinality(Below(S, m)) < Cardinality(S) /\ Cardinality(S) \in Nat
<1>1. Below(S, m) \subseteq S /\ m \notin Below(S, m) /\ m \in Nat
  BY DEF Below
<1>2. IsFiniteSet(Below(S, m)) /\ IsFiniteSet(S \ {m})
  BY <1>1, FS_Subset, FS_RemoveElement
<1>3. Below(S, m) \subseteq S \ {m}
  BY <1>1
<1>4. Cardinality(Below(S, m)) <= Cardinality(S \ {m}) /\ Cardinality(S \ {m}) = Cardinality(S) - 1
  BY <1>2, <1>3, FS_Subset, FS_RemoveElement
<1>5. Cardinality(Below(S, m)) \in Nat /\ Cardinality(S) \in Nat
  BY <1>2, FS_CardinalityType
<1> QED
  BY <1>2, <1>4, <1>5

(* Each number from 1 to the size of a finite set is the place of one of   *)
(* its elements, and each element has its place.                           *)
LEMMA NthExists ==
  ASSUME NEW S, S \subseteq Nat, IsFiniteSet(S)
  PROVE  \A n \in 1 .. Cardinality(S) : \E m \in S : Cardinality(Below(S, m)) = n - 1
<1> DEFINE Full(T) == \A n \in 1 .. Cardinality(T) : \E m \in T : Cardinality(Below(T, m)) = n - 1
           F == {T \in SUBSET S : Full(T)}
<1>1. ASSUME NEW T \in SUBSET S, \A x \in T : T \ {x} \in F
      PROVE  T \in F
  <2>1. IsFiniteSet(T) /\ Cardinality(T) \in Nat /\ T \subseteq Nat
    BY FS_Subset, FS_CardinalityType
  <2>2. CASE T = {}
    <3>1. Cardinality(T) = 0
      BY <2>2, FS_EmptySet
    <3> QED
      BY <3>1
  <2>3. CASE T # {}
    <3>1. PICK x \in T : \A y \in T : y <= x
      BY <2>1, <2>3, Largest
    <3>2. IsFiniteSet(T \ {x}) /\ Cardinality(T \ {x}) = Cardinality(T) - 1
      BY <2>1, FS_RemoveElement
    <3>3. Full(T \ {x})
      BY <1>1
    <3>4. \A m \in T \ {x} : Below(T, m) = Below(T \ {x}, m)
      BY <2>1, <3>1 DEF Below
    <3>5. Below(T, x) = T \ {x}
      <4>1. \A y \in T : y < x <=> y # x
        BY <2>1, <3>1
      <4> QED
        BY <4>1 DEF Below
    <3>6. ASSUME NEW n \in 1 .. Cardinality(T)
          PROVE  \E m \in T : Cardinality(Below(T, m)) = n - 1
      <4>1. CASE n = Cardinality(T)
        BY <3>2, <3>5, <4>1
      <4>2. CASE n # Cardinality(T)
        <5>1. n \in 1 .. Cardinality(T \ {x})
          BY <2>1, <3>2, <4>2
        <5>2. PICK m \in T \ {x} : Cardinality(Below(T \ {x}, m)) = n - 1
          BY <3>3, <5>1
        <5> QED
          BY <3>4, <5>2
      <4> QED
        BY <4>1, <4>2
    <3> QED
      BY <3>6
  <2> QED
    BY <2>2, <2>3
<1> HIDE DEF F
<1>2. S \in F
  BY <1>1, SubsetInduction
<1> QED
  BY <1>2 DEF F

LEMMA NthIs ==
  ASSUME NEW S, S \subseteq Nat, IsFiniteSet(S), NEW n \in 1 .. Cardinality(S)
  PROVE  Nth(S, n) \in S /\ Cardinality(Below(S, Nth(S, n))) = n - 1
<1>1. \E m \in S : Cardinality(Below(S, m)) = n - 1
  BY NthExists
<1> QED
  BY <1>1 DEF Nth, Below

LEMMA PlaceIsOwn ==
  ASSUME NEW S, S \subseteq Nat, IsFiniteSet(S), NEW m \in S, NEW x \in S,
         Cardinality(Below(S, m)) = Cardinality(Below(S, x))
  PROVE  m = x
<1>1. ASSUME NEW a \in S, NEW b \in S, a < b
      PROVE  Cardinality(Below(S, a)) < Cardinality(Below(S, b))
  <2>1. Below(S, a) \subseteq Below(S, b) \ {a} /\ a \in Below(S, b) /\ a \in Nat /\ b \in Nat
    <3>1. \A y \in S : y < a => y < b /\ y # a
      BY <1>1
    <3> QED
      BY <1>1, <3>1 DEF Below
  <2>2. IsFiniteSet(Below(S, b)) /\ Cardinality(Below(S, b)) \in Nat /\ Cardinality(Below(S, a)) \in Nat
    BY BelowIsFinite
  <2>3. IsFiniteSet(Below(S, b) \ {a})
        /\ Cardinality(Below(S, b) \ {a}) = Cardinality(Below(S, b)) - 1
    BY <2>1, <2>2, FS_RemoveElement
  <2>4. Cardinality(Below(S, a)) <= Cardinality(Below(S, b) \ {a})
    BY <2>1, <2>3, FS_Subset
  <2> QED
    BY <2>2, <2>3, <2>4
<1>2. m \in Nat /\ x \in Nat /\ Cardinality(Below(S, m)) \in Nat
  BY BelowIsFinite
<1>3. ~(m < x) /\ ~(x < m)
  BY <1>1, <1>2
<1> QED
  BY <1>2, <1>3

LEMMA NthOf ==
  ASSUME NEW S, S \subseteq Nat, IsFiniteSet(S), NEW m \in S
  PROVE  \E n \in 1 .. Cardinality(S) : Nth(S, n) = m
<1>0. /\ Cardinality(Below(S, m)) \in Nat /\ Cardinality(S) \in Nat
      /\ Cardinality(Below(S, m)) < Cardinality(S)
  BY BelowIsFinite
<1>1. PICK n \in 1 .. Cardinality(S) : n = Cardinality(Below(S, m)) + 1
  <2>1. Cardinality(Below(S, m)) + 1 \in 1 .. Cardinality(S)
    BY <1>0
  <2> QED
    BY <2>1
<1>2. Nth(S, n) \in S /\ Cardinality(Below(S, Nth(S, n))) = n - 1
  BY NthIs
<1>3. Cardinality(Below(S, m)) \in Nat
  BY BelowIsFinite
<1>4. Cardinality(Below(S, Nth(S, n))) = Cardinality(Below(S, m))
  BY <1>1, <1>2, <1>3
<1>5. Nth(S, n) = m
  BY <1>2, <1>4, PlaceIsOwn
<1> QED
  BY <1>5

LEMMA InOrderIs ==
  ASSUME NEW S, S \subseteq Nat, IsFiniteSet(S), NEW T, S \subseteq T
  PROVE  InOrder(S) \in Seq(T)
<1>1. Cardinality(S) \in Nat
  BY FS_CardinalityType
<1>2. \A n \in 1 .. Cardinality(S) : Nth(S, n) \in T
  BY NthIs
<1> QED
  BY <1>1, <1>2 DEF InOrder
=============================================================================
