----------------------------- MODULE MoneyProofs -----------------------------
(***************************************************************************)
(* Proofs about what the user keeps books of, for any number of            *)
(* transactions, requests, alerts, devices, rows and people: Categories,   *)
(* Notifications, StatementReview, SplitGroups and Reconciliations share   *)
(* no state, so each has an invariant of its own.  What the last two add   *)
(* up comes first.                                                         *)
(***************************************************************************)
EXTENDS StatementReview, SplitGroups, Categories, Notifications, Reconciliations, FiniteSetTheorems, WellFoundedInduction, TLAPS

-----------------------------------------------------------------------------
(* Sums over finite sets: a sum takes some element first, and then what is left of the set.  What holds
   of a sum is shown for sets of 0, 1, 2, ... elements, as there is no least number of elements for
   which it fails. *)

\* Whom a sum over T takes first, and what the partial sums over the subsets of D are.
First(T) == CHOOSE x \in T : TRUE
PartialSum(f, g, T) == IF T = {} THEN 0 ELSE f[First(T)] + g[T \ {First(T)}]
PartialSums(f, D, g) == g = [T \in SUBSET D |-> PartialSum(f, g, T)]

LEMMA SumIsPartial ==
  ASSUME NEW f, NEW S
  PROVE  SumFunctionOnSet(f, S) = (CHOOSE g : PartialSums(f, S, g))[S]
  BY DEF SumFunctionOnSet, FoldFunctionOnSet, MapThenFoldSet, PartialSums, PartialSum, First

LEMMA FirstIn ==
  ASSUME NEW T, T # {}
  PROVE  First(T) \in T
  BY DEF First

\* A set of numbers that is not empty has a least one: induction, as there is no other.
LEMMA LeastNumber ==
  ASSUME NEW S, S \subseteq Nat, S # {}
  PROVE  \E m \in S : \A k \in S : m <= k
<1> DEFINE R == OpToRel(<, Nat)
<1>1. IsWellFoundedOn(R, Nat)
  BY NatLessThanWellFounded
<1>2. \A x, y \in Nat : x < y => <<x, y>> \in R
  <2> SUFFICES ASSUME NEW x \in Nat, NEW y \in Nat, x < y
               PROVE  <<x, y>> \in R
    OBVIOUS
  <2>1. <<x, y>> \in {ss \in Nat \X Nat : ss[1] < ss[2]}
    OBVIOUS
  <2> QED
    BY <2>1 DEF OpToRel
<1> HIDE DEF R
<1>3. PICK x \in S : \A y \in S : ~ (<<y, x>> \in R)
  <2>1. \E x \in S : \A y \in S : ~ (<<y, x>> \in R)
    BY <1>1, WFMin
  <2> QED
    BY <2>1
<1>4. \A y \in S : x <= y
  <2> SUFFICES ASSUME NEW y \in S, ~ (x <= y)
               PROVE  FALSE
    OBVIOUS
  <2>1. x \in Nat /\ y \in Nat
    OBVIOUS
  <2>2. y < x
    BY <2>1
  <2>3. <<y, x>> \in R
    BY <1>2, <2>1, <2>2
  <2> QED
    BY <1>3, <2>3
<1> QED
  BY <1>3, <1>4

\* Of the numbers, one that is in S has one below it that is, or 0 is; so all are when 0 is and each
\* takes the next along.
LEMMA AllNumbers ==
  ASSUME NEW S, 0 \in S, \A n \in Nat : n \in S => n + 1 \in S
  PROVE  Nat \subseteq S
<1> DEFINE Bad == {n \in Nat : n \notin S}
<1> SUFFICES ASSUME Bad # {} PROVE FALSE
  OBVIOUS
<1>1. PICK m \in Bad : \A k \in Bad : m <= k
  <2>1. Bad \subseteq Nat
    OBVIOUS
  <2> HIDE DEF Bad
  <2> QED
    BY <2>1, LeastNumber
<1>2. m \in Nat /\ m \notin S
  OBVIOUS
<1>3. m # 0
  BY <1>2
<1>4. m - 1 \in Nat /\ m = (m - 1) + 1
  BY <1>2, <1>3
<1>5. m - 1 \in S
  <2>1. ~ (m <= m - 1)
    BY <1>2
  <2>2. m - 1 \notin Bad
    BY <2>1, <1>1
  <2> QED
    BY <2>2, <1>4
<1>6. (m - 1) + 1 \in S
  BY <1>4, <1>5
<1> QED
  BY <1>2, <1>4, <1>6

\* A set without one of its elements has one element less.
LEMMA OneLess ==
  ASSUME NEW n \in Nat, NEW S, IsFiniteSet(S), Cardinality(S) = n + 1, NEW x \in S
  PROVE  IsFiniteSet(S \ {x}) /\ Cardinality(S \ {x}) = n
<1>1. IsFiniteSet(S \ {x}) /\ Cardinality(S \ {x}) = Cardinality(S) - 1
  BY FS_RemoveElement
<1> QED
  BY <1>1

\* The subsets of D with at most n elements.
UpTo(D, n) == {T \in SUBSET D : IsFiniteSet(T) /\ Cardinality(T) <= n}

HasSums(f, D, n) == \E g : \A T \in UpTo(D, n) : g[T] = PartialSum(f, g, T)

LEMMA PartialSumsExist ==
  ASSUME NEW D, IsFiniteSet(D), NEW f
  PROVE  \E g : PartialSums(f, D, g)
<1> DEFINE Good == {n \in Nat : HasSums(f, D, n)}
<1>1. \A n \in Nat : \A T \in UpTo(D, n + 1) : T # {} => T \ {First(T)} \in UpTo(D, n)
  <2> SUFFICES ASSUME NEW n \in Nat, NEW T \in UpTo(D, n + 1), T # {}
               PROVE  T \ {First(T)} \in UpTo(D, n)
    OBVIOUS
  <2>1. First(T) \in T
    BY FirstIn
  <2>2. IsFiniteSet(T) /\ Cardinality(T) <= n + 1 /\ T \subseteq D
    BY DEF UpTo
  <2>3. Cardinality(T) \in Nat
    BY <2>2, FS_CardinalityType
  <2>4. IsFiniteSet(T \ {First(T)}) /\ Cardinality(T \ {First(T)}) = Cardinality(T) - 1
    BY <2>1, <2>2, FS_RemoveElement
  <2> QED
    BY <2>2, <2>3, <2>4 DEF UpTo
<1>2. 0 \in Good
  <2> DEFINE g == [T \in UpTo(D, 0) |-> 0]
  <2>1. \A T \in UpTo(D, 0) : T = {}
    <3> SUFFICES ASSUME NEW T \in UpTo(D, 0) PROVE T = {}
      OBVIOUS
    <3>1. IsFiniteSet(T) /\ Cardinality(T) <= 0
      BY DEF UpTo
    <3>2. Cardinality(T) \in Nat
      BY <3>1, FS_CardinalityType
    <3>3. Cardinality(T) = 0
      BY <3>1, <3>2
    <3> QED
      BY <3>1, <3>3, FS_EmptySet
  <2>2. \A T \in UpTo(D, 0) : g[T] = PartialSum(f, g, T)
    BY <2>1 DEF PartialSum
  <2>3. HasSums(f, D, 0)
    <3> HIDE DEF g
    <3> QED
      BY <2>2 DEF HasSums
  <2> QED
    BY <2>3
<1>3. \A n \in Nat : n \in Good => n + 1 \in Good
  <2> SUFFICES ASSUME NEW n \in Nat, HasSums(f, D, n)
               PROVE  HasSums(f, D, n + 1)
    OBVIOUS
  <2>1. PICK g : \A T \in UpTo(D, n) : g[T] = PartialSum(f, g, T)
    BY DEF HasSums
  <2> DEFINE h == [T \in UpTo(D, n + 1) |-> PartialSum(f, g, T)]
  <2>2. UpTo(D, n) \subseteq UpTo(D, n + 1)
    <3> SUFFICES ASSUME NEW T \in UpTo(D, n) PROVE T \in UpTo(D, n + 1)
      OBVIOUS
    <3>1. IsFiniteSet(T) /\ Cardinality(T) <= n
      BY DEF UpTo
    <3>2. Cardinality(T) \in Nat
      BY <3>1, FS_CardinalityType
    <3> QED
      BY <3>1, <3>2 DEF UpTo
  <2>3. \A T \in UpTo(D, n) : h[T] = g[T]
    BY <2>1, <2>2
  <2>4. \A T \in UpTo(D, n + 1) : h[T] = PartialSum(f, h, T)
    <3> SUFFICES ASSUME NEW T \in UpTo(D, n + 1) PROVE h[T] = PartialSum(f, h, T)
      OBVIOUS
    <3>1. h[T] = PartialSum(f, g, T)
      OBVIOUS
    <3>2. CASE T = {}
      BY <3>1, <3>2 DEF PartialSum
    <3>3. CASE T # {}
      <4>1. h[T \ {First(T)}] = g[T \ {First(T)}]
        <5> HIDE DEF h
        <5> QED
          BY <1>1, <2>3, <3>3
      <4> HIDE DEF h
      <4> QED
        BY <3>1, <3>3, <4>1 DEF PartialSum
    <3> QED
      BY <3>2, <3>3
  <2> HIDE DEF h
  <2> QED
    BY <2>4 DEF HasSums
<1>4. Nat \subseteq Good
  <2> HIDE DEF Good
  <2> QED
    BY <1>2, <1>3, AllNumbers
<1>5. Cardinality(D) \in Nat
  BY FS_CardinalityType
<1>6. PICK g : \A T \in UpTo(D, Cardinality(D)) : g[T] = PartialSum(f, g, T)
  BY <1>4, <1>5 DEF HasSums
<1>7. SUBSET D = UpTo(D, Cardinality(D))
  <2>1. \A T \in SUBSET D : IsFiniteSet(T) /\ Cardinality(T) <= Cardinality(D)
    BY FS_Subset
  <2> QED
    BY <2>1 DEF UpTo
<1> DEFINE h == [T \in SUBSET D |-> g[T]]
<1>8. \A T \in SUBSET D : h[T] = PartialSum(f, h, T)
  <2> SUFFICES ASSUME NEW T \in SUBSET D PROVE h[T] = PartialSum(f, h, T)
    OBVIOUS
  <2>1. h[T] = PartialSum(f, g, T)
    BY <1>6, <1>7
  <2>2. CASE T = {}
    BY <2>1, <2>2 DEF PartialSum
  <2>3. CASE T # {}
    <3>1. h[T \ {First(T)}] = g[T \ {First(T)}]
      OBVIOUS
    <3> HIDE DEF h
    <3> QED
      BY <2>1, <2>3, <3>1 DEF PartialSum
  <2> QED
    BY <2>2, <2>3
<1>9. h = [T \in SUBSET D |-> PartialSum(f, h, T)]
  <2>1. h = [T \in SUBSET D |-> h[T]]
    OBVIOUS
  <2> HIDE DEF h
  <2> QED
    BY <1>8, <2>1
<1> HIDE DEF h
<1> QED
  BY <1>9 DEF PartialSums

\* Two functions that agree on a set that two families of partial sums have in common.
LEMMA PartialSumsAgree ==
  ASSUME NEW D, NEW f, NEW g, PartialSums(f, D, g),
         NEW E, NEW e, NEW h, PartialSums(e, E, h),
         NEW T, T \subseteq D, T \subseteq E, IsFiniteSet(T), \A x \in T : f[x] = e[x]
  PROVE  g[T] = h[T]
<1> DEFINE Good == {n \in Nat : \A U \in SUBSET T : IsFiniteSet(U) /\ Cardinality(U) = n => g[U] = h[U]}
<1>1. 0 \in Good
  <2> SUFFICES ASSUME NEW U \in SUBSET T, IsFiniteSet(U), Cardinality(U) = 0
               PROVE  g[U] = h[U]
    OBVIOUS
  <2>1. U = {}
    BY FS_EmptySet
  <2> QED
    BY <2>1 DEF PartialSums, PartialSum
<1>2. \A n \in Nat : n \in Good => n + 1 \in Good
  <2> SUFFICES ASSUME NEW n \in Nat,
                      \A U \in SUBSET T : IsFiniteSet(U) /\ Cardinality(U) = n => g[U] = h[U],
                      NEW U \in SUBSET T, IsFiniteSet(U), Cardinality(U) = n + 1
               PROVE  g[U] = h[U]
    OBVIOUS
  <2>1. U # {}
    BY FS_EmptySet
  <2>2. First(U) \in U
    BY <2>1, FirstIn
  <2>3. IsFiniteSet(U \ {First(U)}) /\ Cardinality(U \ {First(U)}) = n
    BY <2>2, OneLess
  <2>4. g[U \ {First(U)}] = h[U \ {First(U)}]
    BY <2>3
  <2>5. g[U] = f[First(U)] + g[U \ {First(U)}]
    BY <2>1 DEF PartialSums, PartialSum
  <2>6. h[U] = e[First(U)] + h[U \ {First(U)}]
    BY <2>1 DEF PartialSums, PartialSum
  <2> QED
    BY <2>2, <2>4, <2>5, <2>6
<1>3. Cardinality(T) \in Nat
  BY FS_CardinalityType
<1>4. Nat \subseteq Good
  <2> HIDE DEF Good
  <2> QED
    BY <1>1, <1>2, AllNumbers
<1> QED
  BY <1>3, <1>4

LEMMA SumSolves ==
  ASSUME NEW f, NEW S, IsFiniteSet(S)
  PROVE  PartialSums(f, S, CHOOSE g : PartialSums(f, S, g))
  BY PartialSumsExist

\* A sum over nothing, and over something.
LEMMA SumOfNothing ==
  ASSUME NEW f
  PROVE  SumFunctionOnSet(f, {}) = 0
<1> DEFINE g == CHOOSE g : PartialSums(f, {}, g)
<1>1. IsFiniteSet({})
  BY FS_EmptySet
<1>2. PartialSums(f, {}, g)
  BY <1>1, SumSolves
<1>3. SumFunctionOnSet(f, {}) = g[{}]
  BY SumIsPartial
<1> HIDE DEF g
<1> QED
  BY <1>2, <1>3 DEF PartialSums, PartialSum

\* A sum depends on what is summed only.
LEMMA SumOfSame ==
  ASSUME NEW f, NEW e, NEW S, IsFiniteSet(S), \A x \in S : f[x] = e[x]
  PROVE  SumFunctionOnSet(f, S) = SumFunctionOnSet(e, S)
<1> DEFINE g == CHOOSE g : PartialSums(f, S, g)
           h == CHOOSE h : PartialSums(e, S, h)
<1>1. PartialSums(f, S, g) /\ PartialSums(e, S, h)
  BY SumSolves
<1>2. SumFunctionOnSet(f, S) = g[S] /\ SumFunctionOnSet(e, S) = h[S]
  BY SumIsPartial
<1> HIDE DEF g, h
<1> QED
  BY <1>1, <1>2, PartialSumsAgree

LEMMA SumFirst ==
  ASSUME NEW f, NEW S, IsFiniteSet(S), S # {}
  PROVE  SumFunctionOnSet(f, S) = f[First(S)] + SumFunctionOnSet(f, S \ {First(S)})
<1> DEFINE T == S \ {First(S)}
           g == CHOOSE g : PartialSums(f, S, g)
           h == CHOOSE h : PartialSums(f, T, h)
<1>1. IsFiniteSet(T)
  BY FS_RemoveElement
<1>2. PartialSums(f, S, g) /\ PartialSums(f, T, h)
  <2> HIDE DEF T
  <2> QED
    BY <1>1, SumSolves
<1>3. SumFunctionOnSet(f, S) = g[S] /\ SumFunctionOnSet(f, T) = h[T]
  <2> HIDE DEF T
  <2> QED
    BY SumIsPartial
<1>4. g[S] = f[First(S)] + g[T]
  <2> HIDE DEF g
  <2> QED
    BY <1>2 DEF PartialSums, PartialSum
<1> HIDE DEF g, h
<1>5. g[T] = h[T]
  <2>1. T \subseteq S
    OBVIOUS
  <2> HIDE DEF T
  <2> QED
    BY <1>1, <1>2, <2>1, PartialSumsAgree
<1> QED
  BY <1>3, <1>4, <1>5

LEMMA SumIsInt ==
  ASSUME NEW f, NEW S, IsFiniteSet(S), \A x \in S : f[x] \in Int
  PROVE  SumFunctionOnSet(f, S) \in Int
<1> DEFINE Good == {n \in Nat : \A U \in SUBSET S : IsFiniteSet(U) /\ Cardinality(U) = n
                                    => SumFunctionOnSet(f, U) \in Int}
<1>1. 0 \in Good
  <2> SUFFICES ASSUME NEW U \in SUBSET S, IsFiniteSet(U), Cardinality(U) = 0
               PROVE  SumFunctionOnSet(f, U) \in Int
    OBVIOUS
  <2>1. U = {}
    BY FS_EmptySet
  <2> QED
    BY <2>1, SumOfNothing
<1>2. \A n \in Nat : n \in Good => n + 1 \in Good
  <2> SUFFICES ASSUME NEW n \in Nat,
                      \A U \in SUBSET S : IsFiniteSet(U) /\ Cardinality(U) = n
                         => SumFunctionOnSet(f, U) \in Int,
                      NEW U \in SUBSET S, IsFiniteSet(U), Cardinality(U) = n + 1
               PROVE  SumFunctionOnSet(f, U) \in Int
    OBVIOUS
  <2>1. U # {}
    BY FS_EmptySet
  <2>2. First(U) \in U
    BY <2>1, FirstIn
  <2>3. IsFiniteSet(U \ {First(U)}) /\ Cardinality(U \ {First(U)}) = n
    BY <2>2, OneLess
  <2>4. SumFunctionOnSet(f, U \ {First(U)}) \in Int
    BY <2>3
  <2>5. SumFunctionOnSet(f, U) = f[First(U)] + SumFunctionOnSet(f, U \ {First(U)})
    BY <2>1, SumFirst
  <2> QED
    BY <2>2, <2>4, <2>5
<1>3. Cardinality(S) \in Nat
  BY FS_CardinalityType
<1>4. Nat \subseteq Good
  <2> HIDE DEF Good
  <2> QED
    BY <1>1, <1>2, AllNumbers
<1> QED
  BY <1>3, <1>4

\* Any element may be taken first.
LEMMA SumTakes ==
  ASSUME NEW f, NEW S, IsFiniteSet(S), \A x \in S : f[x] \in Int, NEW y \in S
  PROVE  SumFunctionOnSet(f, S) = f[y] + SumFunctionOnSet(f, S \ {y})
<1> DEFINE Peels(U, x) == SumFunctionOnSet(f, U) = f[x] + SumFunctionOnSet(f, U \ {x})
           Good == {n \in Nat : \A U \in SUBSET S : IsFiniteSet(U) /\ Cardinality(U) = n
                                    => \A x \in U : Peels(U, x)}
<1>1. 0 \in Good
  <2> SUFFICES ASSUME NEW U \in SUBSET S, IsFiniteSet(U), Cardinality(U) = 0, NEW x \in U
               PROVE  Peels(U, x)
    OBVIOUS
  <2>1. U = {}
    BY FS_EmptySet
  <2> QED
    BY <2>1
<1>2. \A n \in Nat : n \in Good => n + 1 \in Good
  <2> SUFFICES ASSUME NEW n \in Nat,
                      \A U \in SUBSET S : IsFiniteSet(U) /\ Cardinality(U) = n
                         => \A x \in U : Peels(U, x),
                      NEW U \in SUBSET S, IsFiniteSet(U), Cardinality(U) = n + 1, NEW x \in U
               PROVE  Peels(U, x)
    OBVIOUS
  <2> DEFINE c == First(U)
  <2>1. c \in U
    BY FirstIn
  <2>2. SumFunctionOnSet(f, U) = f[c] + SumFunctionOnSet(f, U \ {c})
    BY SumFirst
  <2> HIDE DEF c
  <2>3. CASE x = c
    BY <2>2, <2>3
  <2>4. CASE x # c
    <3>0. \A z \in U : IsFiniteSet(U \ {z}) /\ Cardinality(U \ {z}) = n
      BY OneLess
    <3>1. IsFiniteSet(U \ {c}) /\ Cardinality(U \ {c}) = n /\ x \in U \ {c}
      BY <2>1, <2>4, <3>0
    <3>2. IsFiniteSet(U \ {x}) /\ Cardinality(U \ {x}) = n /\ c \in U \ {x}
      BY <2>1, <2>4, <3>0
    <3>3. SumFunctionOnSet(f, U \ {c}) = f[x] + SumFunctionOnSet(f, (U \ {c}) \ {x})
      BY <3>1
    <3>4. SumFunctionOnSet(f, U \ {x}) = f[c] + SumFunctionOnSet(f, (U \ {x}) \ {c})
      BY <3>2
    <3>5. SumFunctionOnSet(f, (U \ {x}) \ {c}) = SumFunctionOnSet(f, (U \ {c}) \ {x})
      <4>1. (U \ {x}) \ {c} = (U \ {c}) \ {x}
        OBVIOUS
      <4> QED
        BY <4>1, Zenon
    <3>6. SumFunctionOnSet(f, (U \ {c}) \ {x}) \in Int
      <4>1. IsFiniteSet((U \ {c}) \ {x})
        BY <3>1, FS_RemoveElement
      <4> QED
        BY <4>1, SumIsInt
    <3>7. f[x] \in Int /\ f[c] \in Int
      BY <2>1
    <3> QED
      BY <2>2, <3>3, <3>4, <3>5, <3>6, <3>7
  <2> QED
    BY <2>3, <2>4
<1>3. Cardinality(S) \in Nat
  BY FS_CardinalityType
<1>4. Nat \subseteq Good
  <2> HIDE DEF Good
  <2> QED
    BY <1>1, <1>2, AllNumbers
<1> QED
  BY <1>3, <1>4

\* A sum over two sets that have nothing in common.
LEMMA SumOfUnion ==
  ASSUME NEW f, NEW S, NEW T, IsFiniteSet(S), IsFiniteSet(T), S \cap T = {},
         \A x \in S \cup T : f[x] \in Int
  PROVE  SumFunctionOnSet(f, S \cup T) = SumFunctionOnSet(f, S) + SumFunctionOnSet(f, T)
<1> DEFINE Splits(U) == SumFunctionOnSet(f, U \cup T) = SumFunctionOnSet(f, U) + SumFunctionOnSet(f, T)
           Good == {n \in Nat : \A U \in SUBSET S : IsFiniteSet(U) /\ Cardinality(U) = n => Splits(U)}
<1>0. SumFunctionOnSet(f, T) \in Int
  BY SumIsInt
<1>1. 0 \in Good
  <2> SUFFICES ASSUME NEW U \in SUBSET S, IsFiniteSet(U), Cardinality(U) = 0
               PROVE  Splits(U)
    OBVIOUS
  <2>1. U = {}
    BY FS_EmptySet
  <2>2. SumFunctionOnSet(f, U \cup T) = SumFunctionOnSet(f, T)
    <3>1. U \cup T = T
      BY <2>1
    <3> QED
      BY <3>1, Zenon
  <2>3. SumFunctionOnSet(f, U) = 0
    BY <2>1, SumOfNothing, Zenon
  <2> QED
    BY <1>0, <2>2, <2>3
<1>2. \A n \in Nat : n \in Good => n + 1 \in Good
  <2> SUFFICES ASSUME NEW n \in Nat,
                      \A U \in SUBSET S : IsFiniteSet(U) /\ Cardinality(U) = n => Splits(U),
                      NEW U \in SUBSET S, IsFiniteSet(U), Cardinality(U) = n + 1
               PROVE  Splits(U)
    OBVIOUS
  <2>1. U # {}
    BY FS_EmptySet
  <2>2. PICK x \in U : TRUE
    BY <2>1
  <2>3. IsFiniteSet(U \ {x}) /\ Cardinality(U \ {x}) = n
    BY OneLess
  <2>4. Splits(U \ {x})
    BY <2>3
  <2>5. SumFunctionOnSet(f, U) = f[x] + SumFunctionOnSet(f, U \ {x})
    BY SumTakes
  <2>6. SumFunctionOnSet(f, U \cup T) = f[x] + SumFunctionOnSet(f, (U \ {x}) \cup T)
    <3>1. IsFiniteSet(U \cup T)
      BY FS_Union
    <3>2. x \in U \cup T /\ \A y \in U \cup T : f[y] \in Int
      OBVIOUS
    <3>3. (U \cup T) \ {x} = (U \ {x}) \cup T
      OBVIOUS
    <3> QED
      BY <3>1, <3>2, <3>3, SumTakes
  <2>7. SumFunctionOnSet(f, U \ {x}) \in Int /\ f[x] \in Int
    BY <2>3, SumIsInt
  <2> QED
    BY <1>0, <2>4, <2>5, <2>6, <2>7
<1>3. Cardinality(S) \in Nat
  BY FS_CardinalityType
<1>4. Nat \subseteq Good
  <2> HIDE DEF Good
  <2> QED
    BY <1>1, <1>2, AllNumbers
<1> QED
  BY <1>3, <1>4

\* A sum of sums, and sums of what is the same everywhere.
LEMMA SumAdds ==
  ASSUME NEW S, IsFiniteSet(S), NEW f, NEW g, NEW h,
         \A x \in S : f[x] \in Int /\ g[x] \in Int /\ h[x] = f[x] + g[x]
  PROVE  SumFunctionOnSet(h, S) = SumFunctionOnSet(f, S) + SumFunctionOnSet(g, S)
<1> DEFINE Adds(U) == SumFunctionOnSet(h, U) = SumFunctionOnSet(f, U) + SumFunctionOnSet(g, U)
           Good == {n \in Nat : \A U \in SUBSET S : IsFiniteSet(U) /\ Cardinality(U) = n => Adds(U)}
<1>1. 0 \in Good
  <2> SUFFICES ASSUME NEW U \in SUBSET S, IsFiniteSet(U), Cardinality(U) = 0
               PROVE  Adds(U)
    OBVIOUS
  <2>1. U = {}
    BY FS_EmptySet
  <2>2. SumFunctionOnSet(h, U) = 0 /\ SumFunctionOnSet(f, U) = 0 /\ SumFunctionOnSet(g, U) = 0
    BY <2>1, SumOfNothing, Zenon
  <2> QED
    BY <2>2
<1>2. \A n \in Nat : n \in Good => n + 1 \in Good
  <2> SUFFICES ASSUME NEW n \in Nat,
                      \A U \in SUBSET S : IsFiniteSet(U) /\ Cardinality(U) = n => Adds(U),
                      NEW U \in SUBSET S, IsFiniteSet(U), Cardinality(U) = n + 1
               PROVE  Adds(U)
    OBVIOUS
  <2>1. U # {}
    BY FS_EmptySet
  <2>2. PICK x \in U : TRUE
    BY <2>1
  <2>3. IsFiniteSet(U \ {x}) /\ Cardinality(U \ {x}) = n
    BY OneLess
  <2>4. Adds(U \ {x})
    BY <2>3
  <2>5. \A y \in U : f[y] \in Int /\ g[y] \in Int /\ h[y] \in Int
    OBVIOUS
  <2>6. /\ SumFunctionOnSet(f, U) = f[x] + SumFunctionOnSet(f, U \ {x})
        /\ SumFunctionOnSet(g, U) = g[x] + SumFunctionOnSet(g, U \ {x})
        /\ SumFunctionOnSet(h, U) = h[x] + SumFunctionOnSet(h, U \ {x})
    BY <2>5, SumTakes
  <2>7. SumFunctionOnSet(f, U \ {x}) \in Int /\ SumFunctionOnSet(g, U \ {x}) \in Int
    BY <2>3, <2>5, SumIsInt
  <2>8. h[x] = f[x] + g[x] /\ f[x] \in Int /\ g[x] \in Int
    OBVIOUS
  <2> QED
    BY <2>4, <2>6, <2>7, <2>8
<1>3. Cardinality(S) \in Nat
  BY FS_CardinalityType
<1>4. Nat \subseteq Good
  <2> HIDE DEF Good
  <2> QED
    BY <1>1, <1>2, AllNumbers
<1> QED
  BY <1>3, <1>4

LEMMA SumOfConstant ==
  ASSUME NEW S, IsFiniteSet(S), NEW f, NEW c \in Int, \A x \in S : f[x] = c
  PROVE  SumFunctionOnSet(f, S) = c * Cardinality(S)
<1> DEFINE Multiplied(n) == \A U \in SUBSET S : IsFiniteSet(U) /\ Cardinality(U) = n
                                                 => SumFunctionOnSet(f, U) = c * n
           Good == {n \in Nat : Multiplied(n)}
<1>1. 0 \in Good
  <2> SUFFICES ASSUME NEW U \in SUBSET S, IsFiniteSet(U), Cardinality(U) = 0
               PROVE  SumFunctionOnSet(f, U) = 0
    <3>1. c * 0 = 0
      OBVIOUS
    <3> QED
      BY <3>1
  <2>1. U = {}
    BY FS_EmptySet
  <2> QED
    BY <2>1, SumOfNothing, Zenon
<1>2. \A n \in Nat : n \in Good => n + 1 \in Good
  <2> HIDE DEF Multiplied
  <2> SUFFICES ASSUME NEW n \in Nat, Multiplied(n)
               PROVE  Multiplied(n + 1)
    OBVIOUS
  <2> USE DEF Multiplied
  <2> SUFFICES ASSUME NEW U \in SUBSET S, IsFiniteSet(U), Cardinality(U) = n + 1
               PROVE  SumFunctionOnSet(f, U) = c * (n + 1)
    OBVIOUS
  <2>1. U # {}
    BY FS_EmptySet
  <2>2. PICK x \in U : TRUE
    BY <2>1
  <2>3. IsFiniteSet(U \ {x}) /\ Cardinality(U \ {x}) = n
    BY OneLess
  <2>4. SumFunctionOnSet(f, U \ {x}) = c * n
    BY <2>3
  <2>5. \A y \in U : f[y] \in Int
    OBVIOUS
  <2>6. SumFunctionOnSet(f, U) = f[x] + SumFunctionOnSet(f, U \ {x})
    BY <2>5, SumTakes
  <2>7. f[x] = c
    OBVIOUS
  <2>8. c + c * n = c * (n + 1)
    OBVIOUS
  <2> QED
    BY <2>4, <2>6, <2>7, <2>8
<1>3. Cardinality(S) \in Nat
  BY FS_CardinalityType
<1>4. Nat \subseteq Good
  <2> HIDE DEF Good
  <2> QED
    BY <1>1, <1>2, AllNumbers
<1> QED
  BY <1>3, <1>4

LEMMA SumOfZeros ==
  ASSUME NEW S, IsFiniteSet(S), NEW f, \A x \in S : f[x] = 0
  PROVE  SumFunctionOnSet(f, S) = 0
<1>1. SumFunctionOnSet(f, S) = 0 * Cardinality(S)
  BY SumOfConstant
<1>2. Cardinality(S) \in Nat
  BY FS_CardinalityType
<1> QED
  BY <1>1, <1>2

\* What counts in a sum are the elements that are not 0.
LEMMA SumOfSome ==
  ASSUME NEW S, IsFiniteSet(S), NEW T \in SUBSET S, NEW f, \A x \in S : f[x] \in Int,
         \A x \in S \ T : f[x] = 0
  PROVE  SumFunctionOnSet(f, S) = SumFunctionOnSet(f, T)
<1>1. IsFiniteSet(T) /\ IsFiniteSet(S \ T)
  BY FS_Subset
<1>2. SumFunctionOnSet(f, T \cup (S \ T)) = SumFunctionOnSet(f, T) + SumFunctionOnSet(f, S \ T)
  <2>1. T \cap (S \ T) = {} /\ \A x \in T \cup (S \ T) : f[x] \in Int
    OBVIOUS
  <2> QED
    BY <1>1, <2>1, SumOfUnion
<1>3. SumFunctionOnSet(f, S \ T) = 0
  BY <1>1, SumOfZeros
<1>4. SumFunctionOnSet(f, T \cup (S \ T)) = SumFunctionOnSet(f, S)
  <2>1. T \cup (S \ T) = S
    OBVIOUS
  <2> QED
    BY <2>1, Zenon
<1>5. SumFunctionOnSet(f, T) \in Int
  BY <1>1, SumIsInt
<1> QED
  BY <1>2, <1>3, <1>4, <1>5

-----------------------------------------------------------------------------
(* Categories: types *)

AllSlugs == Slugs \cup {Unknown, Transfer}
StoredCategory == Category \cup {Absent}
ReadRows == UNION {[S -> StoredCategory] : S \in SUBSET Txns}
JobPcs == {"idle", "pages", "write", "choose", "choose and create", "create", "list", "apply"}
Job == [pc : JobPcs, read : ReadRows, txn : SUBSET Txns, category : StoredCategory]
Application == [before : ReadRows, reverted : BOOLEAN]
CategoriesTypes ==
    /\ stored \in [Txns -> StoredCategory]
    /\ rules \in Seq(AllSlugs)
    /\ applications \in Seq(Application)
    /\ job \in [Jobs -> Job]
    /\ DOMAIN choice \subseteq Txns
    /\ overwritten \subseteq Txns

\* A job that is about to write has not read a choice by hand.
Spares(q) == q.pc \in {"write", "apply"} => \A t \in DOMAIN q.read : q.read[t].source # "user_manual"
SparesInv == \A j \in Jobs : Spares(job[j])

ChoiceInv == CategoriesTypes /\ SparesInv /\ ChoiceStands

\* What has been read of some rows.
LEMMA ReadRowsAre ==
  ASSUME NEW r
  PROVE  r \in ReadRows <=> \E S \in SUBSET Txns : r \in [S -> StoredCategory]
  BY DEF ReadRows

LEMMA ReadTypes ==
  ASSUME CategoriesTypes, NEW S \in SUBSET Txns
  PROVE  Read(S) \in ReadRows /\ DOMAIN Read(S) = S /\ \A t \in S : Read(S)[t] = stored[t]
<1>1. Read(S) \in [S -> StoredCategory]
  BY DEF CategoriesTypes, Read
<1> QED
  BY <1>1, ReadRowsAre DEF Read

\* Some of what has been read.
LEMMA LessRead ==
  ASSUME NEW r \in ReadRows, NEW S \in SUBSET (DOMAIN r)
  PROVE  [x \in S |-> r[x]] \in ReadRows /\ S \subseteq Txns
<1>1. PICK T \in SUBSET Txns : r \in [T -> StoredCategory]
  BY ReadRowsAre
<1>2. S \in SUBSET Txns /\ [x \in S |-> r[x]] \in [S -> StoredCategory]
  BY <1>1
<1> QED
  BY <1>2, ReadRowsAre

\* Every entry of what has been read is a row.
LEMMA ReadRow ==
  ASSUME NEW r \in ReadRows
  PROVE  DOMAIN r \subseteq Txns /\ \A t \in DOMAIN r : r[t] \in StoredCategory
  BY ReadRowsAre

LEMMA NothingRead == <<>> \in ReadRows /\ DOMAIN <<>> = {}
<1>1. <<>> \in [{} -> StoredCategory] /\ DOMAIN <<>> = {}
  OBVIOUS
<1> QED
  BY <1>1, ReadRowsAre

LEMMA NoJobTypes ==
  /\ NoJob \in Job /\ NoJob.pc = "idle" /\ Absent \in StoredCategory
  /\ NoJob.read = <<>> /\ NoJob.txn = {} /\ NoJob.category = Absent
  BY NothingRead DEF NoJob, Job, JobPcs, StoredCategory

\* What a choice, or the application of a rule, makes of a row.
LEMMA DecidedTypes ==
  ASSUME NEW slug \in AllSlugs
  PROVE  Decided(slug) \in StoredCategory /\ [slug |-> slug, source |-> "user_manual"] \in StoredCategory
  BY DEF Decided, StoredCategory, Category, Sources, AllSlugs

\* A category has a slug.
LEMMA SlugTypes ==
  ASSUME NEW c \in StoredCategory
  PROVE  c.slug \in AllSlugs
  BY DEF StoredCategory, Category, Absent, AllSlugs

\* What the rules, the lexicon and the corrections decide.
LEMMA CategorizedTypes ==
  ASSUME CategoriesTypes
  PROVE  Categorized \in StoredCategory
<1>1. CASE rules # <<>>
  <2>1. Head(rules) \in AllSlugs
    BY <1>1 DEF CategoriesTypes
  <2> QED
    BY <1>1, <2>1, DecidedTypes DEF Categorized
<1>2. CASE rules = <<>> /\ Recognised # Unknown
  <2>1. [slug |-> Recognised, source |-> "lexicon"] \in StoredCategory
    BY CategoriesAssumption DEF StoredCategory, Category, Sources
  <2> QED
    BY <1>2, <2>1 DEF Categorized
<1>3. CASE rules = <<>> /\ Recognised = Unknown /\ Cardinality(Learned) = 1
  <2>1. Learned # {}
    BY <1>3, FS_EmptySet
  <2>2. (CHOOSE s \in Learned : TRUE) \in Learned
    BY <2>1
  <2>3. \A s \in Learned : s \in AllSlugs
    BY SlugTypes DEF Learned, Manual, CategoriesTypes
  <2>4. [slug |-> CHOOSE s \in Learned : TRUE, source |-> "model"] \in StoredCategory
    BY <2>2, <2>3 DEF StoredCategory, Category, Sources, AllSlugs
  <2> QED
    BY <1>3, <2>4 DEF Categorized
<1>4. CASE rules = <<>> /\ Recognised = Unknown /\ Cardinality(Learned) # 1
  <2>1. [slug |-> Unknown, source |-> "unknown"] \in StoredCategory
    BY DEF StoredCategory, Category, Sources
  <2> QED
    BY <1>4, <2>1 DEF Categorized
<1> QED
  BY <1>1, <1>2, <1>3, <1>4

-----------------------------------------------------------------------------
(* Categories: what a step leaves of the choices *)

\* A job that becomes one which spares the choices.
LEMMA JobBecomes ==
  ASSUME ChoiceInv, NEW j \in Jobs, NEW q \in Job, Spares(q), Becomes(j, q)
  PROVE  job' \in [Jobs -> Job] /\ SparesInv'
<1>1. job \in [Jobs -> Job] /\ job' = [job EXCEPT ![j] = q]
  BY DEF ChoiceInv, CategoriesTypes, Becomes
<1>2. job'[j] = q /\ \A k \in Jobs : k # j => job'[k] = job[k]
  BY <1>1
<1>3. \A k \in Jobs : Spares(job[k])
  BY DEF ChoiceInv, SparesInv
<1>4. \A k \in Jobs : Spares(job'[k])
  BY <1>2, <1>3
<1> QED
  BY <1>1, <1>4 DEF SparesInv, Spares

\* Only the job changes.
LEMMA JobOnly ==
  ASSUME ChoiceInv, NEW j \in Jobs, NEW q \in Job, Spares(q), Becomes(j, q),
         UNCHANGED <<stored, choice, overwritten>>, rules' \in Seq(AllSlugs), applications' = applications
  PROVE  ChoiceInv'
<1>1. job' \in [Jobs -> Job] /\ SparesInv'
  BY JobBecomes
<1> QED
  BY <1>1 DEF ChoiceInv, CategoriesTypes, ChoiceStands

\* The choices that still stand are among those that stood.
LEMMA ChoicesKept ==
  ASSUME ChoiceInv,
         \A t \in DOMAIN choice' \ overwritten' :
            t \in DOMAIN choice /\ t \notin overwritten /\ choice'[t] = choice[t] /\ stored'[t] = stored[t]
  PROVE  ChoiceStands'
  BY DEF ChoiceInv, ChoiceStands

\* What a job writes over rows it has read is marked, unless nobody had chosen anything for them.
LEMMA WriteKeeps ==
  ASSUME ChoiceInv, NEW j \in Jobs, job[j].pc \in {"write", "apply"},
         NEW S \in SUBSET (DOMAIN job[j].read), Write(j, S), choice' = choice
  PROVE  stored' \in [Txns -> StoredCategory] /\ overwritten' \subseteq Txns /\ ChoiceStands'
<1>1. job[j] \in Job
  BY DEF ChoiceInv, CategoriesTypes
<1>2. job[j].category \in StoredCategory /\ job[j].read \in ReadRows
  BY <1>1 DEF Job
<1>3. S \subseteq Txns /\ \A t \in S : job[j].read[t].source # "user_manual"
  BY <1>2, ReadRow DEF ChoiceInv, SparesInv, Spares
<1>4. stored' \in [Txns -> StoredCategory]
  BY <1>2 DEF Write, ChoiceInv, CategoriesTypes
<1>5. overwritten' \subseteq Txns
  BY <1>3 DEF Write, ChoiceInv, CategoriesTypes
<1>6. ASSUME NEW t \in DOMAIN choice' \ overwritten'
      PROVE  t \in DOMAIN choice /\ t \notin overwritten /\ choice'[t] = choice[t] /\ stored'[t] = stored[t]
  <2>1. t \in DOMAIN choice /\ t \notin overwritten /\ t \in Txns
    BY DEF Write, ChoiceInv, CategoriesTypes
  <2>2. t \notin S \cap Present
    BY <1>3, <2>1 DEF Write
  <2>3. stored'[t] = stored[t]
    BY <2>1, <2>2 DEF Write
  <2> QED
    BY <2>1, <2>3
<1> QED
  BY <1>4, <1>5, <1>6, ChoicesKept

-----------------------------------------------------------------------------
(* Categories: steps *)

LEMMA SyncStarts ==
  ASSUME ChoiceInv, NEW j \in Jobs, StartSync(j)
  PROVE  ChoiceInv'
<1> DEFINE q == [NoJob EXCEPT !.pc = "pages", !.category = Categorized]
<1>1. q \in Job /\ q.pc = "pages"
  BY NoJobTypes, CategorizedTypes DEF ChoiceInv, Job, JobPcs
<1> QED
  BY <1>1, JobOnly DEF StartSync, Spares, ChoiceInv, CategoriesTypes

\* A page leaves alone what the user has categorised.
LEMMA PageWritten ==
  ASSUME ChoiceInv, NEW j \in Jobs, NEW S \in SUBSET Txns, UpsertMany(j, S)
  PROVE  ChoiceInv'
<1>1. job[j].category \in StoredCategory
  BY DEF ChoiceInv, CategoriesTypes, Job
<1>2. stored' \in [Txns -> StoredCategory]
  BY <1>1 DEF UpsertMany, ChoiceInv, CategoriesTypes
<1>3. ASSUME NEW t \in DOMAIN choice' \ overwritten'
      PROVE  t \in DOMAIN choice /\ t \notin overwritten /\ choice'[t] = choice[t] /\ stored'[t] = stored[t]
  <2>1. t \in DOMAIN choice /\ t \notin overwritten /\ t \in Txns /\ choice'[t] = choice[t]
    BY DEF UpsertMany, ChoiceInv, CategoriesTypes
  <2>2. stored[t] = [slug |-> choice[t], source |-> "user_manual"]
    BY <2>1 DEF ChoiceInv, ChoiceStands
  <2>3. ByUser(stored[t])
    BY <2>2 DEF ByUser
  <2> QED
    BY <2>1, <2>3 DEF UpsertMany
<1>4. ChoiceStands'
  BY <1>3, ChoicesKept
<1> QED
  BY <1>2, <1>4 DEF UpsertMany, ChoiceInv, CategoriesTypes, SparesInv

\* A row that goes takes its choice along.
LEMMA RowRemoved ==
  ASSUME ChoiceInv, NEW j \in Jobs, NEW t \in Txns, RemoveByProviderIds(j, t)
  PROVE  ChoiceInv'
<1>1. stored' \in [Txns -> StoredCategory]
  BY NoJobTypes DEF RemoveByProviderIds, ChoiceInv, CategoriesTypes
<1>2. applications' \in Seq(Application)
  <2> DEFINE n == Len(applications)
             After(a) == [a EXCEPT !.before = [x \in DOMAIN @ \ {t} |-> @[x]]]
  <2>1. n \in Nat /\ DOMAIN applications = 1..n /\ \A k \in 1..n : applications[k] \in Application
    BY DEF ChoiceInv, CategoriesTypes
  <2>2. \A k \in 1..n : applications[k].before \in ReadRows
    BY <2>1 DEF Application
  <2>3. \A k \in 1..n : [x \in DOMAIN applications[k].before \ {t} |-> applications[k].before[x]] \in ReadRows
    BY <2>2, LessRead
  <2>4. \A k \in 1..n : After(applications[k]) \in Application
    BY <2>1, <2>3 DEF Application
  <2>5. applications' = [k \in 1..n |-> After(applications[k])]
    BY <2>1 DEF RemoveByProviderIds
  <2> HIDE DEF After
  <2>6. applications' \in [1..n -> Application]
    BY <2>4, <2>5
  <2> QED
    BY <2>1, <2>6
<1>3. DOMAIN choice' = DOMAIN choice \ {t} /\ \A x \in DOMAIN choice' : choice'[x] = choice[x]
  BY DEF RemoveByProviderIds
<1>4. overwritten' = overwritten \ {t} /\ \A x \in Txns : x # t => stored'[x] = stored[x]
  BY DEF RemoveByProviderIds, ChoiceInv, CategoriesTypes
<1>5. ChoiceStands'
  BY <1>3, <1>4, ChoicesKept DEF ChoiceInv, CategoriesTypes
<1> QED
  BY <1>1, <1>2, <1>3, <1>4, <1>5 DEF RemoveByProviderIds, ChoiceInv, CategoriesTypes, SparesInv

\* What pairs up is not what the user has categorised.
LEMMA RecentRead ==
  ASSUME ChoiceInv, NEW j \in Jobs, ReadRecent(j)
  PROVE  ChoiceInv'
<1> DEFINE transfer == [slug |-> Transfer, source |-> "transfer_pairing"]
           q == [NoJob EXCEPT !.pc = "write", !.read = Read(Paired), !.category = transfer]
<1>1. Paired \in SUBSET Txns /\ \A t \in Paired : stored[t].source # "user_manual"
  BY DEF Paired, Present, ByUser
<1>2. Read(Paired) \in ReadRows /\ DOMAIN Read(Paired) = Paired /\ \A t \in Paired : Read(Paired)[t] = stored[t]
  BY <1>1, ReadTypes DEF ChoiceInv
<1>3. transfer \in StoredCategory
  BY DEF StoredCategory, Category, Sources
<1>4. q \in Job /\ q.read = Read(Paired)
  BY <1>2, <1>3, NoJobTypes DEF Job, JobPcs
<1>5. Spares(q) /\ Spares(NoJob)
  BY <1>1, <1>2, <1>4, NoJobTypes DEF Spares
<1> HIDE DEF q
<1>6. Becomes(j, q) \/ Becomes(j, NoJob)
  BY DEF ReadRecent, q
<1> QED
  BY <1>4, <1>5, <1>6, NoJobTypes, JobOnly DEF ReadRecent, ChoiceInv, CategoriesTypes

LEMMA RowWritten ==
  ASSUME ChoiceInv, NEW j \in Jobs, NEW t \in Txns, WriteNext(j, t)
  PROVE  ChoiceInv'
<1> DEFINE left == DOMAIN job[j].read \ {t}
           q == [job[j] EXCEPT !.read = [x \in left |-> @[x]]]
<1>1. job[j] \in Job /\ job[j].pc = "write" /\ t \in DOMAIN job[j].read /\ job[j].read \in ReadRows
  BY DEF ChoiceInv, CategoriesTypes, WriteNext, Doing, Job
<1>2. stored' \in [Txns -> StoredCategory] /\ overwritten' \subseteq Txns /\ ChoiceStands'
  <2>1. {t} \in SUBSET (DOMAIN job[j].read) /\ Write(j, {t}) /\ choice' = choice
    BY <1>1 DEF WriteNext
  <2> QED
    BY <1>1, <2>1, WriteKeeps
<1>3. [x \in left |-> job[j].read[x]] \in ReadRows
  BY <1>1, LessRead
<1>4. q \in Job /\ q.pc = "write" /\ q.read = [x \in left |-> job[j].read[x]]
  BY <1>1, <1>3 DEF Job
<1>5. Spares(job[j])
  BY DEF ChoiceInv, SparesInv
<1>6. Spares(q) /\ Spares(NoJob)
  BY <1>1, <1>4, <1>5, NoJobTypes DEF Spares
<1> HIDE DEF q
<1>7. Becomes(j, q) \/ Becomes(j, NoJob)
  BY DEF WriteNext, q
<1>8. job' \in [Jobs -> Job] /\ SparesInv'
  BY <1>4, <1>6, <1>7, NoJobTypes, JobBecomes
<1> QED
  BY <1>2, <1>8 DEF WriteNext, ChoiceInv, CategoriesTypes

LEMMA RecategorizeStarts ==
  ASSUME ChoiceInv, NEW j \in Jobs, NEW t \in Txns, NEW slug \in Slugs, NEW createRule \in BOOLEAN,
         StartRecategorize(j, t, slug, createRule)
  PROVE  ChoiceInv'
<1> DEFINE pc == IF createRule THEN "choose and create" ELSE "choose"
           q == [NoJob EXCEPT !.pc = pc, !.txn = {t}, !.category = Decided(slug)]
<1>1. Decided(slug) \in StoredCategory
  BY DecidedTypes DEF AllSlugs
<1>2. q \in Job /\ q.pc = pc
  BY <1>1, NoJobTypes DEF Job, JobPcs
<1>3. Spares(q)
  BY <1>2 DEF Spares
<1>4. Becomes(j, q)
  BY DEF StartRecategorize
<1> HIDE DEF q
<1> QED
  BY <1>2, <1>3, <1>4, JobOnly DEF StartRecategorize, ChoiceInv, CategoriesTypes

\* The choice is written and noted in one.
LEMMA ChoiceMade ==
  ASSUME ChoiceInv, NEW j \in Jobs, Choose(j)
  PROVE  ChoiceInv'
<1> DEFINE txn == job[j].txn \cap Present
           slug == job[j].category.slug
           q == [job[j] EXCEPT !.pc = "create"]
<1>1. job[j] \in Job
  BY DEF ChoiceInv, CategoriesTypes
<1>2. txn \subseteq Txns /\ slug \in AllSlugs
  BY <1>1, SlugTypes DEF Job
<1>3. stored' \in [Txns -> StoredCategory]
  BY <1>2, DecidedTypes DEF Choose, ChoiceInv, CategoriesTypes
<1>4. /\ DOMAIN choice' = DOMAIN choice \cup txn
      /\ \A x \in DOMAIN choice' : choice'[x] = IF x \in txn THEN slug ELSE choice[x]
      /\ overwritten' = overwritten \ txn
      /\ \A x \in Txns : stored'[x] = IF x \in txn THEN [slug |-> slug, source |-> "user_manual"] ELSE stored[x]
  BY DEF Choose
<1>5. DOMAIN choice \subseteq Txns /\ overwritten \subseteq Txns
  BY DEF ChoiceInv, CategoriesTypes
<1>6. ChoiceStands'
  BY <1>2, <1>4, <1>5 DEF ChoiceInv, ChoiceStands
<1>7. q \in Job /\ q.pc = "create"
  BY <1>1 DEF Job, JobPcs
<1>8. Spares(q) /\ Spares(NoJob)
  BY <1>7, NoJobTypes DEF Spares
<1>9. Becomes(j, q) \/ Becomes(j, NoJob)
  BY DEF Choose
<1> HIDE DEF q
<1>10. job' \in [Jobs -> Job] /\ SparesInv'
  BY <1>7, <1>8, <1>9, NoJobTypes, JobBecomes
<1>11. rules' = rules /\ applications' = applications
  BY DEF Choose
<1> QED
  BY <1>2, <1>3, <1>4, <1>5, <1>6, <1>10, <1>11 DEF ChoiceInv, CategoriesTypes

LEMMA RuleCreated ==
  ASSUME ChoiceInv, NEW j \in Jobs, CreateRule(j)
  PROVE  ChoiceInv'
<1> DEFINE q == [job[j] EXCEPT !.pc = "list"]
<1>1. job[j] \in Job
  BY DEF ChoiceInv, CategoriesTypes
<1>2. q \in Job /\ q.pc = "list"
  BY <1>1 DEF Job, JobPcs
<1>3. job[j].category.slug \in AllSlugs
  BY <1>1, SlugTypes DEF Job
<1>4. rules' \in Seq(AllSlugs)
  BY <1>3 DEF CreateRule, ChoiceInv, CategoriesTypes
<1>5. Spares(q) /\ Becomes(j, q)
  BY <1>2 DEF Spares, CreateRule
<1> HIDE DEF q
<1> QED
  BY <1>2, <1>4, <1>5, JobOnly DEF CreateRule

LEMMA OthersListed ==
  ASSUME ChoiceInv, NEW j \in Jobs, ListOthers(j)
  PROVE  ChoiceInv'
<1> DEFINE others_ == Present \ (job[j].txn \cup Manual)
           q == [job[j] EXCEPT !.pc = "write", !.txn = {}, !.read = Read(others_)]
<1>1. others_ \in SUBSET Txns /\ \A t \in others_ : stored[t].source # "user_manual"
  BY DEF Present, Manual
<1>2. Read(others_) \in ReadRows /\ DOMAIN Read(others_) = others_
      /\ \A t \in others_ : Read(others_)[t] = stored[t]
  BY <1>1, ReadTypes DEF ChoiceInv
<1>3. job[j] \in Job
  BY DEF ChoiceInv, CategoriesTypes
<1>4. q \in Job /\ q.read = Read(others_)
  BY <1>2, <1>3 DEF Job, JobPcs
<1>5. Spares(q) /\ Spares(NoJob)
  BY <1>1, <1>2, <1>4, NoJobTypes DEF Spares
<1>6. Becomes(j, q) \/ Becomes(j, NoJob)
  BY DEF ListOthers
<1> HIDE DEF q
<1> QED
  BY <1>4, <1>5, <1>6, NoJobTypes, JobOnly DEF ListOthers, ChoiceInv, CategoriesTypes

LEMMA RuleRemoved ==
  ASSUME ChoiceInv, NEW k \in DOMAIN rules, RemoveRule(k)
  PROVE  ChoiceInv'
<1>1. rules' \in Seq(AllSlugs)
  BY DEF RemoveRule, RemoveAt, ChoiceInv, CategoriesTypes
<1> QED
  BY <1>1 DEF RemoveRule, ChoiceInv, CategoriesTypes, SparesInv, ChoiceStands

LEMMA ApplyStarts ==
  ASSUME ChoiceInv, NEW j \in Jobs, NEW slug \in Slugs, StartApply(j, slug)
  PROVE  ChoiceInv'
<1> DEFINE S == Changes(slug)
           q == [NoJob EXCEPT !.pc = "apply", !.read = Read(S), !.category = Decided(slug)]
<1>1. S \in SUBSET Txns /\ \A t \in S : stored[t].source # "user_manual"
  BY DEF Changes, Present, Manual
<1>2. Read(S) \in ReadRows /\ DOMAIN Read(S) = S /\ \A t \in S : Read(S)[t] = stored[t]
  BY <1>1, ReadTypes DEF ChoiceInv
<1>3. Decided(slug) \in StoredCategory
  BY DecidedTypes DEF AllSlugs
<1>4. q \in Job /\ q.read = Read(S)
  BY <1>2, <1>3, NoJobTypes DEF Job, JobPcs
<1>5. Spares(q) /\ Becomes(j, q)
  BY <1>1, <1>2, <1>4 DEF Spares, StartApply
<1> HIDE DEF q
<1> QED
  BY <1>4, <1>5, JobOnly DEF StartApply, ChoiceInv, CategoriesTypes

LEMMA RuleApplied ==
  ASSUME ChoiceInv, NEW j \in Jobs, ApplyRule(j)
  PROVE  ChoiceInv'
<1>1. job[j] \in Job /\ job[j].pc = "apply"
  BY DEF ChoiceInv, CategoriesTypes, ApplyRule, Doing
<1>2. job' \in [Jobs -> Job] /\ SparesInv'
  BY NoJobTypes, JobBecomes DEF ApplyRule, Spares
<1>3. CASE DOMAIN job[j].read \subseteq Present
  <2>1. Write(j, DOMAIN job[j].read) /\ choice' = choice /\ rules' = rules
    BY <1>3 DEF ApplyRule
  <2>2. stored' \in [Txns -> StoredCategory] /\ overwritten' \subseteq Txns /\ ChoiceStands'
    BY <1>1, <2>1, WriteKeeps
  <2>3. [before |-> job[j].read, reverted |-> FALSE] \in Application
    BY <1>1 DEF Job, Application
  <2>4. applications' \in Seq(Application)
    BY <1>3, <2>3 DEF ApplyRule, ChoiceInv, CategoriesTypes
  <2> QED
    BY <1>2, <2>1, <2>2, <2>4 DEF ChoiceInv, CategoriesTypes
<1>4. CASE ~ (DOMAIN job[j].read \subseteq Present)
  BY <1>2, <1>4 DEF ApplyRule, ChoiceInv, CategoriesTypes, ChoiceStands
<1> QED
  BY <1>3, <1>4

\* What is undone is no longer a choice.
LEMMA ApplicationReverted ==
  ASSUME ChoiceInv, NEW k \in DOMAIN applications, RevertApplication(k)
  PROVE  ChoiceInv'
<1> DEFINE before == applications[k].before
<1>1. applications[k] \in Application
  BY DEF ChoiceInv, CategoriesTypes
<1>2. before \in ReadRows /\ DOMAIN before \subseteq Txns
      /\ \A t \in DOMAIN before : before[t] \in StoredCategory
  BY <1>1, ReadRow DEF Application
<1>3. stored' \in [Txns -> StoredCategory]
  BY <1>2 DEF RevertApplication, ChoiceInv, CategoriesTypes
<1>4. [before |-> <<>>, reverted |-> TRUE] \in Application
  BY NothingRead DEF Application
<1>5. applications' \in Seq(Application)
  BY <1>4 DEF RevertApplication, ChoiceInv, CategoriesTypes
<1>6. /\ DOMAIN choice' = DOMAIN choice \ DOMAIN before /\ \A x \in DOMAIN choice' : choice'[x] = choice[x]
      /\ overwritten' = overwritten \ DOMAIN before
      /\ \A x \in Txns : x \notin DOMAIN before => stored'[x] = stored[x]
      /\ rules' = rules /\ job' = job
  BY DEF RevertApplication
<1>7. ChoiceStands'
  BY <1>6, ChoicesKept DEF ChoiceInv, CategoriesTypes
<1> QED
  BY <1>3, <1>5, <1>6, <1>7 DEF ChoiceInv, CategoriesTypes, SparesInv

-----------------------------------------------------------------------------
(* Categories: the theorem *)

LEMMA ChoiceInitially ==
  ASSUME CategoriesInit
  PROVE  ChoiceInv
<1>1. CategoriesTypes
  BY NoJobTypes DEF CategoriesInit, CategoriesTypes
<1>2. SparesInv
  BY NoJobTypes DEF CategoriesInit, SparesInv, Spares
<1>3. ChoiceStands
  BY DEF CategoriesInit, ChoiceStands
<1> QED
  BY <1>1, <1>2, <1>3 DEF ChoiceInv

LEMMA ChoiceStep ==
  ASSUME ChoiceInv, [CategoriesNext]_categoriesVars
  PROVE  ChoiceInv'
<1>1. ASSUME NEW j \in Jobs, StartSync(j) \/ ReadRecent(j) \/ Choose(j) \/ CreateRule(j) \/ ListOthers(j)
             \/ ApplyRule(j)
      PROVE  ChoiceInv'
  BY <1>1, SyncStarts, RecentRead, ChoiceMade, RuleCreated, OthersListed, RuleApplied
<1>2. ASSUME NEW j \in Jobs, Abandon(j)
      PROVE  ChoiceInv'
  BY <1>2, NoJobTypes, JobOnly DEF Abandon, Spares, ChoiceInv, CategoriesTypes
<1>3. ASSUME NEW j \in Jobs, NEW S \in SUBSET Txns, UpsertMany(j, S)
      PROVE  ChoiceInv'
  BY <1>3, PageWritten
<1>4. ASSUME NEW j \in Jobs, NEW t \in Txns, RemoveByProviderIds(j, t) \/ WriteNext(j, t)
      PROVE  ChoiceInv'
  BY <1>4, RowRemoved, RowWritten
<1>5. ASSUME NEW j \in Jobs, NEW slug \in Slugs, StartApply(j, slug)
      PROVE  ChoiceInv'
  BY <1>5, ApplyStarts
<1>6. ASSUME NEW j \in Jobs, NEW slug \in Slugs, NEW t \in Txns, NEW create \in BOOLEAN,
             StartRecategorize(j, t, slug, create)
      PROVE  ChoiceInv'
  BY <1>6, RecategorizeStarts
<1>7. ASSUME NEW k \in DOMAIN rules, RemoveRule(k)
      PROVE  ChoiceInv'
  BY <1>7, RuleRemoved
<1>8. ASSUME NEW k \in DOMAIN applications, RevertApplication(k)
      PROVE  ChoiceInv'
  BY <1>8, ApplicationReverted
<1>9. CASE UNCHANGED categoriesVars
  BY <1>9 DEF categoriesVars, ChoiceInv, CategoriesTypes, SparesInv, ChoiceStands
<1> QED
  BY <1>1, <1>2, <1>3, <1>4, <1>5, <1>6, <1>7, <1>8, <1>9 DEF CategoriesNext

\* ADR-0004, "never override an explicit choice": what the user last chose by hand stands, unless a job
\* overrides it that had read the row before.
THEOREM ChoicesStand == CategoriesSpec => []ChoiceStands
<1>1. CategoriesInit => ChoiceInv
  BY ChoiceInitially
<1>2. ChoiceInv /\ [CategoriesNext]_categoriesVars => ChoiceInv'
  BY ChoiceStep
<1>3. ChoiceInv => ChoiceStands
  BY DEF ChoiceInv
<1> QED
  BY <1>1, <1>2, <1>3, PTL DEF CategoriesSpec


-----------------------------------------------------------------------------
(* Notifications *)

Push == [alert : Alerts, by : Askers, listed : BOOLEAN, targets : SUBSET Devices]
Reaches(d, device) == ~ d.listed \/ device \in d.targets
PushTypes ==
    /\ delivery \subseteq Push
    /\ tokens \subseteq Devices
    /\ pushed \in [Alerts \X Devices -> {0, 1}]

\* An alert that is on its way is in the centre, is on its way once, and has not arrived where it goes.
AheadInv ==
    /\ \A d \in delivery :
         /\ d.alert \in Known
         /\ ~ d.listed => d.targets = {}
         /\ \A device \in Devices : Reaches(d, device) => pushed[<<d.alert, device>>] = 0
    /\ \A d, e \in delivery : d.alert = e.alert => d = e
    /\ \A alert \in Alerts, device \in Devices : pushed[<<alert, device>>] = 1 => alert \in Known

PushInv == PushTypes /\ AheadInv

\* A step that leaves the pushes alone and takes no alert away.
LEMMA PushesLeft ==
  ASSUME PushInv, UNCHANGED <<delivery, pushed>>, Known \subseteq Known', tokens' \subseteq Devices
  PROVE  PushInv'
  BY DEF PushInv, PushTypes, AheadInv, Reaches

\* Who inserts the alert is the first to push it.
LEMMA AlertCreated ==
  ASSUME PushInv, NEW a \in Askers, NEW alert \in Alerts, CreateAlert(a, alert)
  PROVE  PushInv'
<1>1. CASE alert \in Known
  BY <1>1, PushesLeft DEF CreateAlert, PushInv, PushTypes, Known
<1>2. CASE alert \notin Known
  <2> DEFINE new == [alert |-> alert, by |-> a, listed |-> FALSE, targets |-> {}]
  <2>1. /\ Known' = Known \cup {alert} /\ delivery' = delivery \cup {new}
        /\ UNCHANGED <<tokens, pushed>>
    BY <1>2 DEF CreateAlert, Known
  <2>2. new \in Push /\ new.alert = alert /\ ~ new.listed /\ new.targets = {}
    BY DEF Push
  <2>3. \A d \in delivery : d.alert \in Known
    BY DEF PushInv, AheadInv
  <2>4. \A device \in Devices : pushed[<<alert, device>>] = 0
    BY <1>2 DEF PushInv, PushTypes, AheadInv
  <2> HIDE DEF new
  <2>5. PushTypes'
    BY <2>1, <2>2 DEF PushInv, PushTypes
  <2>6. AheadInv'
    BY <1>2, <2>1, <2>2, <2>3, <2>4 DEF PushInv, AheadInv, Reaches
  <2> QED
    BY <2>5, <2>6 DEF PushInv
<1> QED
  BY <1>1, <1>2

\* The targets of a push are those it may reach.
LEMMA TargetsListed ==
  ASSUME PushInv, NEW d \in delivery, ListTargets(d)
  PROVE  PushInv'
<1> DEFINE new == [d EXCEPT !.listed = TRUE, !.targets = tokens]
<1>1. /\ delivery' \subseteq (delivery \ {d}) \cup {new} /\ ~ d.listed
      /\ UNCHANGED <<tokens, pushed, notices>>
  BY DEF ListTargets
<1>2. d \in Push
  BY DEF PushInv, PushTypes
<1>3. new \in Push /\ new.alert = d.alert /\ new.listed
  BY <1>2 DEF Push, PushInv, PushTypes
<1> HIDE DEF new
<1>4. PushTypes'
  BY <1>1, <1>3 DEF PushInv, PushTypes
<1>5. AheadInv'
  BY <1>1, <1>3 DEF PushInv, AheadInv, Reaches, Known
<1> QED
  BY <1>4, <1>5 DEF PushInv

\* What arrives on a device does not go there any more.
LEMMA PushSent ==
  ASSUME PushInv, NEW d \in delivery, NEW device \in Devices, NEW arrives \in BOOLEAN, Send(d, device, arrives)
  PROVE  PushInv'
<1> DEFINE new == [d EXCEPT !.targets = @ \ {device}]
           here == <<d.alert, device>>
<1>1. /\ delivery' \subseteq (delivery \ {d}) \cup {new} /\ device \in d.targets
      /\ tokens' \subseteq tokens /\ UNCHANGED notices
      /\ pushed' = pushed \/ pushed' = [pushed EXCEPT ![here] = @ + 1]
  BY DEF Send
<1>2. d \in Push
  BY DEF PushInv, PushTypes
<1>3. /\ new \in Push /\ new.alert = d.alert /\ new.listed = d.listed /\ new.targets = d.targets \ {device}
      /\ d.alert \in Alerts /\ d.targets \subseteq Devices
  BY <1>2 DEF Push
<1>4. d.listed /\ d.alert \in Known /\ pushed[here] = 0
  BY <1>1 DEF PushInv, AheadInv, Reaches
<1>5. /\ pushed' \in [Alerts \X Devices -> {0, 1}]
      /\ \A alert \in Alerts, other \in Devices :
            alert # d.alert \/ other # device => pushed'[<<alert, other>>] = pushed[<<alert, other>>]
  <2>1. here \in Alerts \X Devices
    BY <1>3
  <2>2. \A alert \in Alerts, other \in Devices : alert # d.alert \/ other # device => <<alert, other>> # here
    OBVIOUS
  <2> HIDE DEF here
  <2> QED
    BY <1>1, <1>4, <2>1, <2>2 DEF PushInv, PushTypes
<1> HIDE DEF new
<1>6. PushTypes'
  BY <1>1, <1>3, <1>5 DEF PushInv, PushTypes
<1>7. \A e \in delivery' : e.alert \in Known /\ e.alert \in Alerts /\ (~ e.listed => e.targets = {})
  BY <1>1, <1>3, <1>4 DEF PushInv, PushTypes, Push, AheadInv
<1>8. ASSUME NEW e \in delivery', NEW other \in Devices, Reaches(e, other)
      PROVE  pushed'[<<e.alert, other>>] = 0
  <2>1. CASE e = new
    <3>1. other # device /\ Reaches(d, other)
      BY <1>3, <1>4, <1>8, <2>1 DEF Reaches
    <3> QED
      BY <1>3, <1>5, <2>1, <3>1 DEF PushInv, AheadInv
  <2>2. CASE e # new
    <3>1. e \in delivery /\ e # d
      BY <1>1, <2>2
    <3>2. e.alert # d.alert /\ e.alert \in Alerts
      BY <1>7, <3>1 DEF PushInv, AheadInv
    <3> QED
      BY <1>5, <1>8, <3>1, <3>2 DEF PushInv, AheadInv
  <2> QED
    BY <2>1, <2>2
<1>9. \A e, f \in delivery' : e.alert = f.alert => e = f
  BY <1>1, <1>3 DEF PushInv, AheadInv
<1>10. \A alert \in Alerts, other \in Devices : pushed'[<<alert, other>>] = 1 => alert \in Known
  BY <1>4, <1>5 DEF PushInv, AheadInv
<1>11. AheadInv'
  BY <1>1, <1>7, <1>8, <1>9, <1>10 DEF AheadInv, Known
<1> QED
  BY <1>6, <1>11 DEF PushInv

LEMMA PushInductive ==
  ASSUME PushInv, [NotificationsNext]_notificationsVars
  PROVE  PushInv'
<1>1. ASSUME NEW a \in Askers, NEW alert \in Alerts, CreateAlert(a, alert)  PROVE PushInv'
  BY <1>1, AlertCreated
<1>2. ASSUME NEW d \in delivery, ListTargets(d)  PROVE PushInv'
  BY <1>2, TargetsListed
<1>3. ASSUME NEW d \in delivery, NEW device \in Devices, NEW arrives \in BOOLEAN, Send(d, device, arrives)
      PROVE  PushInv'
  BY <1>3, PushSent
<1>4. ASSUME NEW a \in Askers,
             \/ \E derived \in SUBSET Alerts : StartRefresh(a, derived)
             \/ \E alert \in Alerts : MarkNext(a, alert)
             \/ StartMarkAll(a)
      PROVE  PushInv'
  BY <1>4, PushesLeft DEF StartRefresh, MarkNext, StartMarkAll, Known, PushInv, PushTypes
<1>5. ASSUME NEW alert \in Alerts, UpdatePreferences(alert) \/ MarkRead(alert)
      PROVE  PushInv'
  BY <1>5, PushesLeft DEF UpdatePreferences, MarkRead, Known, PushInv, PushTypes
<1>6. ASSUME NEW device \in Devices, RegisterDevice(device) \/ UnregisterDevice(device) \/ TargetEnds(device)
      PROVE  PushInv'
  BY <1>6, PushesLeft DEF RegisterDevice, UnregisterDevice, TargetEnds, Known, PushInv, PushTypes
<1>7. CASE ProcessEnds
  BY <1>7 DEF ProcessEnds, PushInv, PushTypes, AheadInv, Known
<1>8. CASE UNCHANGED notificationsVars
  BY <1>8, PushesLeft DEF notificationsVars, Known, PushInv, PushTypes
<1> QED
  BY <1>1, <1>2, <1>3, <1>4, <1>5, <1>6, <1>7, <1>8 DEF NotificationsNext

\* At most one push of an alert goes to a device, and none once it has arrived there.
LEMMA PushInvSays ==
  ASSUME PushInv
  PROVE  PushedOnce
<1> SUFFICES ASSUME NEW alert \in Alerts, NEW device \in Devices
             PROVE  /\ pushed[<<alert, device>>]
                       + Cardinality({d \in delivery : d.alert = alert
                                      /\ (~ d.listed \/ device \in d.targets)}) <= 1
                    /\ pushed[<<alert, device>>] = 1 => alert \in Known
  BY DEF PushedOnce
<1> DEFINE goes == {d \in delivery : d.alert = alert /\ (~ d.listed \/ device \in d.targets)}
<1>1. pushed[<<alert, device>>] \in {0, 1} /\ (pushed[<<alert, device>>] = 1 => alert \in Known)
  BY DEF PushInv, PushTypes, AheadInv
<1>2. CASE goes = {}
  <2> HIDE DEF goes
  <2>1. Cardinality(goes) = 0
    BY <1>2, FS_EmptySet, Zenon
  <2> USE DEF goes
  <2> QED
    BY <1>1, <2>1
<1>3. CASE goes # {}
  <2>1. PICK d \in goes : TRUE
    BY <1>3
  <2>2. goes = {d}
    BY <2>1 DEF PushInv, AheadInv
  <2>3. pushed[<<alert, device>>] = 0
    BY <2>1 DEF PushInv, AheadInv, Reaches
  <2>4. Cardinality({d}) = 1
    BY FS_Singleton
  <2> QED
    BY <1>1, <2>2, <2>3, <2>4
<1> QED
  BY <1>2, <1>3

\* A device hears of an alert once at most, and only of what is in the centre.
THEOREM AlertsPushedOnce == NotificationsSpec => []PushedOnce
<1>1. NotificationsInit => PushInv
  BY DEF NotificationsInit, PushInv, PushTypes, AheadInv, Known
<1>2. PushInv /\ [NotificationsNext]_notificationsVars => PushInv'
  BY PushInductive
<1>3. PushInv => PushedOnce
  BY PushInvSays
<1> QED
  BY <1>1, <1>2, <1>3, PTL DEF NotificationsSpec

-----------------------------------------------------------------------------
(* StatementReview *)

ReviewPcs == {"idle", "edit", "split", "merge", "ledger", "finalize"}
\* A request, whatever rows it has read.
ReviewerOf(r, ids) == [pc : ReviewPcs, read : {r}, ids : {ids}, outdated : BOOLEAN, missed : BOOLEAN]
IsReviewer(q) == \E r, ids : q \in ReviewerOf(r, ids)

\* Who approves has read the rows as they are, unless he is outdated, and has compared their amounts
\* with all of the account's others, unless he has missed one.
Fresh(q, S) == q.pc \in {"ledger", "finalize"} /\ ~ q.outdated => q.read = S /\ Unreviewed(S) = {}
Compared(q, existing) ==
    q.pc = "finalize" /\ ~ q.missed
    => \A i \in Included(q.read) : \A e \in existing : e.amount # q.read[i].amount
ReviewersInv ==
    /\ reviewer \in [Reviewers -> {reviewer[v] : v \in Reviewers}]
    /\ \A v \in Reviewers : IsReviewer(reviewer[v]) /\ Fresh(reviewer[v], rows) /\ Compared(reviewer[v], others)

\* Nothing is in the ledger as long as the statement can be edited.
UntilApproved == statement = "ready" => imported = 0 /\ ledger = {}

ReviewInv == ReviewersInv /\ UntilApproved /\ LedgerIsReviewed

LEMMA IdleReviewerIs == IsReviewer(IdleReviewer) /\ IdleReviewer.pc = "idle"
  BY DEF IsReviewer, ReviewerOf, ReviewPcs, IdleReviewer

\* What a request is after one of its fields is set.
LEMMA PcSet ==
  ASSUME NEW q, IsReviewer(q), NEW pc \in ReviewPcs
  PROVE  LET n == [q EXCEPT !.pc = pc] IN
         IsReviewer(n) /\ n.pc = pc /\ n.read = q.read /\ n.outdated = q.outdated /\ n.missed = q.missed
  BY DEF IsReviewer, ReviewerOf

LEMMA OutdatedSet ==
  ASSUME NEW q, IsReviewer(q), NEW flag \in BOOLEAN
  PROVE  LET n == [q EXCEPT !.outdated = flag] IN
         IsReviewer(n) /\ n.pc = q.pc /\ n.read = q.read /\ n.outdated = flag /\ n.missed = q.missed
  BY DEF IsReviewer, ReviewerOf

LEMMA MissedSet ==
  ASSUME NEW q, IsReviewer(q), NEW flag \in BOOLEAN
  PROVE  LET n == [q EXCEPT !.missed = flag] IN
         IsReviewer(n) /\ n.pc = q.pc /\ n.read = q.read /\ n.outdated = q.outdated /\ n.missed = flag
  BY DEF IsReviewer, ReviewerOf

\* One request goes on; the rows and the account's others stay.
LEMMA ReviewerGoes ==
  ASSUME ReviewInv, NEW v \in Reviewers, NEW q, Goes(v, q), UNCHANGED <<rows, others>>,
         IsReviewer(q), Fresh(q, rows), Compared(q, others)
  PROVE  ReviewersInv'
<1>1. /\ reviewer' = [w \in Reviewers |-> IF w = v THEN q ELSE reviewer[w]]
  BY DEF Goes, ReviewInv, ReviewersInv
<1>2. \A w \in Reviewers : reviewer'[w] = IF w = v THEN q ELSE reviewer[w]
  BY <1>1
<1>3. \A w \in Reviewers : /\ IsReviewer(reviewer'[w])
                           /\ Fresh(reviewer'[w], rows')
                           /\ Compared(reviewer'[w], others')
  BY <1>2 DEF ReviewInv, ReviewersInv
<1> QED
  BY <1>1, <1>3 DEF ReviewersInv

\* ... and so do the statement and its ledger.
LEMMA ReviewerGoesAlone ==
  ASSUME ReviewInv, NEW v \in Reviewers, NEW q, Goes(v, q), UNCHANGED <<statement, rows, books>>,
         IsReviewer(q), Fresh(q, rows), Compared(q, others)
  PROVE  ReviewInv'
<1>1. ReviewersInv'
  BY ReviewerGoes DEF books
<1> QED
  BY <1>1 DEF ReviewInv, UntilApproved, LedgerIsReviewed, books

LEMMA ReviewerStops ==
  ASSUME ReviewInv, NEW v \in Reviewers, Goes(v, IdleReviewer), UNCHANGED <<statement, rows, books>>
  PROVE  ReviewInv'
  BY IdleReviewerIs, ReviewerGoesAlone DEF Fresh, Compared

\* The rows change only while nothing is in the ledger, and whoever approves is outdated then.
LEMMA RowsWritten ==
  ASSUME ReviewInv, statement = "ready", NEW S, NEW done, RowsBecome(S, done), UNCHANGED <<statement, books>>
  PROVE  ReviewInv'
<1>1. \A w \in Reviewers : reviewer'[w] = IF w \in done THEN IdleReviewer
                                          ELSE [reviewer[w] EXCEPT !.outdated = Approving(w)]
  BY DEF RowsBecome
<1>2. ASSUME NEW w \in Reviewers
      PROVE  IsReviewer(reviewer'[w]) /\ Fresh(reviewer'[w], rows') /\ Compared(reviewer'[w], others')
  <2>1. CASE w \in done
    BY <1>1, <2>1, IdleReviewerIs DEF Fresh, Compared
  <2>2. CASE w \notin done
    <3>1. Approving(w) \in BOOLEAN /\ IsReviewer(reviewer[w]) /\ Compared(reviewer[w], others)
      BY DEF Approving, ReviewInv, ReviewersInv
    <3>2. /\ IsReviewer(reviewer'[w]) /\ reviewer'[w].pc = reviewer[w].pc
             /\ reviewer'[w].read = reviewer[w].read
          /\ reviewer'[w].outdated = Approving(w) /\ reviewer'[w].missed = reviewer[w].missed
      <4>1. reviewer'[w] = [reviewer[w] EXCEPT !.outdated = Approving(w)]
        BY <1>1, <2>2
      <4> QED
        BY <3>1, <4>1, OutdatedSet
    <3> QED
      BY <3>1, <3>2 DEF Fresh, Compared, Approving, books
  <2> QED
    BY <2>1, <2>2
<1>3. reviewer' \in [Reviewers -> {reviewer'[v] : v \in Reviewers}]
  BY DEF RowsBecome
<1> QED
  BY <1>2, <1>3 DEF ReviewInv, ReviewersInv, UntilApproved, LedgerIsReviewed, books

LEMMA RowWriteStarts ==
  ASSUME ReviewInv, NEW v \in Reviewers, NEW pc \in {"edit", "split", "merge"}, NEW ids,
         StartRowWrite(v, pc, ids)
  PROVE  ReviewInv'
<1> DEFINE r == [i \in Rows |-> IF i \in ids THEN rows[i] ELSE NoRow]
           q == [IdleReviewer EXCEPT !.pc = pc, !.ids = ids, !.read = r]
<1>1. Goes(v, q) /\ UNCHANGED <<statement, rows, books>>
  BY DEF StartRowWrite
<1> HIDE DEF r
<1>2. q.pc = pc /\ q \in ReviewerOf(r, ids)
  BY DEF IdleReviewer, ReviewerOf, ReviewPcs
<1>3. IsReviewer(q)
  BY <1>2 DEF IsReviewer
<1> QED
  BY <1>1, <1>2, <1>3, ReviewerGoesAlone DEF Fresh, Compared

LEMMA RowEdited ==
  ASSUME ReviewInv, NEW v \in Reviewers, NEW patch \in Patch, EditRow(v, patch)
  PROVE  ReviewInv'
<1>1. CASE statement = "ready"
  BY <1>1, RowsWritten DEF EditRow
<1>2. CASE statement # "ready"
  BY <1>2, ReviewerStops DEF EditRow, Refuses
<1> QED
  BY <1>1, <1>2

LEMMA RowSplit ==
  ASSUME ReviewInv, NEW v \in Reviewers, NEW part \in 1..MaxRowAmount, SplitRow(v, part)
  PROVE  ReviewInv'
<1>1. PICK i \in reviewer[v].ids :
         LET row == reviewer[v].read[i] IN
         \/ /\ statement = "ready"
            /\ RowsBecome([j \in Rows |->
                           IF j = i THEN [rows[i] EXCEPT !.decision = "exclude", !.split = TRUE]
                           ELSE IF j \in Free(2)
                                THEN FreshRow(row.line, IF j \in Free(1) THEN part ELSE row.amount - part)
                                ELSE rows[j]], {v})
         \/ Refuses(v)
  BY DEF SplitRow
<1>2. UNCHANGED <<statement, books>>
  BY DEF SplitRow
<1> QED
  BY <1>1, <1>2, RowsWritten, ReviewerStops DEF Refuses

LEMMA RowsMerged ==
  ASSUME ReviewInv, NEW v \in Reviewers, MergeRows(v)
  PROVE  ReviewInv'
<1>1. \/ statement = "ready" /\ \E S : RowsBecome(S, {v})
      \/ Refuses(v)
  BY DEF MergeRows
<1>2. UNCHANGED <<statement, books>>
  BY DEF MergeRows
<1> QED
  BY <1>1, <1>2, RowsWritten, ReviewerStops DEF Refuses

LEMMA ApprovalStarts ==
  ASSUME ReviewInv, NEW v \in Reviewers, StartApprove(v)
  PROVE  ReviewInv'
<1> DEFINE q == [IdleReviewer EXCEPT !.pc = "ledger", !.read = rows]
<1>1. Goes(v, q) /\ UNCHANGED <<statement, rows, books>> /\ Unreviewed(rows) = {}
  BY DEF StartApprove
<1>2. q.pc = "ledger" /\ q.read = rows /\ q \in ReviewerOf(rows, {})
  BY DEF IdleReviewer, ReviewerOf, ReviewPcs
<1>3. IsReviewer(q)
  BY <1>2 DEF IsReviewer
<1> QED
  BY <1>1, <1>2, <1>3, ReviewerGoesAlone DEF Fresh, Compared

LEMMA LedgerCompared ==
  ASSUME ReviewInv, NEW v \in Reviewers, CompareLedger(v)
  PROVE  ReviewInv'
<1> DEFINE read == reviewer[v].read
           existing == others \cup {e.key : e \in ledger}
           taken == \E i \in Included(read) : read[i].fingerprint \in existing
           \/ read[i].amount \in {e.amount : e \in existing}
           q == [reviewer[v] EXCEPT !.pc = "finalize"]
<1>1. UNCHANGED <<statement, rows, books>> /\ reviewer[v].pc = "ledger"
  BY DEF CompareLedger, At
<1>2. CASE taken
  BY <1>1, <1>2, ReviewerStops DEF CompareLedger
<1>3. CASE ~ taken
  <2>1. Goes(v, q)
    BY <1>3 DEF CompareLedger
  <2>2. IsReviewer(reviewer[v]) /\ Fresh(reviewer[v], rows)
    BY DEF ReviewInv, ReviewersInv
  <2>3. IsReviewer(q) /\ q.pc = "finalize" /\ q.read = read /\ q.outdated = reviewer[v].outdated
    BY <2>2, PcSet DEF ReviewPcs
  <2>4. Fresh(q, rows)
    BY <1>1, <2>2, <2>3 DEF Fresh
  <2>5. Compared(q, others)
    BY <1>3, <2>3 DEF Compared
  <2> HIDE DEF q
  <2> QED
    BY <1>1, <2>1, <2>3, <2>4, <2>5, ReviewerGoesAlone
<1> QED
  BY <1>2, <1>3

\* As many entries as rows, for each row is in one of them.
LEMMA EntriesCounted ==
  ASSUME StatementReviewAssumption, NEW read
  PROVE  Cardinality({[row |-> i, amount |-> read[i].amount,
                       key |-> read[i].fingerprint] : i \in Included(read)})
            = Cardinality(Included(read))
<1> DEFINE entry(i) == [row |-> i, amount |-> read[i].amount, key |-> read[i].fingerprint]
           f == [i \in Included(read) |-> entry(i)]
           entries == {entry(i) : i \in Included(read)}
<1>1. IsFiniteSet(Rows)
  BY StatementReviewAssumption, FS_Interval DEF Rows
<1>2. IsFiniteSet(Included(read))
  BY <1>1, FS_Subset DEF Included
<1>3. \A i, j \in Included(read) : entry(i) = entry(j) => i = j
  OBVIOUS
<1>4. f \in Bijection(Included(read), entries)
  BY <1>3 DEF Bijection, Injection, Surjection, IsInjective
<1> HIDE DEF f
<1>5. Cardinality(Included(read)) = Cardinality(entries)
  BY <1>2, <1>4, FS_Bijection DEF ExistsBijection
<1> QED
  BY <1>5

LEMMA Finalized ==
  ASSUME ReviewInv, NEW v \in Reviewers, Finalize(v)
  PROVE  ReviewInv'
<1> DEFINE read == reviewer[v].read
           included == Included(read)
           keys == {read[i].fingerprint : i \in included}
           Fits(S) == Cardinality(keys) = Cardinality(included) /\ keys \cap others = {}
           entries == {[row |-> i, amount |-> read[i].amount, key |-> read[i].fingerprint] : i \in included}
<1>1. ReviewersInv'
  BY IdleReviewerIs, ReviewerGoes DEF Finalize, Fresh, Compared
<1>2. CASE UNCHANGED <<statement, ledger, imported, outdated>>
  BY <1>1, <1>2, ReviewerStops DEF Finalize, books
<1>3. CASE ~ UNCHANGED <<statement, ledger, imported, outdated>>
  <2>1. /\ statement' = "approved" /\ ledger' = entries /\ imported' = Cardinality(included)
        /\ outdated' = reviewer[v].outdated /\ UNCHANGED rows
    BY <1>3 DEF Finalize
  <2>2. imported' = Cardinality(ledger')
    BY <2>1, StatementReviewAssumption, EntriesCounted
  <2>3. ASSUME ~ outdated'
        PROVE  /\ Unreviewed(rows') = {}
               /\ {<<e.row, e.amount>> : e \in ledger'} = {<<i, rows'[i].amount>> : i \in Included(rows')}
    <3>1. read = rows /\ Unreviewed(rows) = {}
      BY <2>1, <2>3 DEF Finalize, At, ReviewInv, ReviewersInv, Fresh
    <3>2. {<<e.row, e.amount>> : e \in entries} = {<<i, read[i].amount>> : i \in included}
      <4>1. \A e \in entries : \E i \in included : e.row = i /\ e.amount = read[i].amount
        OBVIOUS
      <4>2. \A i \in included : \E e \in entries : e.row = i /\ e.amount = read[i].amount
        <5> SUFFICES ASSUME NEW i \in included
                     PROVE  \E e \in entries : e.row = i /\ e.amount = read[i].amount
          OBVIOUS
        <5> WITNESS [row |-> i, amount |-> read[i].amount, key |-> read[i].fingerprint] \in entries
        <5> QED
          OBVIOUS
      <4> HIDE DEF entries, included
      <4> QED
        BY <4>1, <4>2
    <3> QED
      BY <2>1, <3>1, <3>2
  <2> QED
    BY <1>1, <2>1, <2>2, <2>3 DEF ReviewInv, UntilApproved, LedgerIsReviewed
<1> QED
  BY <1>2, <1>3

\* Whoever was about to write has missed the new entry.
LEMMA OtherAdded ==
  ASSUME ReviewInv, NEW e \in Fingerprint, OtherEntry(e)
  PROVE  ReviewInv'
<1>1. ASSUME NEW w \in Reviewers
      PROVE  IsReviewer(reviewer'[w]) /\ Fresh(reviewer'[w], rows') /\ Compared(reviewer'[w], others')
  <2>1. At(w, "finalize") \in BOOLEAN /\ IsReviewer(reviewer[w]) /\ Fresh(reviewer[w], rows)
    BY DEF At, ReviewInv, ReviewersInv
  <2>2. reviewer'[w] = [reviewer[w] EXCEPT !.missed = At(w, "finalize")] /\ rows' = rows
    BY DEF OtherEntry
  <2>3. /\ IsReviewer(reviewer'[w]) /\ reviewer'[w].pc = reviewer[w].pc /\ reviewer'[w].read = reviewer[w].read
        /\ reviewer'[w].missed = At(w, "finalize") /\ reviewer'[w].outdated = reviewer[w].outdated
    BY <2>1, <2>2, MissedSet
  <2> QED
    BY <2>1, <2>2, <2>3 DEF Fresh, Compared, At
<1>2. reviewer' \in [Reviewers -> {reviewer'[v] : v \in Reviewers}]
  BY DEF OtherEntry
<1>3. UNCHANGED <<statement, rows, ledger, imported, outdated>>
  BY DEF OtherEntry
<1> QED
  BY <1>1, <1>2, <1>3 DEF ReviewInv, ReviewersInv, UntilApproved, LedgerIsReviewed

LEMMA ReviewStep ==
  ASSUME ReviewInv, [ReviewNext]_reviewVars
  PROVE  ReviewInv'
<1>1. ASSUME NEW v \in Reviewers, NEW pc \in {"edit", "split", "merge"}, NEW ids, StartRowWrite(v, pc, ids)
      PROVE  ReviewInv'
  BY <1>1, RowWriteStarts
<1>2. ASSUME NEW v \in Reviewers, NEW patch \in Patch, EditRow(v, patch)  PROVE ReviewInv'
  BY <1>2, RowEdited
<1>3. ASSUME NEW v \in Reviewers, NEW part \in 1..MaxRowAmount, SplitRow(v, part)  PROVE ReviewInv'
  BY <1>3, RowSplit
<1>4. ASSUME NEW v \in Reviewers, MergeRows(v) \/ StartApprove(v) \/ CompareLedger(v) \/ Finalize(v)
      PROVE  ReviewInv'
  BY <1>4, RowsMerged, ApprovalStarts, LedgerCompared, Finalized
<1>5. ASSUME NEW v \in Reviewers, ReviewerDies(v)  PROVE ReviewInv'
  BY <1>5, ReviewerStops DEF ReviewerDies
<1>6. ASSUME NEW ids \in SUBSET Rows, NEW decision \in Decisions, DecideRows(ids, decision)  PROVE ReviewInv'
  BY <1>6, RowsWritten DEF DecideRows
<1>7. CASE DeleteImport
  BY <1>7 DEF DeleteImport, books, ReviewInv, ReviewersInv, UntilApproved, LedgerIsReviewed
<1>8. ASSUME NEW e \in Fingerprint, OtherEntry(e)  PROVE ReviewInv'
  BY <1>8, OtherAdded
<1>9. CASE UNCHANGED reviewVars
  BY <1>9 DEF reviewVars, ReviewInv, ReviewersInv, UntilApproved, LedgerIsReviewed
<1> QED
  BY <1>1, <1>2, <1>3, <1>4, <1>5, <1>6, <1>7, <1>8, <1>9 DEF ReviewNext

LEMMA ReviewInitially ==
  ASSUME ReviewInit
  PROVE  ReviewInv
<1>1. \A v \in Reviewers : reviewer[v] = IdleReviewer
  BY DEF ReviewInit
<1>2. ReviewersInv
  BY <1>1, IdleReviewerIs DEF ReviewInit, ReviewersInv, Fresh, Compared
<1> QED
  BY <1>2 DEF ReviewInit, ReviewInv, UntilApproved, LedgerIsReviewed

\* The ledger holds the rows that are included, to the last one, unless one was changed after the
\* approving request had read it.
THEOREM LedgersAreReviewed == ReviewSpec => []LedgerIsReviewed
<1>1. ReviewInit => ReviewInv
  BY ReviewInitially
<1>2. ReviewInv /\ [ReviewNext]_reviewVars => ReviewInv'
  BY ReviewStep
<1>3. ReviewInv => LedgerIsReviewed
  BY DEF ReviewInv
<1> QED
  BY <1>1, <1>2, <1>3, PTL DEF ReviewSpec

\* Only one step fills the ledger, and it writes what its request compared.
LEMMA ApprovalStep ==
  ASSUME ReviewInv, [ReviewNext]_reviewVars, imported = 0, imported' # 0
  PROVE  \/ {e.amount : e \in ledger'} \cap {e.amount : e \in others} = {}
         \/ \E v \in Reviewers : At(v, "finalize") /\ reviewer[v].missed /\ reviewer'[v] = IdleReviewer
<1>1. PICK v \in Reviewers : Finalize(v)
  BY DEF ReviewNext, reviewVars, StartRowWrite, EditRow, SplitRow, MergeRows, StartApprove, CompareLedger,
         ReviewerDies, DecideRows, DeleteImport, OtherEntry, books
<1> DEFINE read == reviewer[v].read
<1>2. /\ At(v, "finalize") /\ reviewer'[v] = IdleReviewer
      /\ ledger' = {[row |-> i, amount |-> read[i].amount, key |-> read[i].fingerprint] : i \in Included(read)}
  BY <1>1 DEF Finalize, Goes, ReviewInv, ReviewersInv
<1>3. CASE reviewer[v].missed
  BY <1>2, <1>3
<1>4. CASE ~ reviewer[v].missed
  <2>1. \A i \in Included(read) : \A e \in others : e.amount # read[i].amount
    BY <1>2, <1>4 DEF At, ReviewInv, ReviewersInv, Compared
  <2>2. \A e \in ledger' : \E i \in Included(read) : e.amount = read[i].amount
    BY <1>2
  <2> QED
    BY <2>1, <2>2
<1> QED
  BY <1>3, <1>4

\* What enters the ledger was not in the account, unless it came after the check.
THEOREM ApprovalsAreNew == ReviewSpec => ApprovalIsNew
<1>1. ReviewInit => ReviewInv
  BY ReviewInitially
<1>2. ReviewInv /\ [ReviewNext]_reviewVars => ReviewInv'
  BY ReviewStep
<1>3. ReviewInv /\ [ReviewNext]_reviewVars =>
        [imported = 0 /\ imported' # 0 =>
           \/ {e.amount : e \in ledger'} \cap {e.amount : e \in others} = {}
           \/ \E v \in Reviewers : At(v, "finalize") /\ reviewer[v].missed
              /\ reviewer'[v] = IdleReviewer]_reviewVars
  BY ApprovalStep
<1> QED
  BY <1>1, <1>2, <1>3, PTL DEF ReviewSpec, ApprovalIsNew

-----------------------------------------------------------------------------
(* SplitGroups *)

LEMMA LeastOf ==
  ASSUME NEW S, S \subseteq Nat, S # {}
  PROVE  Min(S) \in S
  BY LeastNumber DEF Min

ConsentTypes ==
    /\ members \subseteq accounts /\ accounts \subseteq Users
    /\ invitations \in [Slots -> [invitee : Users, status : Statuses]]

\* Who is about to invite is the administrator, and has a slot that nobody else takes.
Asking(u, r) ==
    /\ r.pc = "invite" => u = Creator /\ Unused # {} /\ \E w \in Users : r = [pc |-> "invite", invitee |-> w]
    /\ r.pc = "write" => \E e : r = [pc |-> "write", entry |-> e]
AskingInv ==
    /\ request \in [Users -> {request[u] : u \in Users}]
    /\ \A u \in Users : Asking(u, request[u])

ConsentInv == ConsentTypes /\ AskingInv /\ ConsentedMembers

LEMMA SlotFields ==
  ASSUME ConsentInv, NEW k \in Slots
  PROVE  /\ invitations[k] \in [invitee : Users, status : Statuses]
         /\ invitations[k].status # "none" => invitations[k] # NoInvitation
  BY DEF ConsentInv, ConsentTypes, NoInvitation

\* A request goes on; nobody joins or leaves.
LEMMA MemberAsks ==
  ASSUME ConsentInv, NEW u \in Users, NEW r, Continues(u, r), UNCHANGED <<accounts, members, invitations>>,
         Asking(u, r)
  PROVE  ConsentInv'
<1>1. request' = [w \in Users |-> IF w = u THEN r ELSE request[w]]
  BY DEF Continues, ConsentInv, AskingInv
<1>2. \A w \in Users : Asking(w, request'[w])
  BY <1>1 DEF ConsentInv, AskingInv
<1>3. AskingInv'
  BY <1>1, <1>2 DEF AskingInv, Asking, Unused
<1> QED
  BY <1>3 DEF ConsentInv, ConsentTypes, ConsentedMembers, InvitationsOf

\* Nobody's request changes, and no slot is taken.
LEMMA NobodyAsks ==
  ASSUME ConsentInv, UNCHANGED request, Unused \subseteq Unused'
  PROVE  AskingInv'
  BY DEF ConsentInv, AskingInv, Asking

LEMMA NoRequestAsks == \A u \in Users : Asking(u, NoRequest)
  BY DEF Asking, NoRequest

\* The administrator sends an invitation: it is pending, so nobody has accepted it.
LEMMA Invited ==
  ASSUME ConsentInv, NEW u \in Users, Invite(u)
  PROVE  ConsentInv'
<1> DEFINE invitee == request[u].invitee
           slot == Min(Unused)
           sent == [invitee |-> invitee, status |-> "pending"]
<1>1. /\ Unused # {} /\ invitee \in Users /\ u = Creator
  BY DEF Invite, ConsentInv, AskingInv, Asking
<1>2. slot \in Unused
  BY <1>1, LeastOf DEF Unused, Slots
<1>3. CASE invitations' = invitations
  BY <1>3, MemberAsks, NoRequestAsks DEF Invite
<1>4. CASE invitations' = [invitations EXCEPT ![slot] = sent]
  <2> HIDE DEF slot
  <2>1. slot \in Slots /\ invitations[slot] = NoInvitation
    BY <1>2 DEF Unused
  <2>2. /\ invitations' \in [Slots -> [invitee : Users, status : Statuses]]
        /\ invitations'[slot] = sent /\ \A k \in Slots : k # slot => invitations'[k] = invitations[k]
    BY <1>1, <1>4, <2>1 DEF ConsentInv, ConsentTypes, Statuses
  <2>3. UNCHANGED <<accounts, members>>
    BY DEF Invite
  <2>4. \A w \in Users : InvitationsOf(w, "accepted")' = InvitationsOf(w, "accepted")
    <3>1. NoInvitation.status # "accepted" /\ sent.status # "accepted"
      BY DEF NoInvitation
    <3> QED
      BY <2>1, <2>2, <3>1 DEF InvitationsOf
  <2>5. AskingInv'
    <3>1. request' = [w \in Users |-> IF w = u THEN NoRequest ELSE request[w]]
      BY DEF Invite, Continues, ConsentInv, AskingInv
    <3>2. \A w \in Users : request'[w].pc # "invite"
          /\ (request'[w].pc = "write" => \E e : request'[w] = [pc |-> "write", entry |-> e])
      BY <1>1, <3>1 DEF ConsentInv, AskingInv, Asking, NoRequest
    <3> QED
      BY <3>1, <3>2 DEF AskingInv, Asking
  <2>6. ConsentedMembers'
    BY <2>3, <2>4 DEF ConsentInv, ConsentTypes, ConsentedMembers
  <2> QED
    BY <2>2, <2>3, <2>5, <2>6 DEF ConsentInv, ConsentTypes
<1> QED
  BY <1>3, <1>4 DEF Invite

\* A decision about a pending invitation takes no slot and leaves the other invitations alone.
LEMMA SlotDecided ==
  ASSUME ConsentInv, NEW k \in Slots, invitations[k].status = "pending",
         NEW status \in Statuses \ {"none"}, Decide(k, status)
  PROVE  /\ invitations' \in [Slots -> [invitee : Users, status : Statuses]]
         /\ Unused' = Unused
         /\ \A w \in Users : InvitationsOf(w, "accepted")'
               = IF w = invitations[k].invitee /\ status = "accepted" THEN InvitationsOf(w, "accepted") \cup {k}
                 ELSE InvitationsOf(w, "accepted")
<1> DEFINE new == [invitations[k] EXCEPT !.status = status]
<1>1. invitations[k] \in [invitee : Users, status : Statuses]
  BY SlotFields
<1>2. /\ new \in [invitee : Users, status : Statuses] /\ new.status = status
         /\ new.invitee = invitations[k].invitee
  BY <1>1
<1>3. /\ invitations' = [invitations EXCEPT ![k] = new]
         /\ invitations \in [Slots -> [invitee : Users, status : Statuses]]
  BY DEF Decide, ConsentInv, ConsentTypes
<1> HIDE DEF new
<1>4. /\ invitations' \in [Slots -> [invitee : Users, status : Statuses]] /\ invitations'[k] = new
      /\ \A j \in Slots : j # k => invitations'[j] = invitations[j]
  BY <1>2, <1>3
<1>5. new # NoInvitation /\ invitations[k] # NoInvitation
  BY <1>2 DEF NoInvitation
<1>6. Unused' = Unused
  BY <1>4, <1>5 DEF Unused
<1> QED
  BY <1>2, <1>4, <1>6 DEF InvitationsOf

\* Who was not a member had accepted nothing: now it is the one invitation.
LEMMA Accepted ==
  ASSUME ConsentInv, NEW u \in Users, NEW k \in Slots, AcceptInvitation(u, k)
  PROVE  ConsentInv'
<1>1. /\ k \in Pending(u) /\ u \in accounts /\ u \notin members /\ members' = members \cup {u}
      /\ Decide(k, "accepted") /\ UNCHANGED <<accounts, request>>
  BY DEF AcceptInvitation, Ready
<1>2. invitations[k].status = "pending" /\ invitations[k].invitee = u
  BY <1>1 DEF Pending, InvitationsOf
<1>3. /\ invitations' \in [Slots -> [invitee : Users, status : Statuses]] /\ Unused' = Unused
      /\ \A w \in Users : InvitationsOf(w, "accepted")' = IF w = u THEN InvitationsOf(w, "accepted") \cup {k}
                                                          ELSE InvitationsOf(w, "accepted")
  BY <1>1, <1>2, SlotDecided DEF Statuses
<1>4. AskingInv'
  BY <1>1, <1>3, NobodyAsks
<1>5. ConsentedMembers'
  BY <1>1, <1>3 DEF ConsentInv, ConsentTypes, ConsentedMembers
<1> QED
  BY <1>1, <1>3, <1>4, <1>5 DEF ConsentInv, ConsentTypes

LEMMA DeclinedOrRevoked ==
  ASSUME ConsentInv, NEW u \in Users, NEW k \in Slots, DeclineInvitation(u, k) \/ RevokeInvitation(u, k)
  PROVE  ConsentInv'
<1>1. PICK status \in {"declined", "revoked"} :
        Decide(k, status) /\ invitations[k].status = "pending" /\ UNCHANGED <<accounts, members, request>>
  BY DEF DeclineInvitation, RevokeInvitation, Pending, InvitationsOf
<1>2. /\ invitations' \in [Slots -> [invitee : Users, status : Statuses]] /\ Unused' = Unused
      /\ \A w \in Users : InvitationsOf(w, "accepted")' = InvitationsOf(w, "accepted")
  BY <1>1, SlotDecided DEF Statuses
<1>3. AskingInv'
  BY <1>1, <1>2, NobodyAsks
<1>4. ConsentedMembers'
  BY <1>1, <1>2 DEF ConsentInv, ConsentTypes, ConsentedMembers
<1> QED
  BY <1>1, <1>2, <1>3, <1>4 DEF ConsentInv, ConsentTypes

\* Who leaves takes back what he had accepted.
LEMMA MemberRemoved ==
  ASSUME ConsentInv, NEW u \in Users, NEW target \in Users, RemoveMember(u, target)
  PROVE  ConsentInv'
<1> DEFINE status == IF u = target THEN "left" ELSE "removed"
<1>1. /\ members' = members \ {target} /\ UNCHANGED <<accounts, request>>
      /\ invitations' = [k \in Slots |-> IF k \in InvitationsOf(target, "accepted")
                                         THEN [invitations[k] EXCEPT !.status = status] ELSE invitations[k]]
  BY DEF RemoveMember
<1>2. ASSUME NEW k \in Slots
      PROVE  /\ invitations'[k] \in [invitee : Users, status : Statuses]
             /\ invitations'[k].invitee = invitations[k].invitee
             /\ invitations'[k].status = IF k \in InvitationsOf(target, "accepted") THEN status
                ELSE invitations[k].status
             /\ invitations[k] = NoInvitation => invitations'[k] = NoInvitation
  <2>1. invitations[k] \in [invitee : Users, status : Statuses]
    BY SlotFields
  <2>2. status \in Statuses /\ (k \in InvitationsOf(target, "accepted") => invitations[k] # NoInvitation)
    BY DEF Statuses, InvitationsOf, NoInvitation
  <2> QED
    BY <1>1, <2>1, <2>2
<1>3. invitations' \in [Slots -> [invitee : Users, status : Statuses]]
  BY <1>1, <1>2
<1>4. Unused \subseteq Unused'
  BY <1>2 DEF Unused
<1>5. \A w \in Users : InvitationsOf(w, "accepted")' = IF w = target THEN {} ELSE InvitationsOf(w, "accepted")
  BY <1>2 DEF InvitationsOf
<1>6. AskingInv'
  BY <1>1, <1>4, NobodyAsks
<1>7. ConsentedMembers'
  BY <1>1, <1>5 DEF ConsentInv, ConsentTypes, ConsentedMembers
<1> QED
  BY <1>1, <1>3, <1>6, <1>7 DEF ConsentInv, ConsentTypes

\* An account that goes takes its own invitations with it.
LEMMA AccountDeleted ==
  ASSUME ConsentInv, NEW u \in Users, DeleteAccount(u)
  PROVE  ConsentInv'
<1>1. /\ accounts' = accounts \ {u} /\ members' = members \ {u}
      /\ invitations' = [k \in Slots |-> IF invitations[k].invitee = u THEN NoInvitation ELSE invitations[k]]
      /\ Continues(u, NoRequest)
  BY DEF DeleteAccount
<1>2. NoInvitation \in [invitee : Users, status : Statuses] /\ NoInvitation.invitee = Creator
      /\ NoInvitation.status = "none"
  BY SplitAssumption DEF NoInvitation, Statuses
<1>3. invitations' \in [Slots -> [invitee : Users, status : Statuses]]
  BY <1>1, <1>2 DEF ConsentInv, ConsentTypes
<1>4. Unused \subseteq Unused'
  BY <1>1 DEF Unused
<1>5. \A w \in Users \ {u} : InvitationsOf(w, "accepted")' = InvitationsOf(w, "accepted")
  BY <1>1, <1>2 DEF InvitationsOf
<1>6. AskingInv'
  <2>1. request' = [w \in Users |-> IF w = u THEN NoRequest ELSE request[w]]
    BY <1>1 DEF Continues, ConsentInv, AskingInv
  <2>2. \A w \in Users : Asking(w, request'[w])
    BY <2>1, NoRequestAsks DEF ConsentInv, AskingInv
  <2> QED
    BY <1>4, <2>1, <2>2 DEF AskingInv, Asking
<1>7. ConsentedMembers'
  BY <1>1, <1>5 DEF ConsentInv, ConsentTypes, ConsentedMembers
<1> QED
  BY <1>1, <1>3, <1>6, <1>7 DEF ConsentInv, ConsentTypes

\* A request about money.
LEMMA MoneyAsked ==
  ASSUME ConsentInv, NEW u \in Users,
         \/ \E amount, shares : AskExpense(u, amount, shares)
         \/ \E to, amount : AskSettlement(u, to, amount)
  PROVE  ConsentInv'
<1>1. PICK e : Continues(u, [pc |-> "write", entry |-> e]) /\ UNCHANGED <<accounts, members, invitations>>
  BY DEF AskExpense, AskSettlement
<1>2. Asking(u, [pc |-> "write", entry |-> e])
  BY DEF Asking
<1> QED
  BY <1>1, <1>2, MemberAsks

LEMMA MoneyMoved ==
  ASSUME ConsentInv, NEW u \in Users, StartInsert(u) \/ Post(u)
  PROVE  ConsentInv'
<1>1. CASE StartInsert(u)
  <2>1. PICK e : request[u] = [pc |-> "write", entry |-> e]
    BY <1>1 DEF StartInsert, ConsentInv, AskingInv, Asking
  <2>2. PICK r : Continues(u, r) /\ (r = NoRequest \/ r = [pc |-> "waits", entry |-> e])
    BY <1>1, <2>1 DEF StartInsert
  <2>3. Asking(u, r)
    BY <2>2 DEF Asking, NoRequest
  <2> QED
    BY <1>1, <2>2, <2>3, MemberAsks DEF StartInsert
<1>2. CASE Post(u)
  BY <1>2, MemberAsks, NoRequestAsks DEF Post
<1> QED
  BY <1>1, <1>2

LEMMA InvitationAsked ==
  ASSUME ConsentInv, NEW u \in Users, NEW invitee \in Users, AskInvitation(u, invitee)
  PROVE  ConsentInv'
<1>1. Asking(u, [pc |-> "invite", invitee |-> invitee])
  BY DEF AskInvitation, Administrates, Asking
<1> QED
  BY <1>1, MemberAsks DEF AskInvitation

LEMMA ConsentStep ==
  ASSUME ConsentInv, [SplitNext]_splitVars
  PROVE  ConsentInv'
<1>1. ASSUME NEW u \in Users,
             \/ \E amount \in Prices :
                  \/ \E ids \in SetToAllKPermutations(members) : ids # <<>> /\ AskEqually(u, amount, ids)
                  \/ \E to \in Users : AskSettlement(u, to, amount)
                  \/ \E S \in SUBSET members : \E shares \in [S -> 1..amount] : AskShares(u, amount, shares)
      PROVE  ConsentInv'
  BY <1>1, MoneyAsked DEF AskEqually, AskShares
<1>2. ASSUME NEW u \in Users, StartInsert(u) \/ Post(u)  PROVE ConsentInv'
  BY <1>2, MoneyMoved
<1>3. ASSUME NEW u \in Users, Invite(u) \/ DeleteAccount(u)  PROVE ConsentInv'
  BY <1>3, Invited, AccountDeleted
<1>4. ASSUME NEW u \in Users, ArchiveGroup(u)  PROVE ConsentInv'
  BY <1>4 DEF ArchiveGroup, ConsentInv, ConsentTypes, AskingInv, Asking, Unused, ConsentedMembers, InvitationsOf
<1>5. ASSUME NEW u \in Users, NEW w \in Users, AskInvitation(u, w) \/ RemoveMember(u, w)  PROVE ConsentInv'
  BY <1>5, InvitationAsked, MemberRemoved
<1>6. ASSUME NEW u \in Users, NEW k \in Slots, AcceptInvitation(u, k) \/ DeclineInvitation(u, k)
             \/ RevokeInvitation(u, k)
      PROVE  ConsentInv'
  BY <1>6, Accepted, DeclinedOrRevoked
<1>7. CASE UNCHANGED splitVars
  BY <1>7 DEF splitVars, ConsentInv, ConsentTypes, AskingInv, Asking, Unused, ConsentedMembers, InvitationsOf
<1> QED
  BY <1>1, <1>2, <1>3, <1>4, <1>5, <1>6, <1>7 DEF SplitNext

LEMMA ConsentInitially ==
  ASSUME SplitInit
  PROVE  ConsentInv
<1>1. ConsentTypes
  BY SplitAssumption DEF SplitInit, ConsentTypes, NoInvitation, Statuses
<1>2. AskingInv
  BY NoRequestAsks DEF SplitInit, AskingInv
<1>3. ConsentedMembers
  BY DEF SplitInit, ConsentedMembers, InvitationsOf, NoInvitation
<1> QED
  BY <1>1, <1>2, <1>3 DEF ConsentInv

\* 038: "membership is granted only after invitee consent": a member other than the creator has
\* accepted one invitation, and nobody else has.
THEOREM MembersConsented == SplitSpec => []ConsentedMembers
<1>1. SplitInit => ConsentInv
  BY ConsentInitially
<1>2. ConsentInv /\ [SplitNext]_splitVars => ConsentInv'
  BY ConsentStep
<1>3. ConsentInv => ConsentedMembers
  BY DEF ConsentInv
<1> QED
  BY <1>1, <1>2, <1>3, PTL DEF SplitSpec

-----------------------------------------------------------------------------
(* SplitGroups: money *)

\* What an entry changes about what the group owes u.
Gain(e, u) == Gives(e, u) - Takes(e, u)
Gains(m, u) == [e \in DOMAIN m |-> m[e] * Gain(e, u)]

\* An entry divides all of its amount among users.
Entered(e) ==
    /\ e.from \in Users /\ e.amount \in Int /\ DOMAIN e.to \subseteq Users
    /\ \A u \in DOMAIN e.to : e.to[u] \in Int
    /\ SumFunctionOnSet(e.to, DOMAIN e.to) = e.amount
MoneyBag(m) ==
    /\ IsFiniteSet(DOMAIN m) /\ m \in [DOMAIN m -> Int]
    /\ \A e \in DOMAIN m : Entered(e)

LEMMA GainIsInt ==
  ASSUME NEW e, Entered(e), NEW u \in Users
  PROVE  Gives(e, u) \in Int /\ Takes(e, u) \in Int /\ Gain(e, u) \in Int
BY DEF Entered, Gain, Gives, Takes

LEMMA GainsAreInt ==
  ASSUME NEW m, MoneyBag(m), NEW u \in Users
  PROVE  /\ \A e \in DOMAIN m : Gains(m, u)[e] \in Int
         /\ SumFunctionOnSet(Gains(m, u), DOMAIN m) \in Int
<1>1. \A e \in DOMAIN m : Gains(m, u)[e] \in Int
  <2> SUFFICES ASSUME NEW e \in DOMAIN m PROVE m[e] * Gain(e, u) \in Int
    BY DEF Gains
  <2>1. m[e] \in Int /\ Gain(e, u) \in Int
    BY GainIsInt DEF MoneyBag
  <2> QED
    BY <2>1
<1> QED
  BY <1>1, SumIsInt DEF MoneyBag

LEMMA NetIs ==
  ASSUME NEW u
  PROVE  Net(u) = SumFunctionOnSet(Gains(money, u), DOMAIN money)
BY DEF Net, SumFunction, Gains, Gain

\* What an entry gives, it takes from somebody else.
LEMMA EntryBalances ==
  ASSUME NEW e, Entered(e)
  PROVE  SumFunctionOnSet([u \in Users |-> Gain(e, u)], Users) = 0
<1> DEFINE gives == [u \in Users |-> Gives(e, u)]
           takes == [u \in Users |-> Takes(e, u)]
           gains == [u \in Users |-> Gain(e, u)]
<1>1. \A u \in Users : /\ gives[u] = Gives(e, u) /\ takes[u] = Takes(e, u)
                       /\ gains[u] = Gives(e, u) - Takes(e, u)
                       /\ gives[u] \in Int /\ takes[u] \in Int /\ gains[u] \in Int
  BY GainIsInt DEF Gain
<1> HIDE DEF gives, takes, gains
<1>2. SumFunctionOnSet(gives, Users) = SumFunctionOnSet(gains, Users) + SumFunctionOnSet(takes, Users)
  <2>1. \A u \in Users : gains[u] \in Int /\ takes[u] \in Int /\ gives[u] = gains[u] + takes[u]
    BY <1>1
  <2> QED
    BY <2>1, SumAdds, SplitAssumption
<1>3. SumFunctionOnSet(gives, Users) = e.amount
  <2>1. e.from \in Users /\ e.amount \in Int
    BY DEF Entered
  <2>2. SumFunctionOnSet(gives, Users) = gives[e.from] + SumFunctionOnSet(gives, Users \ {e.from})
    BY <1>1, <2>1, SumTakes, SplitAssumption
  <2>3. IsFiniteSet(Users \ {e.from})
    BY FS_RemoveElement, SplitAssumption
  <2>4. SumFunctionOnSet(gives, Users \ {e.from}) = 0
    <3>1. \A u \in Users \ {e.from} : gives[u] = 0
      BY <1>1 DEF Gives
    <3> QED
      BY <2>3, <3>1, SumOfZeros
  <2>5. gives[e.from] = e.amount
    BY <1>1, <2>1 DEF Gives
  <2> QED
    BY <2>1, <2>2, <2>4, <2>5
<1>4. SumFunctionOnSet(takes, Users) = e.amount
  <2>1. DOMAIN e.to \in SUBSET Users
    BY DEF Entered
  <2>2. \A u \in Users \ DOMAIN e.to : takes[u] = 0
    BY <1>1 DEF Takes
  <2>3. SumFunctionOnSet(takes, Users) = SumFunctionOnSet(takes, DOMAIN e.to)
    BY <1>1, <2>1, <2>2, SumOfSome, SplitAssumption
  <2>4. \A u \in DOMAIN e.to : takes[u] = e.to[u]
    BY <1>1, <2>1 DEF Takes
  <2>5. IsFiniteSet(DOMAIN e.to)
    BY <2>1, FS_Subset, SplitAssumption
  <2>6. SumFunctionOnSet(takes, DOMAIN e.to) = SumFunctionOnSet(e.to, DOMAIN e.to)
    BY <2>4, <2>5, SumOfSame
  <2> QED
    BY <2>3, <2>6 DEF Entered
<1>5. SumFunctionOnSet(gains, Users) \in Int /\ e.amount \in Int
  BY <1>1, SumIsInt, SplitAssumption DEF Entered
<1>6. SumFunctionOnSet(gains, Users) = 0
  BY <1>2, <1>3, <1>4, <1>5
<1> QED
  BY <1>6 DEF gains

\* One more entry changes each balance by what the entry is about.
LEMMA EntryPosted ==
  ASSUME NEW m, MoneyBag(m), NEW e, Entered(e)
  PROVE  LET n == m (+) SetToBag({e}) IN
         /\ MoneyBag(n) /\ n # m
         /\ \A u \in Users : SumFunctionOnSet(Gains(n, u), DOMAIN n)
                               = SumFunctionOnSet(Gains(m, u), DOMAIN m) + Gain(e, u)
<1> DEFINE n == m (+) SetToBag({e})
           D == DOMAIN m
           old == IF e \in D THEN m[e] ELSE 0
<1>1. n = [x \in D \cup {e} |-> (IF x \in D THEN m[x] ELSE 0) + (IF x \in {e} THEN 1 ELSE 0)]
  BY DEF (+), SetToBag
<1>2. old \in Int /\ \A x \in D : m[x] \in Int
  BY DEF MoneyBag
<1>3. DOMAIN n = D \cup {e} /\ n[e] = old + 1 /\ \A x \in D \ {e} : n[x] = m[x]
  BY <1>1, <1>2
<1>4. IsFiniteSet(D) /\ IsFiniteSet(D \cup {e}) /\ IsFiniteSet(D \ {e})
  BY FS_AddElement, FS_RemoveElement DEF MoneyBag
<1>5. MoneyBag(n)
  <2>1. \A x \in DOMAIN n : n[x] \in Int /\ Entered(x)
    BY <1>2, <1>3 DEF MoneyBag
  <2>2. n \in [DOMAIN n -> Int]
    BY <1>1, <2>1
  <2> QED
    BY <1>3, <1>4, <2>1, <2>2 DEF MoneyBag
<1>6. n # m
  BY <1>2, <1>3
<1> HIDE DEF n, old
<1>7. ASSUME NEW u \in Users
      PROVE  SumFunctionOnSet(Gains(n, u), DOMAIN n) = SumFunctionOnSet(Gains(m, u), D) + Gain(e, u)
  <2> DEFINE f == Gains(m, u)
             g == Gains(n, u)
             c == Gain(e, u)
  <2>1. /\ \A x \in D : f[x] \in Int /\ f[x] = m[x] * Gain(x, u)
        /\ \A x \in D \cup {e} : g[x] \in Int /\ g[x] = n[x] * Gain(x, u)
        /\ c \in Int
    BY <1>3, <1>5, GainsAreInt, GainIsInt DEF Gains
  <2>2. SumFunctionOnSet(g, DOMAIN n) = SumFunctionOnSet(g, D \cup {e})
    BY <1>3, Zenon
  <2> HIDE DEF f, g, c
  <2>3. SumFunctionOnSet(g, D \cup {e}) = g[e] + SumFunctionOnSet(g, (D \cup {e}) \ {e})
    BY <1>4, <2>1, SumTakes
  <2>4. SumFunctionOnSet(g, (D \cup {e}) \ {e}) = SumFunctionOnSet(g, D \ {e})
    <3>1. (D \cup {e}) \ {e} = D \ {e}
      OBVIOUS
    <3> QED
      BY <3>1, Zenon
  <2>5. SumFunctionOnSet(g, D \ {e}) = SumFunctionOnSet(f, D \ {e})
    <3>1. \A x \in D \ {e} : g[x] = f[x]
      BY <1>3, <2>1
    <3> QED
      BY <1>4, <3>1, SumOfSame
  <2>6. SumFunctionOnSet(f, D) = old * c + SumFunctionOnSet(f, D \ {e})
    <3>1. CASE e \in D
      <4>1. SumFunctionOnSet(f, D) = f[e] + SumFunctionOnSet(f, D \ {e})
        BY <1>4, <2>1, <3>1, SumTakes
      <4>2. f[e] = old * c
        BY <2>1, <3>1 DEF old, c
      <4> QED
        BY <4>1, <4>2
    <3>2. CASE e \notin D
      <4>1. SumFunctionOnSet(f, D) = SumFunctionOnSet(f, D \ {e})
        <5>1. D = D \ {e}
          BY <3>2
        <5> QED
          BY <5>1, Zenon
      <4>2. old * c = 0
        BY <2>1, <3>2 DEF old
      <4>3. SumFunctionOnSet(f, D \ {e}) \in Int
        BY <1>4, <2>1, SumIsInt
      <4> QED
        BY <4>1, <4>2, <4>3
    <3> QED
      BY <3>1, <3>2
  <2>7. g[e] = old * c + c
    <3>1. g[e] = (old + 1) * c
      BY <1>3, <2>1 DEF c
    <3> QED
      BY <1>2, <2>1, <3>1
  <2>8. SumFunctionOnSet(f, D \ {e}) \in Int /\ old * c \in Int
    BY <1>2, <1>4, <2>1, SumIsInt
  <2>9. SumFunctionOnSet(g, DOMAIN n) = SumFunctionOnSet(f, D) + c
    BY <2>1, <2>2, <2>3, <2>4, <2>5, <2>6, <2>7, <2>8
  <2> QED
    BY <2>9 DEF f, g, c
<1> QED
  BY <1>5, <1>6, <1>7 DEF n

\* A sequence without repetition has as many elements as places.
LEMMA PlacesCount ==
  ASSUME NEW n \in Nat, NEW ids, \A i, j \in 1..n : i # j => ids[i] # ids[j]
  PROVE  IsFiniteSet({ids[k] : k \in 1..n}) /\ Cardinality({ids[k] : k \in 1..n}) = n
<1> DEFINE T == {ids[k] : k \in 1..n}
           f == [k \in 1..n |-> ids[k]]
<1>1. f \in Bijection(1..n, T)
  BY DEF Bijection, Injection, Surjection, IsInjective
<1>2. ExistsBijection(1..n, T)
  BY <1>1 DEF ExistsBijection
<1> QED
  BY <1>2, FS_NatBijection, FS_CountingElements

\* Whatever the remainder is, equal shares add up to the amount.
LEMMA EqualShares ==
  ASSUME NEW S, IsFiniteSet(S), NEW amount \in Int, NEW ids \in SetToAllKPermutations(S), ids # <<>>
  PROVE  LET shares == SplitEqually(amount, ids) IN
         /\ DOMAIN shares \subseteq S
         /\ \A u \in DOMAIN shares : shares[u] \in Int
         /\ SumFunctionOnSet(shares, DOMAIN shares) = amount
<1> DEFINE n == Len(ids)
           base == amount \div n
           rest == amount % n
           first == {ids[k] : k \in 1..rest}
           all == ToSet(ids)
           shares == SplitEqually(amount, ids)
<1>1. /\ ids \in Seq(S) /\ n \in Nat \ {0} /\ DOMAIN ids = 1..n
      /\ \A i, j \in 1..n : i # j => ids[i] # ids[j]
  <2>1. PICK U \in SUBSET S : ids \in SetToSeqs(U)
    BY DEF SetToAllKPermutations
  <2>2. Cardinality(U) \in Nat
    BY <2>1, FS_Subset, FS_CardinalityType
  <2>3. ids \in [1..Cardinality(U) -> U] /\ \A i, j \in 1..Cardinality(U) : i # j => ids[i] # ids[j]
    BY <2>1 DEF SetToSeqs
  <2>4. ids \in Seq(S)
    BY <2>2, <2>3
  <2>5. n \in Nat /\ DOMAIN ids = 1..n
    BY <2>4
  <2>6. n = Cardinality(U)
    BY <2>2, <2>3, <2>5
  <2>7. n # 0
    BY <2>4, <2>5
  <2> QED
    BY <2>3, <2>4, <2>5, <2>6, <2>7
<1>2. /\ base \in Int /\ rest \in Nat /\ rest < n /\ amount = n * base + rest
  <2>1. n \in Nat /\ n > 0
    BY <1>1
  <2> HIDE DEF n
  <2> QED
    BY <2>1
<1>3. all = {ids[k] : k \in 1..n} /\ all \subseteq S
  BY <1>1 DEF ToSet
<1>4. shares = [u \in all |-> IF u \in first THEN base + 1 ELSE base]
  BY DEF SplitEqually
<1> HIDE DEF n, base, rest, shares
<1>5. IsFiniteSet(all) /\ Cardinality(all) = n
  <2>1. IsFiniteSet({ids[k] : k \in 1..n}) /\ Cardinality({ids[k] : k \in 1..n}) = n
    BY <1>1, PlacesCount
  <2> HIDE DEF all
  <2> QED
    BY <1>3, <2>1, Zenon
<1>6. IsFiniteSet(first) /\ Cardinality(first) = rest
  <2>1. \A i, j \in 1..rest : i # j => ids[i] # ids[j]
    BY <1>1, <1>2
  <2> QED
    BY <1>2, <2>1, PlacesCount
<1>7. first \in SUBSET all
  BY <1>1, <1>2, <1>3
<1> HIDE DEF first, all
<1> DEFINE bases == [u \in all |-> base]
           ones == [u \in all |-> IF u \in first THEN 1 ELSE 0]
<1>8. SumFunctionOnSet(shares, all) = SumFunctionOnSet(bases, all) + SumFunctionOnSet(ones, all)
  <2>1. \A u \in all : bases[u] \in Int /\ ones[u] \in Int /\ shares[u] = bases[u] + ones[u]
    BY <1>2, <1>4
  <2> QED
    BY <1>5, <2>1, SumAdds
<1>9. SumFunctionOnSet(bases, all) = base * n
  BY <1>2, <1>5, SumOfConstant
<1>10. SumFunctionOnSet(ones, all) = rest
  <2>1. SumFunctionOnSet(ones, all) = SumFunctionOnSet(ones, first)
    <3>1. \A u \in all : ones[u] \in Int
      OBVIOUS
    <3>2. \A u \in all \ first : ones[u] = 0
      OBVIOUS
    <3> QED
      BY <1>5, <1>7, <3>1, <3>2, SumOfSome
  <2>2. SumFunctionOnSet(ones, first) = 1 * rest
    BY <1>6, <1>7, SumOfConstant
  <2> QED
    BY <1>2, <2>1, <2>2
<1>11. DOMAIN shares = all
  BY <1>4
<1>12. base * n = n * base
  BY <1>1, <1>2 DEF n
<1>13. SumFunctionOnSet(shares, all) = amount
  BY <1>2, <1>8, <1>9, <1>10, <1>12
<1>14. \A u \in all : shares[u] \in Int
  BY <1>2, <1>4
<1> QED
  BY <1>3, <1>11, <1>13, <1>14 DEF shares

\* A request about money is for an entry that divides all of its amount.
LEMMA AskedEntered ==
  ASSUME NEW u \in Users, members \subseteq Users, NEW amount \in Prices,
         \/ \E ids \in SetToAllKPermutations(members) : ids # <<>> /\ AskEqually(u, amount, ids)
         \/ \E to \in Users : AskSettlement(u, to, amount)
         \/ \E S \in SUBSET members : \E shares \in [S -> 1..amount] : AskShares(u, amount, shares)
  PROVE  \E e : /\ Entered(e) /\ e.from = u
                /\ Continues(u, [pc |-> "write", entry |-> e])
                /\ UNCHANGED <<accounts, active, members, invitations, money, late>>
<1>1. amount \in Int /\ amount \in Nat /\ IsFiniteSet(members)
  BY SplitAssumption, FS_Subset
<1> DEFINE Expense(shares) == [kind |-> "expense", from |-> u, amount |-> amount, to |-> shares]
<1>2. ASSUME NEW shares, DOMAIN shares \subseteq members, \A w \in DOMAIN shares : shares[w] \in Int,
             SumFunctionOnSet(shares, DOMAIN shares) = amount, AskExpense(u, amount, shares)
      PROVE  \E e : /\ Entered(e) /\ e.from = u
                    /\ Continues(u, [pc |-> "write", entry |-> e])
                    /\ UNCHANGED <<accounts, active, members, invitations, money, late>>
  <2>1. Entered(Expense(shares)) /\ Expense(shares).from = u
    BY <1>1, <1>2 DEF Entered
  <2> QED
    BY <1>2, <2>1 DEF AskExpense
<1>3. CASE \E ids \in SetToAllKPermutations(members) : ids # <<>> /\ AskEqually(u, amount, ids)
  <2>1. PICK ids \in SetToAllKPermutations(members) : ids # <<>> /\ AskEqually(u, amount, ids)
    BY <1>3
  <2> DEFINE shares == SplitEqually(amount, ids)
  <2>2. /\ DOMAIN shares \subseteq members /\ \A w \in DOMAIN shares : shares[w] \in Int
        /\ SumFunctionOnSet(shares, DOMAIN shares) = amount
    BY <1>1, <2>1, EqualShares
  <2>3. AskExpense(u, amount, shares)
    BY <2>1 DEF AskEqually
  <2> HIDE DEF shares
  <2> QED
    BY <1>2, <2>2, <2>3
<1>4. CASE \E to \in Users : AskSettlement(u, to, amount)
  <2>1. PICK to \in Users : AskSettlement(u, to, amount)
    BY <1>4
  <2> DEFINE shares == [w \in {to} |-> amount]
             e == [kind |-> "settlement", from |-> u, amount |-> amount, to |-> shares]
  <2>2. DOMAIN shares = {to} /\ shares[to] = amount
    OBVIOUS
  <2>3. SumFunctionOnSet(shares, {to}) = amount
    <3>1. IsFiniteSet({to}) /\ Cardinality({to}) = 1
      BY FS_Singleton
    <3>2. SumFunctionOnSet(shares, {to}) = amount * Cardinality({to})
      BY <1>1, <2>2, <3>1, SumOfConstant
    <3> QED
      BY <1>1, <3>1, <3>2
  <2>4. SumFunctionOnSet(shares, DOMAIN shares) = amount
    BY <2>2, <2>3, Zenon
  <2>5. Continues(u, [pc |-> "write", entry |-> e]) /\ UNCHANGED <<accounts, active, members, invitations, money, late>>
    BY <2>1 DEF AskSettlement
  <2> HIDE DEF shares
  <2>6. e.to = shares /\ e.from = u /\ e.amount = amount
    OBVIOUS
  <2>7. Entered(e)
    <3>1. DOMAIN shares \subseteq Users /\ \A w \in DOMAIN shares : shares[w] \in Int
      BY <1>1, <2>2
    <3> QED
      BY <1>1, <2>4, <2>6, <3>1 DEF Entered
  <2> QED
    BY <2>5, <2>6, <2>7
<1>5. CASE \E S \in SUBSET members : \E shares \in [S -> 1..amount] : AskShares(u, amount, shares)
  <2>0. PICK S \in SUBSET members : \E shares \in [S -> 1..amount] : AskShares(u, amount, shares)
    BY <1>5
  <2>1. PICK shares \in [S -> 1..amount] : AskShares(u, amount, shares)
    BY <2>0
  <2>2. DOMAIN shares = S /\ \A w \in S : shares[w] \in Int
    BY <1>1, <2>1
  <2>3. SumFunctionOnSet(shares, DOMAIN shares) = amount /\ AskExpense(u, amount, shares)
    BY <2>1 DEF AskShares, Reconcile, SumFunction
  <2> QED
    BY <1>2, <2>1, <2>2, <2>3
<1> QED
  BY <1>3, <1>4, <1>5

\* Requests about money are for entries, and all of the money was entered: while nobody's account has
\* been deleted, balances add up to zero, and who is out of the group has none.
EntriesAsked ==
    \A u \in Users : request[u].pc \in {"write", "waits"} => Entered(request[u].entry) /\ request[u].entry.from = u
MoneyStands ==
    accounts = Users => /\ MoneyBag(money)
                        /\ \A u \in Users \ (members \cup late) : Net(u) = 0
                        /\ SumsToZero
MoneyInv == ConsentInv /\ EntriesAsked /\ MoneyStands

\* A request that goes on is for an entry, if it is about money.
LEMMA EntriesStay ==
  ASSUME MoneyInv, NEW u \in Users, NEW r, Continues(u, r),
         r.pc \in {"write", "waits"} => Entered(r.entry) /\ r.entry.from = u
  PROVE  EntriesAsked'
<1>1. request' = [w \in Users |-> IF w = u THEN r ELSE request[w]]
  BY DEF Continues, MoneyInv, ConsentInv, AskingInv
<1> QED
  BY <1>1 DEF MoneyInv, EntriesAsked

LEMMA NoEntry == NoRequest.pc \notin {"write", "waits"}
  BY DEF NoRequest

\* Money stands where no money moves and nobody leaves.
LEMMA MoneyKept ==
  ASSUME MoneyInv, UNCHANGED <<accounts, money, late>>, members \subseteq members'
  PROVE  MoneyStands'
<1>1. \A u : Net(u)' = Net(u)
  BY DEF Net, Gives, Takes
<1>2. SumsToZero => SumsToZero'
  BY <1>1 DEF SumsToZero, Balances
<1> QED
  BY <1>1, <1>2 DEF MoneyInv, MoneyStands

LEMMA NetChanges ==
  ASSUME NEW e, Entered(e), MoneyBag(money), money' = money (+) SetToBag({e})
  PROVE  /\ MoneyBag(money') /\ money' # money
         /\ \A u \in Users : Net(u) \in Int /\ Net(u)' = Net(u) + Gain(e, u)
<1>1. \A u : Net(u)' = SumFunctionOnSet(Gains(money', u), DOMAIN money')
  BY DEF Net, SumFunction, Gains, Gain
<1>2. \A u \in Users : Net(u) = SumFunctionOnSet(Gains(money, u), DOMAIN money) /\ Net(u) \in Int
  BY NetIs, GainsAreInt
<1>3. /\ MoneyBag(money') /\ money' # money
      /\ \A u \in Users : SumFunctionOnSet(Gains(money', u), DOMAIN money')
                            = SumFunctionOnSet(Gains(money, u), DOMAIN money) + Gain(e, u)
  <2> DEFINE n == money (+) SetToBag({e})
  <2>1. /\ MoneyBag(n) /\ n # money
        /\ \A u \in Users : SumFunctionOnSet(Gains(n, u), DOMAIN n)
                              = SumFunctionOnSet(Gains(money, u), DOMAIN money) + Gain(e, u)
    BY EntryPosted
  <2>2. money' = n
    OBVIOUS
  <2> HIDE DEF n
  <2> QED
    BY <2>1, <2>2
<1> QED
  BY <1>1, <1>2, <1>3

\* An entry is posted: what it moves, it moves between members and who asked for it.
LEMMA MoneyPosted ==
  ASSUME MoneyInv, NEW u \in Users, Post(u)
  PROVE  MoneyInv'
<1> DEFINE e == request[u].entry
<1>1. /\ request[u].pc = "waits" /\ Continues(u, NoRequest) /\ UNCHANGED <<accounts, active, members, invitations>>
      /\ late' = IF money' # money /\ u \notin members THEN late \cup {u} ELSE late
      /\ money' = money \/ (DOMAIN e.to \subseteq members /\ money' = money (+) SetToBag({e}))
  BY DEF Post
<1>2. Entered(e) /\ e.from = u
  BY <1>1 DEF MoneyInv, EntriesAsked
<1>3. ConsentInv'
  BY MoneyMoved DEF MoneyInv
<1>4. EntriesAsked'
  BY <1>1, EntriesStay, NoEntry
<1> HIDE DEF e
<1>5. MoneyStands'
  <2>1. CASE money' = money
    BY <1>1, <2>1, MoneyKept
  <2>2. CASE money' # money
    <3> SUFFICES ASSUME accounts' = Users
                 PROVE  /\ MoneyBag(money)'
                        /\ \A w \in Users \ (members' \cup late') : Net(w)' = 0
                        /\ SumsToZero'
      BY DEF MoneyStands
    <3>1. /\ MoneyBag(money) /\ \A w \in Users \ (members \cup late) : Net(w) = 0
          /\ SumsToZero
      BY <1>1 DEF MoneyInv, MoneyStands
    <3>2. /\ MoneyBag(money') /\ \A w \in Users : Net(w) \in Int /\ Net(w)' = Net(w) + Gain(e, w)
      BY <1>1, <1>2, <2>2, <3>1, NetChanges
    <3>3. MoneyBag(money)'
      BY <3>2 DEF MoneyBag
    <3>4. ASSUME NEW w \in Users \ (members' \cup late')
          PROVE  Net(w)' = 0
      <4>1. w \notin DOMAIN e.to /\ w # e.from /\ w \notin members \cup late
        BY <1>1, <1>2, <2>2
      <4>2. Gain(e, w) = 0
        BY <4>1 DEF Gain, Gives, Takes
      <4>3. Net(w) = 0 /\ Net(w)' = Net(w) + Gain(e, w)
        BY <3>1, <3>2, <4>1
      <4> QED
        BY <4>2, <4>3
    <3>5. SumsToZero'
      <4> DEFINE gains == [w \in Users |-> Gain(e, w)]
                 before == [w \in Users |-> Net(w)]
                 after == [w \in Users |-> Net(w)']
      <4>1. SumFunctionOnSet(gains, Users) = 0
        BY <1>2, EntryBalances
      <4>2. SumFunctionOnSet(before, Users) = 0
        BY <3>1 DEF SumsToZero, Balances, SumFunction
      <4>3. \A w \in Users : /\ before[w] \in Int /\ gains[w] \in Int
                             /\ after[w] = before[w] + gains[w]
        BY <1>2, <3>2, GainIsInt
      <4> HIDE DEF gains, before, after
      <4>4. SumFunctionOnSet(after, Users) = SumFunctionOnSet(before, Users) + SumFunctionOnSet(gains, Users)
        BY <4>3, SumAdds, SplitAssumption
      <4>5. SumFunctionOnSet(after, Users) = 0
        BY <4>1, <4>2, <4>4
      <4> QED
        BY <4>5 DEF after, SumsToZero, Balances, SumFunction
    <3> QED
      BY <3>3, <3>4, <3>5
  <2> QED
    BY <2>1, <2>2
<1> QED
  BY <1>3, <1>4, <1>5 DEF MoneyInv

\* Who leaves has a balance of zero.
LEMMA SettledLeaves ==
  ASSUME MoneyInv, NEW u \in Users, NEW target \in Users, RemoveMember(u, target)
  PROVE  MoneyInv'
<1>1. /\ members' = members \ {target} /\ Net(target) = 0 /\ UNCHANGED <<accounts, money, request, late>>
  BY DEF RemoveMember
<1>2. ConsentInv'
  BY MemberRemoved DEF MoneyInv
<1>3. EntriesAsked'
  BY <1>1 DEF MoneyInv, EntriesAsked
<1>4. \A w : Net(w)' = Net(w)
  BY <1>1 DEF Net, Gives, Takes
<1>5. SumsToZero => SumsToZero'
  BY <1>4 DEF SumsToZero, Balances
<1>6. MoneyStands'
  BY <1>1, <1>4, <1>5 DEF MoneyInv, MoneyStands
<1> QED
  BY <1>2, <1>3, <1>6 DEF MoneyInv

\* A request begins or goes on without moving any money.
LEMMA MoneyWaits ==
  ASSUME MoneyInv, NEW u \in Users,
         \/ \E amount \in Prices :
              \/ \E ids \in SetToAllKPermutations(members) : ids # <<>> /\ AskEqually(u, amount, ids)
              \/ \E to \in Users : AskSettlement(u, to, amount)
              \/ \E S \in SUBSET members : \E shares \in [S -> 1..amount] : AskShares(u, amount, shares)
         \/ StartInsert(u) \/ Invite(u)
         \/ \E w \in Users : AskInvitation(u, w)
  PROVE  EntriesAsked' /\ MoneyStands'
<1>1. CASE \E amount \in Prices :
             \/ \E ids \in SetToAllKPermutations(members) : ids # <<>> /\ AskEqually(u, amount, ids)
             \/ \E to \in Users : AskSettlement(u, to, amount)
             \/ \E S \in SUBSET members : \E shares \in [S -> 1..amount] : AskShares(u, amount, shares)
  <2>1. PICK e : /\ Entered(e) /\ e.from = u /\ Continues(u, [pc |-> "write", entry |-> e])
                 /\ UNCHANGED <<accounts, active, members, invitations, money, late>>
    <3>1. members \subseteq Users
      BY DEF MoneyInv, ConsentInv, ConsentTypes
    <3> QED
      BY <1>1, <3>1, AskedEntered
  <2>2. EntriesAsked'
    BY <2>1, EntriesStay
  <2>3. MoneyStands'
    BY <2>1, MoneyKept
  <2> QED
    BY <2>2, <2>3
<1>2. CASE StartInsert(u)
  <2>1. PICK e : request[u] = [pc |-> "write", entry |-> e]
    BY <1>2 DEF StartInsert, MoneyInv, ConsentInv, AskingInv, Asking
  <2>2. Entered(e) /\ e.from = u
    BY <2>1 DEF MoneyInv, EntriesAsked
  <2>3. PICK r : Continues(u, r) /\ (r = NoRequest \/ r = [pc |-> "waits", entry |-> e])
    BY <1>2, <2>1 DEF StartInsert
  <2>4. EntriesAsked'
    BY <2>2, <2>3, EntriesStay, NoEntry
  <2>5. MoneyStands'
    BY <1>2, MoneyKept DEF StartInsert
  <2> QED
    BY <2>4, <2>5
<1>3. CASE Invite(u)
  BY <1>3, EntriesStay, NoEntry, MoneyKept DEF Invite
<1>4. CASE \E w \in Users : AskInvitation(u, w)
  BY <1>4, EntriesStay, MoneyKept DEF AskInvitation
<1> QED
  BY <1>1, <1>2, <1>3, <1>4

LEMMA MoneyStep ==
  ASSUME MoneyInv, [SplitNext]_splitVars
  PROVE  MoneyInv'
<1>1. ConsentInv'
  BY ConsentStep DEF MoneyInv
<1>2. ASSUME NEW u \in Users,
             \/ \E amount \in Prices :
                  \/ \E ids \in SetToAllKPermutations(members) : ids # <<>> /\ AskEqually(u, amount, ids)
                  \/ \E to \in Users : AskSettlement(u, to, amount)
                  \/ \E S \in SUBSET members : \E shares \in [S -> 1..amount] : AskShares(u, amount, shares)
             \/ StartInsert(u) \/ Invite(u)
             \/ \E w \in Users : AskInvitation(u, w)
      PROVE  MoneyInv'
  BY <1>1, <1>2, MoneyWaits DEF MoneyInv
<1>3. ASSUME NEW u \in Users, Post(u)  PROVE MoneyInv'
  BY <1>3, MoneyPosted
<1>4. ASSUME NEW u \in Users, NEW w \in Users, RemoveMember(u, w)  PROVE MoneyInv'
  BY <1>4, SettledLeaves
<1>5. ASSUME NEW u \in Users, DeleteAccount(u)  PROVE MoneyInv'
  <2>1. u \notin accounts' /\ Continues(u, NoRequest)
    BY <1>5 DEF DeleteAccount
  <2>2. EntriesAsked'
    BY <2>1, EntriesStay, NoEntry
  <2>3. MoneyStands'
    BY <2>1 DEF MoneyStands
  <2> QED
    BY <1>1, <2>2, <2>3 DEF MoneyInv
<1>6. ASSUME UNCHANGED <<accounts, money, request, late>>, members \subseteq members'  PROVE MoneyInv'
  BY <1>1, <1>6, MoneyKept DEF MoneyInv, EntriesAsked
<1>7. ASSUME NEW u \in Users, NEW k \in Slots,
             AcceptInvitation(u, k) \/ DeclineInvitation(u, k) \/ RevokeInvitation(u, k)
      PROVE  MoneyInv'
  BY <1>6, <1>7 DEF AcceptInvitation, DeclineInvitation, RevokeInvitation
<1>8. ASSUME NEW u \in Users, ArchiveGroup(u)  PROVE MoneyInv'
  BY <1>6, <1>8 DEF ArchiveGroup
<1>9. CASE UNCHANGED splitVars
  BY <1>6, <1>9 DEF splitVars
<1> QED
  BY <1>2, <1>3, <1>4, <1>5, <1>7, <1>8, <1>9 DEF SplitNext

LEMMA MoneyInitially ==
  ASSUME SplitInit
  PROVE  MoneyInv
<1>1. money = EmptyBag /\ DOMAIN money = {}
  BY DEF SplitInit, EmptyBag, SetToBag
<1>2. MoneyBag(money)
  BY <1>1, FS_EmptySet DEF MoneyBag, EmptyBag, SetToBag
<1>3. \A u \in Users : Net(u) = 0
  <2> TAKE u \in Users
  <2>1. Net(u) = SumFunctionOnSet(Gains(money, u), DOMAIN money)
    BY NetIs
  <2>2. SumFunctionOnSet(Gains(money, u), {}) = 0
    BY SumOfNothing
  <2> QED
    BY <1>1, <2>1, <2>2, Zenon
<1>4. SumsToZero
  <2> DEFINE b == [u \in Users |-> Net(u)]
  <2>1. \A u \in Users : b[u] = 0
    BY <1>3
  <2> HIDE DEF b
  <2>2. SumFunctionOnSet(b, Users) = 0
    BY <2>1, SumOfZeros, SplitAssumption
  <2> QED
    BY <2>2 DEF b, SumsToZero, Balances, SumFunction
<1>5. EntriesAsked
  BY NoEntry DEF SplitInit, EntriesAsked
<1> QED
  BY <1>2, <1>3, <1>4, <1>5, ConsentInitially DEF MoneyInv, MoneyStands

LEMMA SplitMoneyInv == SplitSpec => []MoneyInv
<1>1. SplitInit => MoneyInv
  BY MoneyInitially
<1>2. MoneyInv /\ [SplitNext]_splitVars => MoneyInv'
  BY MoneyStep
<1> QED
  BY <1>1, <1>2, PTL DEF SplitSpec

\* 039: nobody leaves the group with a balance, and nobody who has left gets one, other than by a
\* settlement that waited for the group while he was removed; while no account has been deleted.
THEOREM NobodyLeavesUnsettled == SplitSpec => []LeftIsSettled
<1>1. MoneyInv => LeftIsSettled
  BY DEF MoneyInv, MoneyStands, LeftIsSettled
<1> QED
  BY <1>1, SplitMoneyInv, PTL

\* split.ts: "the numbers reconcile to zero across a group": however amounts were divided, what some
\* are owed is what others owe, as long as no account has been deleted.
THEOREM GroupsSumToZero == SplitSpec => [](accounts = Users => SumsToZero)
<1>1. MoneyInv => (accounts = Users => SumsToZero)
  BY DEF MoneyInv, MoneyStands
<1> QED
  BY <1>1, SplitMoneyInv, PTL

-----------------------------------------------------------------------------
(* SplitGroups: suggested settlements *)

\* What Settling gives for n payments, when g is what it gives for n - 1.
SettlesNext(n, g) ==
    [b \in [Users -> Int] |->
       IF n = 0 \/ OneSided(b) THEN <<>> ELSE <<Payment(b)>> \o g[n - 1][Paying(b, Payment(b))]]
SettlesUpTo(g, n) == g = [k \in 0..n |-> SettlesNext(k, g)]

LEMMA SettlesNextReads ==
  ASSUME NEW n \in Nat, NEW g, NEW h, n # 0 => g[n - 1] = h[n - 1]
  PROVE  SettlesNext(n, g) = SettlesNext(n, h)
<1>1. CASE n = 0
  BY <1>1 DEF SettlesNext
<1>2. CASE n # 0
  BY <1>2, Zenon DEF SettlesNext
<1> QED
  BY <1>1, <1>2

LEMMA SettlesUpToExists ==
  ASSUME NEW n \in Nat
  PROVE  \E g : SettlesUpTo(g, n)
<1> DEFINE Good == {m \in Nat : \E g : SettlesUpTo(g, m)}
<1>1. 0 \in Good
  <2> DEFINE g == [k \in 0..0 |-> SettlesNext(0, <<>>)]
  <2>1. ASSUME NEW k \in 0..0  PROVE g[k] = SettlesNext(k, g)
    <3>1. k = 0 /\ g[k] = SettlesNext(0, <<>>)
      OBVIOUS
    <3> HIDE DEF g
    <3> QED
      BY <3>1, SettlesNextReads
  <2>2. g = [k \in 0..0 |-> g[k]]
    OBVIOUS
  <2> HIDE DEF g
  <2>3. SettlesUpTo(g, 0)
    BY <2>1, <2>2 DEF SettlesUpTo
  <2> QED
    BY <2>3
<1>2. \A m \in Nat : m \in Good => m + 1 \in Good
  <2> SUFFICES ASSUME NEW m \in Nat, NEW g, SettlesUpTo(g, m)
               PROVE  \E h : SettlesUpTo(h, m + 1)
    OBVIOUS
  <2> DEFINE h == [k \in 0..(m + 1) |-> IF k <= m THEN g[k] ELSE SettlesNext(m + 1, g)]
  <2>1. \A k \in 0..m : g[k] = SettlesNext(k, g)
    BY DEF SettlesUpTo
  <2>2. (\A k \in 0..m : h[k] = g[k]) /\ h[m + 1] = SettlesNext(m + 1, g)
    OBVIOUS
  <2>3. h = [k \in 0..(m + 1) |-> h[k]]
    OBVIOUS
  <2> HIDE DEF h
  <2>4. ASSUME NEW k \in 0..(m + 1)  PROVE h[k] = SettlesNext(k, h)
    <3>1. k \in Nat /\ (k # 0 => g[k - 1] = h[k - 1])
      BY <2>2
    <3>2. SettlesNext(k, g) = SettlesNext(k, h)
      BY <3>1, SettlesNextReads
    <3>3. h[k] = SettlesNext(k, g)
      BY <2>1, <2>2
    <3> QED
      BY <3>2, <3>3
  <2>5. SettlesUpTo(h, m + 1)
    BY <2>3, <2>4 DEF SettlesUpTo
  <2> QED
    BY <2>5
<1>3. Nat \subseteq Good
  <2> HIDE DEF Good
  <2> QED
    BY <1>1, <1>2, AllNumbers
<1> QED
  BY <1>3

LEMMA SettlesUpToAgree ==
  ASSUME NEW m \in Nat, NEW n \in Nat, m <= n, NEW g, NEW h, SettlesUpTo(g, m), SettlesUpTo(h, n)
  PROVE  g[m] = h[m]
<1>1. /\ \A k \in 0..m : g[k] = SettlesNext(k, g)
      /\ \A k \in 0..n : h[k] = SettlesNext(k, h)
  BY DEF SettlesUpTo
<1> DEFINE Good == {k \in Nat : k <= m => g[k] = h[k]}
<1>2. 0 \in Good
  <2>1. g[0] = SettlesNext(0, g) /\ h[0] = SettlesNext(0, h)
    BY <1>1
  <2>2. SettlesNext(0, g) = SettlesNext(0, h)
    BY SettlesNextReads
  <2> QED
    BY <2>1, <2>2
<1>3. \A k \in Nat : k \in Good => k + 1 \in Good
  <2> SUFFICES ASSUME NEW k \in Nat, k <= m => g[k] = h[k], k + 1 <= m
               PROVE  g[k + 1] = h[k + 1]
    OBVIOUS
  <2>1. g[k + 1] = SettlesNext(k + 1, g) /\ h[k + 1] = SettlesNext(k + 1, h)
    BY <1>1
  <2>2. k + 1 \in Nat /\ g[(k + 1) - 1] = h[(k + 1) - 1]
    OBVIOUS
  <2>3. SettlesNext(k + 1, g) = SettlesNext(k + 1, h)
    BY <2>2, SettlesNextReads
  <2> QED
    BY <2>1, <2>3
<1>4. Nat \subseteq Good
  <2> HIDE DEF Good
  <2> QED
    BY <1>2, <1>3, AllNumbers
<1> QED
  BY <1>4

\* The recursive definition has a solution, and so says what it is meant to say.
LEMMA SettlingIs ==
  ASSUME NEW n \in Nat
  PROVE  Settling[n] = SettlesNext(n, Settling)
<1> DEFINE g(m) == CHOOSE f : SettlesUpTo(f, m)
           all == [m \in Nat |-> g(m)[m]]
<1>1. \A m \in Nat : SettlesUpTo(g(m), m)
  BY SettlesUpToExists
<1> HIDE DEF g
<1>2. \A m \in Nat : all[m] = g(m)[m]
  OBVIOUS
<1>3. all = [m \in Nat |-> all[m]]
  OBVIOUS
<1> HIDE DEF all
<1>4. ASSUME NEW m \in Nat  PROVE all[m] = SettlesNext(m, all)
  <2>1. g(m)[m] = SettlesNext(m, g(m))
    BY <1>1 DEF SettlesUpTo
  <2>2. m # 0 => g(m)[m - 1] = all[m - 1]
    <3> SUFFICES ASSUME m # 0  PROVE g(m)[m - 1] = all[m - 1]
      OBVIOUS
    <3>1. m - 1 \in Nat /\ m - 1 <= m
      OBVIOUS
    <3>2. g(m - 1)[m - 1] = g(m)[m - 1]
      <4> DEFINE k == m - 1
      <4>1. SettlesUpTo(g(k), k) /\ SettlesUpTo(g(m), m) /\ k \in Nat /\ k <= m
        BY <1>1, <3>1
      <4> HIDE DEF k
      <4>2. g(k)[k] = g(m)[k]
        BY <4>1, SettlesUpToAgree
      <4> QED
        BY <4>2 DEF k
    <3> QED
      BY <1>2, <3>1, <3>2
  <2>3. SettlesNext(m, g(m)) = SettlesNext(m, all)
    BY <2>2, SettlesNextReads
  <2> QED
    BY <1>2, <2>1, <2>3
<1>5. all = [m \in Nat |-> SettlesNext(m, all)]
  BY <1>3, <1>4
<1>6. Settling = CHOOSE f : f = [m \in Nat |-> SettlesNext(m, f)]
  BY DEF Settling, SettlesNext
<1>7. Settling = [m \in Nat |-> SettlesNext(m, Settling)]
  BY <1>5, <1>6
<1> QED
  BY <1>7

\* Some element has the greatest number, and some the least.
LEMMA Greatest ==
  ASSUME NEW S, IsFiniteSet(S), S # {}, NEW f, \A x \in S : f[x] \in Int
  PROVE  \E x \in S : \A y \in S : f[y] <= f[x]
<1> DEFINE Good == {n \in Nat : \A U \in SUBSET S : IsFiniteSet(U) /\ Cardinality(U) = n /\ U # {}
                                    => \E x \in U : \A y \in U : f[y] <= f[x]}
<1>1. 0 \in Good
  BY FS_EmptySet
<1>2. \A n \in Nat : n \in Good => n + 1 \in Good
  <2> SUFFICES ASSUME NEW n \in Nat, n \in Good,
                      NEW U \in SUBSET S, IsFiniteSet(U), Cardinality(U) = n + 1, U # {}
               PROVE  \E x \in U : \A y \in U : f[y] <= f[x]
    OBVIOUS
  <2>1. PICK x \in U : TRUE
    OBVIOUS
  <2>2. IsFiniteSet(U \ {x}) /\ Cardinality(U \ {x}) = n
    BY OneLess
  <2>3. CASE U \ {x} = {}
    BY <2>3
  <2>4. CASE U \ {x} # {}
    <3>1. PICK z \in U \ {x} : \A y \in U \ {x} : f[y] <= f[z]
      BY <2>2, <2>4
    <3> QED
      BY <3>1
  <2> QED
    BY <2>3, <2>4
<1>3. Cardinality(S) \in Nat
  BY FS_CardinalityType
<1>4. Nat \subseteq Good
  <2> HIDE DEF Good
  <2> QED
    BY <1>1, <1>2, AllNumbers
<1> QED
  BY <1>3, <1>4

LEMMA Least ==
  ASSUME NEW S, IsFiniteSet(S), S # {}, NEW f, \A x \in S : f[x] \in Int
  PROVE  \E x \in S : \A y \in S : f[x] <= f[y]
<1> DEFINE g == [x \in S |-> -f[x]]
<1>1. \A x \in S : g[x] \in Int /\ g[x] = -f[x]
  OBVIOUS
<1> HIDE DEF g
<1>2. PICK x \in S : \A y \in S : g[y] <= g[x]
  BY <1>1, Greatest
<1> QED
  BY <1>1, <1>2

\* Numbers that are not negative add up to one that is not.
LEMMA SumIsNat ==
  ASSUME NEW S, IsFiniteSet(S), NEW f, \A x \in S : f[x] \in Nat
  PROVE  SumFunctionOnSet(f, S) \in Nat
<1> DEFINE Good == {n \in Nat : \A U \in SUBSET S : IsFiniteSet(U) /\ Cardinality(U) = n
                                    => SumFunctionOnSet(f, U) \in Nat}
<1>1. 0 \in Good
  <2> SUFFICES ASSUME NEW U \in SUBSET S, IsFiniteSet(U), Cardinality(U) = 0
               PROVE  SumFunctionOnSet(f, U) = 0
    OBVIOUS
  <2>1. U = {}
    BY FS_EmptySet
  <2> QED
    BY <2>1, SumOfNothing, Zenon
<1>2. \A n \in Nat : n \in Good => n + 1 \in Good
  <2> SUFFICES ASSUME NEW n \in Nat, n \in Good,
                      NEW U \in SUBSET S, IsFiniteSet(U), Cardinality(U) = n + 1
               PROVE  SumFunctionOnSet(f, U) \in Nat
    OBVIOUS
  <2>1. U # {}
    BY FS_EmptySet
  <2>2. PICK x \in U : TRUE
    BY <2>1
  <2>3. IsFiniteSet(U \ {x}) /\ Cardinality(U \ {x}) = n
    BY OneLess
  <2>4. SumFunctionOnSet(f, U \ {x}) \in Nat
    BY <2>3
  <2>5. \A y \in U : f[y] \in Int
    OBVIOUS
  <2>6. SumFunctionOnSet(f, U) = f[x] + SumFunctionOnSet(f, U \ {x})
    BY <2>5, SumTakes
  <2>7. f[x] \in Nat
    OBVIOUS
  <2> QED
    BY <2>4, <2>6, <2>7
<1>3. Cardinality(S) \in Nat
  BY FS_CardinalityType
<1>4. Nat \subseteq Good
  <2> HIDE DEF Good
  <2> QED
    BY <1>1, <1>2, AllNumbers
<1> QED
  BY <1>3, <1>4

LEMMA NothingLeft ==
  ASSUME NEW S, IsFiniteSet(S), NEW f, \A x \in S : f[x] \in Nat, SumFunctionOnSet(f, S) = 0
  PROVE  \A x \in S : f[x] = 0
<1> TAKE x \in S
<1>1. SumFunctionOnSet(f, S) = f[x] + SumFunctionOnSet(f, S \ {x})
  <2>1. \A y \in S : f[y] \in Int
    OBVIOUS
  <2> QED
    BY <2>1, SumTakes
<1>2. SumFunctionOnSet(f, S \ {x}) \in Nat
  <2>1. IsFiniteSet(S \ {x}) /\ \A y \in S \ {x} : f[y] \in Nat
    BY FS_RemoveElement
  <2> QED
    BY <2>1, SumIsNat
<1>3. f[x] \in Nat
  OBVIOUS
<1> QED
  BY <1>1, <1>2, <1>3

\* What is owed and what is due are the same, so with one side done the other is, too.
Balanced(b) == b \in [Users -> Int] /\ SumFunctionOnSet(b, Users) = 0
Unsettled(b) == {u \in Users : b[u] # 0}

LEMMA OneSidedIsSettled ==
  ASSUME NEW b, Balanced(b), OneSided(b)
  PROVE  \A u \in Users : b[u] = 0
<1>1. IsFiniteSet(Users) /\ \A u \in Users : b[u] \in Int
  BY SplitAssumption DEF Balanced
<1>2. CASE \A u \in Users : b[u] >= 0
  <2>1. \A u \in Users : b[u] \in Nat
    BY <1>1, <1>2
  <2> QED
    BY <1>1, <2>1, NothingLeft DEF Balanced
<1>3. CASE \A u \in Users : b[u] <= 0
  <2> DEFINE d == [u \in Users |-> -b[u]]
             z == [u \in Users |-> 0]
  <2>1. \A u \in Users : d[u] \in Nat /\ d[u] \in Int /\ z[u] = 0 /\ z[u] = b[u] + d[u] /\ d[u] = -b[u]
    BY <1>1, <1>3
  <2> HIDE DEF d, z
  <2>2. SumFunctionOnSet(z, Users) = SumFunctionOnSet(b, Users) + SumFunctionOnSet(d, Users)
    <3>1. \A u \in Users : b[u] \in Int /\ d[u] \in Int /\ z[u] = b[u] + d[u]
      BY <1>1, <2>1
    <3> QED
      BY <1>1, <3>1, SumAdds
  <2>3. SumFunctionOnSet(z, Users) = 0
    BY <1>1, <2>1, SumOfZeros
  <2>4. SumFunctionOnSet(d, Users) \in Int
    BY <1>1, <2>1, SumIsInt
  <2>5. SumFunctionOnSet(d, Users) = 0
    BY <2>2, <2>3, <2>4 DEF Balanced
  <2>6. \A u \in Users : d[u] = 0
    BY <1>1, <2>1, <2>5, NothingLeft
  <2> QED
    BY <1>1, <2>1, <2>6
<1> QED
  BY <1>2, <1>3 DEF OneSided

\* What a payment changes for u.
Moves(p, u) == (IF p.from = u THEN p.amount ELSE 0) - (IF p.to = u THEN p.amount ELSE 0)
Payments == [from : Users, to : Users, amount : Nat \ {0}]

LEMMA LargestAre ==
  ASSUME NEW b \in [Users -> Int]
  PROVE  /\ LargestCreditor(b) \in Users /\ \A w \in Users : b[w] <= b[LargestCreditor(b)]
         /\ LargestDebtor(b) \in Users /\ \A w \in Users : b[LargestDebtor(b)] <= b[w]
<1>1. IsFiniteSet(Users) /\ Users # {} /\ \A u \in Users : b[u] \in Int
  BY SplitAssumption
<1>2. \E u \in Users : \A w \in Users : b[w] <= b[u]
  BY <1>1, Greatest
<1>3. \E u \in Users : \A w \in Users : b[u] <= b[w]
  BY <1>1, Least
<1> QED
  BY <1>2, <1>3 DEF LargestCreditor, LargestDebtor

LEMMA LessOf ==
  ASSUME NEW x \in Int, NEW y \in Int
  PROVE  Min({x, y}) = IF x <= y THEN x ELSE y
<1>1. \E m \in {x, y} : \A z \in {x, y} : m <= z
  OBVIOUS
<1>2. Min({x, y}) \in {x, y} /\ \A z \in {x, y} : Min({x, y}) <= z
  BY <1>1 DEF Min
<1> QED
  BY <1>2

\* A payment settles who pays or who is paid, and unsettles nobody.
LEMMA PaymentSettles ==
  ASSUME NEW b, Balanced(b), ~ OneSided(b)
  PROVE  LET p == Payment(b)
             n == Paying(b, p) IN
         /\ p \in Payments /\ Balanced(n)
         /\ \A u \in Users : n[u] = b[u] + Moves(p, u)
         /\ \E u, w \in Unsettled(b) : u # w /\ Unsettled(n) \subseteq Unsettled(b) \ {u}
<1> DEFINE c == LargestCreditor(b)
           d == LargestDebtor(b)
           p == Payment(b)
           n == Paying(b, p)
<1>1. \A u \in Users : b[u] \in Int
  BY DEF Balanced
<1>2. c \in Users /\ d \in Users /\ b[c] > 0 /\ b[d] < 0
  <2>1. /\ c \in Users /\ \A w \in Users : b[w] <= b[c]
        /\ d \in Users /\ \A w \in Users : b[d] <= b[w]
    BY LargestAre DEF Balanced
  <2>2. PICK v \in Users, w \in Users : ~ (b[v] <= 0) /\ ~ (b[w] >= 0)
    BY DEF OneSided
  <2> HIDE DEF c, d
  <2> QED
    BY <1>1, <2>1, <2>2
<1>3. p = [from |-> d, to |-> c, amount |-> IF b[c] <= -b[d] THEN b[c] ELSE -b[d]]
  <2>1. b[c] \in Int /\ -b[d] \in Int
    BY <1>1, <1>2
  <2>2. p = [from |-> d, to |-> c, amount |-> Min({b[c], -b[d]})]
    BY DEF Payment
  <2> HIDE DEF c, d, p
  <2> QED
    BY <2>1, <2>2, LessOf
<1>4. n = [b EXCEPT ![p.to] = b[p.to] - p.amount, ![p.from] = b[p.from] + p.amount]
  BY DEF Paying
<1> HIDE DEF c, d, p, n
<1> DEFINE a == p.amount
<1>5. /\ p.from = d /\ p.to = c /\ c # d /\ a \in Nat \ {0} /\ a \in Int
      /\ a = b[c] \/ a = -b[d]
  BY <1>1, <1>2, <1>3
<1>6. /\ n \in [Users -> Int]
      /\ n[c] = b[c] - a /\ n[d] = b[d] + a
      /\ \A u \in Users \ {c, d} : n[u] = b[u]
  BY <1>1, <1>2, <1>4, <1>5 DEF Balanced
<1>7. \A u \in Users : Moves(p, u) = IF u = d THEN a ELSE IF u = c THEN -a ELSE 0
  BY <1>5 DEF Moves
<1>8. p \in Payments
  BY <1>2, <1>3, <1>5 DEF Payments
<1> HIDE DEF a
<1>9. \A u \in Users : n[u] = b[u] + Moves(p, u)
  BY <1>1, <1>2, <1>5, <1>6, <1>7
<1>10. Balanced(n)
  <2> DEFINE m == [u \in Users |-> Moves(p, u)]
             U == Users \ {c}
  <2>1. \A u \in Users : m[u] \in Int /\ b[u] \in Int /\ n[u] = b[u] + m[u]
    BY <1>1, <1>5, <1>7, <1>9
  <2>2. m[c] = -a /\ m[d] = a /\ \A u \in Users \ {c, d} : m[u] = 0
    BY <1>2, <1>5, <1>7
  <2> HIDE DEF m
  <2>3. IsFiniteSet(Users) /\ IsFiniteSet(U) /\ IsFiniteSet(U \ {d})
    BY FS_RemoveElement, SplitAssumption
  <2>4. SumFunctionOnSet(m, Users) = m[c] + SumFunctionOnSet(m, U)
    BY <1>2, <2>1, <2>3, SumTakes
  <2>5. SumFunctionOnSet(m, U) = m[d] + SumFunctionOnSet(m, U \ {d})
    BY <1>2, <1>5, <2>1, <2>3, SumTakes
  <2>6. SumFunctionOnSet(m, U \ {d}) = 0
    BY <2>2, <2>3, SumOfZeros
  <2>7. SumFunctionOnSet(m, Users) = 0
    BY <1>5, <2>2, <2>4, <2>5, <2>6
  <2>8. SumFunctionOnSet(n, Users) = SumFunctionOnSet(b, Users) + SumFunctionOnSet(m, Users)
    BY <2>1, <2>3, SumAdds
  <2> QED
    BY <1>6, <2>7, <2>8 DEF Balanced
<1>11. c \in Unsettled(b) /\ d \in Unsettled(b)
  BY <1>2 DEF Unsettled
<1>12. \/ n[c] = 0 /\ Unsettled(n) \subseteq Unsettled(b) \ {c}
       \/ n[d] = 0 /\ Unsettled(n) \subseteq Unsettled(b) \ {d}
  <2>1. n[c] = 0 \/ n[d] = 0
    BY <1>1, <1>2, <1>5, <1>6
  <2> QED
    BY <1>6, <1>11, <2>1 DEF Unsettled
<1> QED
  BY <1>5, <1>8, <1>9, <1>10, <1>11, <1>12 DEF p, n

\* A sum over places that are all one further on.
LEMMA SumFurther ==
  ASSUME NEW m \in Nat, NEW f, NEW g, \A k \in 1..m : f[k] \in Int /\ g[k + 1] = f[k]
  PROVE  SumFunctionOnSet(g, 2..(m + 1)) = SumFunctionOnSet(f, 1..m)
<1> DEFINE Good == {n \in Nat : n <= m => SumFunctionOnSet(g, 2..(n + 1)) = SumFunctionOnSet(f, 1..n)}
<1>1. 0 \in Good
  <2>1. 2..(0 + 1) = {} /\ 1..0 = {}
    OBVIOUS
  <2>2. SumFunctionOnSet(g, 2..(0 + 1)) = 0 /\ SumFunctionOnSet(f, 1..0) = 0
    BY <2>1, SumOfNothing, Zenon
  <2> QED
    BY <2>2
<1>2. \A n \in Nat : n \in Good => n + 1 \in Good
  <2> SUFFICES ASSUME NEW n \in Nat, n \in Good, n + 1 <= m
               PROVE  SumFunctionOnSet(g, 2..((n + 1) + 1)) = SumFunctionOnSet(f, 1..(n + 1))
    OBVIOUS
  <2> DEFINE G == 2..((n + 1) + 1)
             F == 1..(n + 1)
  <2>1. IsFiniteSet(G) /\ IsFiniteSet(F)
    BY FS_Interval
  <2>2. /\ n + 2 \in G /\ G \ {n + 2} = 2..(n + 1)
        /\ n + 1 \in F /\ F \ {n + 1} = 1..n
    OBVIOUS
  <2>3. /\ \A k \in F : f[k] \in Int
        /\ \A k \in G : g[k] \in Int
    <3>1. \A k \in F : k \in 1..m
      OBVIOUS
    <3>2. \A k \in G : k - 1 \in 1..m /\ k = (k - 1) + 1
      OBVIOUS
    <3> QED
      BY <3>1, <3>2
  <2>4. g[n + 2] = f[n + 1]
    <3>1. n + 1 \in 1..m /\ n + 2 = (n + 1) + 1
      OBVIOUS
    <3> QED
      BY <3>1
  <2> HIDE DEF G, F
  <2>5. SumFunctionOnSet(g, G) = g[n + 2] + SumFunctionOnSet(g, G \ {n + 2})
    <3> DEFINE x == n + 2
    <3>1. x \in G
      BY <2>2
    <3> HIDE DEF x
    <3>2. SumFunctionOnSet(g, G) = g[x] + SumFunctionOnSet(g, G \ {x})
      BY <2>1, <2>3, <3>1, SumTakes
    <3> QED
      BY <3>2 DEF x
  <2>6. SumFunctionOnSet(f, F) = f[n + 1] + SumFunctionOnSet(f, F \ {n + 1})
    <3> DEFINE x == n + 1
    <3>1. x \in F
      BY <2>2
    <3> HIDE DEF x
    <3>2. SumFunctionOnSet(f, F) = f[x] + SumFunctionOnSet(f, F \ {x})
      BY <2>1, <2>3, <3>1, SumTakes
    <3> QED
      BY <3>2 DEF x
  <2>7. SumFunctionOnSet(g, G \ {n + 2}) = SumFunctionOnSet(f, F \ {n + 1})
    <3>1. SumFunctionOnSet(g, 2..(n + 1)) = SumFunctionOnSet(f, 1..n)
      OBVIOUS
    <3> QED
      BY <2>2, <3>1, Zenon
  <2> QED
    BY <2>4, <2>5, <2>6, <2>7 DEF G, F
<1>3. Nat \subseteq Good
  <2> HIDE DEF Good
  <2> QED
    BY <1>1, <1>2, AllNumbers
<1> QED
  BY <1>3

\* What the payments of a sequence change for u, and which sequences settle balances.
Moved(s, u) == [k \in DOMAIN s |-> Moves(s[k], u)]
Settled(s, b) ==
    /\ s \in Seq(Payments)
    /\ \A u \in Users : b[u] + SumFunctionOnSet(Moved(s, u), DOMAIN s) = 0
    /\ Len(s) <= Cardinality(Unsettled(b))
    /\ Unsettled(b) # {} => Len(s) < Cardinality(Unsettled(b))

LEMMA MoveIsInt ==
  ASSUME NEW p \in Payments, NEW u
  PROVE  Moves(p, u) \in Int
  BY DEF Moves, Payments

LEMMA MovedIsInt ==
  ASSUME NEW s \in Seq(Payments), NEW u
  PROVE  /\ IsFiniteSet(DOMAIN s) /\ \A k \in DOMAIN s : Moved(s, u)[k] \in Int
         /\ SumFunctionOnSet(Moved(s, u), DOMAIN s) \in Int
<1>1. Len(s) \in Nat /\ DOMAIN s = 1..Len(s)
  OBVIOUS
<1>2. IsFiniteSet(DOMAIN s)
  BY <1>1, FS_Interval
<1>3. \A k \in DOMAIN s : Moved(s, u)[k] \in Int
  <2> TAKE k \in DOMAIN s
  <2>1. s[k] \in Payments
    BY <1>1
  <2> QED
    BY <2>1, MoveIsInt DEF Moved
<1> QED
  BY <1>2, <1>3, SumIsInt

\* One payment more, before the others.
LEMMA PaymentBefore ==
  ASSUME NEW p \in Payments, NEW s \in Seq(Payments), NEW u
  PROVE  LET t == <<p>> \o s IN
         SumFunctionOnSet(Moved(t, u), DOMAIN t) = Moves(p, u) + SumFunctionOnSet(Moved(s, u), DOMAIN s)
<1> DEFINE t == <<p>> \o s
           m == Len(s)
           f == Moved(s, u)
           g == Moved(t, u)
<1>1. /\ t \in Seq(Payments) /\ m \in Nat /\ DOMAIN s = 1..m /\ DOMAIN t = 1..(m + 1)
      /\ t[1] = p /\ \A k \in 1..m : t[k + 1] = s[k]
  OBVIOUS
<1> HIDE DEF t, m
<1>2. g[1] = Moves(p, u) /\ \A k \in 1..m : f[k] \in Int /\ g[k + 1] = f[k]
  <2>1. g[1] = Moves(p, u)
    BY <1>1 DEF Moved
  <2>2. ASSUME NEW k \in 1..m  PROVE f[k] \in Int /\ g[k + 1] = f[k]
    <3>1. k \in DOMAIN s /\ k + 1 \in DOMAIN t /\ t[k + 1] = s[k]
      BY <1>1
    <3>2. f[k] = Moves(s[k], u) /\ g[k + 1] = Moves(t[k + 1], u)
      BY <3>1 DEF Moved
    <3>3. f[k] \in Int
      BY <3>1, MovedIsInt
    <3> QED
      BY <3>1, <3>2, <3>3
  <2> QED
    BY <2>1, <2>2
<1>3. \A k \in 1..(m + 1) : g[k] \in Int
  BY <1>1, MovedIsInt
<1> HIDE DEF f, g
<1>4. SumFunctionOnSet(g, 1..(m + 1)) = g[1] + SumFunctionOnSet(g, (1..(m + 1)) \ {1})
  <2> DEFINE W == 1..(m + 1)
             x == 1
  <2>1. IsFiniteSet(W) /\ x \in W /\ \A k \in W : g[k] \in Int
    BY <1>1, <1>3, FS_Interval
  <2> HIDE DEF W, x
  <2>2. SumFunctionOnSet(g, W) = g[x] + SumFunctionOnSet(g, W \ {x})
    BY <2>1, SumTakes
  <2> QED
    BY <2>2 DEF W, x
<1>5. (1..(m + 1)) \ {1} = 2..(m + 1)
  BY <1>1
<1>6. SumFunctionOnSet(g, (1..(m + 1)) \ {1}) = SumFunctionOnSet(f, 1..m)
  <2>1. SumFunctionOnSet(g, 2..(m + 1)) = SumFunctionOnSet(f, 1..m)
    BY <1>1, <1>2, SumFurther
  <2> QED
    BY <1>5, <2>1, Zenon
<1>7. SumFunctionOnSet(g, DOMAIN t) = SumFunctionOnSet(g, 1..(m + 1))
  BY <1>1, Zenon
<1>8. SumFunctionOnSet(f, DOMAIN s) = SumFunctionOnSet(f, 1..m)
  BY <1>1, Zenon
<1> QED
  BY <1>2, <1>4, <1>6, <1>7, <1>8 DEF f, g, t

LEMMA NothingToSettle ==
  ASSUME NEW b, b \in [Users -> Int], \A u \in Users : b[u] = 0
  PROVE  Settled(<<>>, b)
<1>1. <<>> \in Seq(Payments) /\ Len(<<>>) = 0 /\ DOMAIN <<>> = {}
  OBVIOUS
<1>2. \A u \in Users : SumFunctionOnSet(Moved(<<>>, u), DOMAIN <<>>) = 0
  <2>1. \A u \in Users : SumFunctionOnSet(Moved(<<>>, u), {}) = 0
    BY SumOfNothing
  <2> QED
    BY <1>1, <2>1, Zenon
<1>3. Unsettled(b) = {}
  BY DEF Unsettled
<1>4. Cardinality(Unsettled(b)) = 0
  BY <1>3, FS_EmptySet
<1> QED
  BY <1>1, <1>2, <1>3, <1>4 DEF Settled

\* As many payments as users are unsettled are enough, and one of them is left over.
LEMMA SettlingSettles ==
  ASSUME NEW n \in Nat, NEW b, Balanced(b), Cardinality(Unsettled(b)) <= n
  PROVE  Settled(Settling[n][b], b)
<1> DEFINE Good == {m \in Nat : \A c \in [Users -> Int] :
                      Balanced(c) /\ Cardinality(Unsettled(c)) <= m => Settled(Settling[m][c], c)}
<1>1. \A m \in Nat : \A c \in [Users -> Int] :
        Settling[m][c] = IF m = 0 \/ OneSided(c) THEN <<>>
                         ELSE <<Payment(c)>> \o Settling[m - 1][Paying(c, Payment(c))]
  <2> TAKE m \in Nat
  <2> TAKE c \in [Users -> Int]
  <2>1. Settling[m] = SettlesNext(m, Settling)
    BY SettlingIs
  <2>2. SettlesNext(m, Settling)[c] = IF m = 0 \/ OneSided(c) THEN <<>>
                                      ELSE <<Payment(c)>> \o Settling[m - 1][Paying(c, Payment(c))]
    BY DEF SettlesNext
  <2> QED
    BY <2>1, <2>2
<1>2. \A c : IsFiniteSet(Unsettled(c)) /\ Cardinality(Unsettled(c)) \in Nat
  BY SplitAssumption, FS_Subset, FS_CardinalityType DEF Unsettled
<1>3. 0 \in Good
  <2> SUFFICES ASSUME NEW c \in [Users -> Int], Balanced(c), Cardinality(Unsettled(c)) <= 0
               PROVE  Settled(Settling[0][c], c)
    OBVIOUS
  <2>1. Unsettled(c) = {}
    <3>1. Cardinality(Unsettled(c)) = 0 /\ IsFiniteSet(Unsettled(c))
      BY <1>2
    <3> QED
      BY <3>1, FS_EmptySet
  <2>2. \A u \in Users : c[u] = 0
    BY <2>1 DEF Unsettled
  <2> QED
    BY <1>1, <2>2, NothingToSettle
<1>4. \A m \in Nat : m \in Good => m + 1 \in Good
  <2> SUFFICES ASSUME NEW m \in Nat, m \in Good,
                      NEW c \in [Users -> Int], Balanced(c), Cardinality(Unsettled(c)) <= m + 1
               PROVE  Settled(Settling[m + 1][c], c)
    OBVIOUS
  <2>0. Settling[m + 1][c] = IF OneSided(c) THEN <<>> ELSE <<Payment(c)>> \o Settling[m][Paying(c, Payment(c))]
    <3>1. m + 1 \in Nat /\ m + 1 # 0 /\ (m + 1) - 1 = m
      OBVIOUS
    <3>2. Settling[m + 1][c] = IF m + 1 = 0 \/ OneSided(c) THEN <<>>
                               ELSE <<Payment(c)>> \o Settling[(m + 1) - 1][Paying(c, Payment(c))]
      BY <1>1, <3>1
    <3> QED
      BY <3>1, <3>2
  <2>1. CASE OneSided(c)
    <3>1. Settling[m + 1][c] = <<>>
      BY <2>0, <2>1
    <3>2. Settled(<<>>, c)
      BY <2>1, OneSidedIsSettled, NothingToSettle
    <3> QED
      BY <3>1, <3>2, Zenon
  <2>2. CASE ~ OneSided(c)
    <3> DEFINE p == Payment(c)
               d == Paying(c, p)
               s == Settling[m][d]
               t == <<p>> \o s
    <3>1. /\ p \in Payments /\ Balanced(d) /\ \A u \in Users : d[u] = c[u] + Moves(p, u)
          /\ \E u, w \in Unsettled(c) : u # w /\ Unsettled(d) \subseteq Unsettled(c) \ {u}
      BY <2>2, PaymentSettles
    <3>2. Settling[m + 1][c] = t
      BY <2>0, <2>2
    <3> HIDE DEF p, d
    <3>3. PICK u \in Unsettled(c), w \in Unsettled(c) : u # w /\ Unsettled(d) \subseteq Unsettled(c) \ {u}
      BY <3>1
    <3>4. /\ IsFiniteSet(Unsettled(c) \ {u}) /\ Cardinality(Unsettled(c) \ {u}) = Cardinality(Unsettled(c)) - 1
          /\ Cardinality(Unsettled(c)) \in Nat
      BY <1>2, FS_RemoveElement
    <3>5. /\ Cardinality(Unsettled(d)) <= Cardinality(Unsettled(c)) - 1 /\ Cardinality(Unsettled(d)) \in Nat
      BY <1>2, <3>3, <3>4, FS_Subset
    <3>6. Cardinality(Unsettled(c)) > 1
      <4>1. w \in Unsettled(c) \ {u}
        BY <3>3
      <4>2. Cardinality(Unsettled(c) \ {u}) # 0 /\ Cardinality(Unsettled(c) \ {u}) \in Nat
        BY <3>4, <4>1, FS_EmptySet, FS_CardinalityType
      <4> QED
        BY <3>4, <4>2
    <3>7. Settled(s, d)
      <4>1. d \in [Users -> Int] /\ Cardinality(Unsettled(d)) <= m
        BY <3>1, <3>4, <3>5 DEF Balanced
      <4> QED
        BY <3>1, <4>1
    <3> HIDE DEF s
    <3>8. s \in Seq(Payments) /\ t \in Seq(Payments) /\ Len(t) = Len(s) + 1 /\ Len(s) \in Nat
      BY <3>1, <3>7 DEF Settled
    <3>9. Len(t) < Cardinality(Unsettled(c))
      <4>1. CASE Unsettled(d) = {}
        <5>1. Len(s) <= 0
          BY <3>7, <4>1, FS_EmptySet DEF Settled
        <5> QED
          BY <3>4, <3>6, <3>8, <5>1
      <4>2. CASE Unsettled(d) # {}
        <5>1. Len(s) < Cardinality(Unsettled(d))
          BY <3>7, <4>2 DEF Settled
        <5> QED
          BY <3>4, <3>5, <3>8, <5>1
      <4> QED
        BY <4>1, <4>2
    <3>10. ASSUME NEW v \in Users
           PROVE  c[v] + SumFunctionOnSet(Moved(t, v), DOMAIN t) = 0
      <4>1. SumFunctionOnSet(Moved(t, v), DOMAIN t) = Moves(p, v) + SumFunctionOnSet(Moved(s, v), DOMAIN s)
        BY <3>1, <3>8, PaymentBefore
      <4>2. d[v] + SumFunctionOnSet(Moved(s, v), DOMAIN s) = 0 /\ d[v] = c[v] + Moves(p, v)
        BY <3>1, <3>7 DEF Settled
      <4>3. SumFunctionOnSet(Moved(s, v), DOMAIN s) \in Int /\ c[v] \in Int /\ Moves(p, v) \in Int
        BY <3>1, <3>8, MovedIsInt, MoveIsInt
      <4> QED
        BY <4>1, <4>2, <4>3
    <3> HIDE DEF t
    <3>11. Len(t) <= Cardinality(Unsettled(c))
      BY <3>4, <3>8, <3>9
    <3>12. Settled(t, c)
      BY <3>8, <3>9, <3>10, <3>11 DEF Settled
    <3> QED
      BY <3>2, <3>12
  <2> QED
    BY <2>1, <2>2
<1>5. Nat \subseteq Good
  <2> HIDE DEF Good
  <2> QED
    BY <1>3, <1>4, AllNumbers
<1> QED
  BY <1>5 DEF Balanced

\* splitEqually and suggestSettlements: while no account has been deleted, the payments that are
\* suggested bring everyone's balance to zero, each of them pays something, and they are fewer than
\* there are users.
THEOREM SuggestionsSettleAll == SplitSpec => []SuggestionsSettle
<1> DEFINE s == SuggestSettlements(Balances)
           Of(u, k) == (IF s[k].from = u THEN s[k].amount ELSE 0) - (IF s[k].to = u THEN s[k].amount ELSE 0)
<1>1. ASSUME MoneyInv, accounts = Users
      PROVE  /\ {k \in DOMAIN s : s[k].amount > 0} = DOMAIN s /\ Len(s) < Cardinality(Users)
             /\ \A u \in Users : Net(u) + SumFunction([k \in DOMAIN s |-> Of(u, k)]) = 0
  <2> DEFINE b == Balances
  <2>1. Balanced(b)
    <3>1. \A u \in Users : Net(u) \in Int
      BY <1>1, NetIs, GainsAreInt DEF MoneyInv, MoneyStands
    <3>2. SumFunctionOnSet(b, Users) = 0
      BY <1>1 DEF MoneyInv, MoneyStands, SumsToZero, SumFunction, Balances
    <3> QED
      BY <3>1, <3>2 DEF Balanced, Balances
  <2>2. /\ IsFiniteSet(Users) /\ Cardinality(Users) \in Nat /\ Cardinality(Users) # 0
        /\ Cardinality(Unsettled(b)) \in Nat /\ Cardinality(Unsettled(b)) <= Cardinality(Users)
    <3>1. IsFiniteSet(Users) /\ Users # {} /\ Unsettled(b) \subseteq Users
      BY SplitAssumption DEF Unsettled
    <3> QED
      BY <3>1, FS_Subset, FS_CardinalityType, FS_EmptySet
  <2>3. Settled(s, b)
    <3> DEFINE n == 2 * Cardinality(Users)
    <3>1. n \in Nat /\ Cardinality(Unsettled(b)) <= n
      BY <2>2
    <3>2. s = Settling[n][b]
      BY DEF SuggestSettlements
    <3> HIDE DEF n, s, b
    <3>3. Settled(Settling[n][b], b)
      BY <2>1, <3>1, SettlingSettles
    <3> QED
      BY <3>2, <3>3
  <2>4. \A u \in Users : b[u] = Net(u)
    BY DEF Balances
  <2>5. \A u \in Users : Moved(s, u) = [k \in DOMAIN s |-> Of(u, k)]
    BY DEF Moved, Moves
  <2> HIDE DEF s, b
  <2>6. \A k \in DOMAIN s : s[k].amount > 0
    <3> TAKE k \in DOMAIN s
    <3>1. s[k] \in Payments
      BY <2>3 DEF Settled
    <3> QED
      BY <3>1 DEF Payments
  <2>7. Len(s) < Cardinality(Users)
    <3>1. Len(s) \in Nat
      BY <2>3 DEF Settled
    <3>2. Len(s) <= Cardinality(Unsettled(b)) /\ (Unsettled(b) # {} => Len(s) < Cardinality(Unsettled(b)))
      BY <2>3 DEF Settled
    <3>3. Unsettled(b) = {} => Cardinality(Unsettled(b)) = 0
      BY FS_EmptySet
    <3> QED
      BY <2>2, <3>1, <3>2, <3>3
  <2>8. ASSUME NEW u \in Users
        PROVE  Net(u) + SumFunction([k \in DOMAIN s |-> Of(u, k)]) = 0
    <3>1. Net(u) + SumFunctionOnSet(Moved(s, u), DOMAIN s) = 0
      BY <2>3, <2>4 DEF Settled
    <3>2. DOMAIN Moved(s, u) = DOMAIN s
      BY DEF Moved
    <3>3. SumFunction(Moved(s, u)) = SumFunctionOnSet(Moved(s, u), DOMAIN s)
      BY <3>2, Zenon DEF SumFunction
    <3>4. SumFunction([k \in DOMAIN s |-> Of(u, k)]) = SumFunction(Moved(s, u))
      BY <2>5, Zenon
    <3> QED
      BY <3>1, <3>3, <3>4
  <2> QED
    BY <2>6, <2>7, <2>8
<1>2. MoneyInv => SuggestionsSettle
  BY <1>1 DEF SuggestionsSettle
<1> QED
  BY <1>2, SplitMoneyInv, PTL

-----------------------------------------------------------------------------
(* Reconciliations *)

Entry == [day : Days, amount : Postings \cup {0}, pending : BOOLEAN]
Book == [Entries -> Entry]
Reading == [day : Days, balance : Int, clean : BOOLEAN]
Recorded == [clean : BOOLEAN, posted : Int, computed : Int]
ReconciliationsTypes ==
    /\ today \in Days
    /\ bank \in Book /\ booked \in Book /\ balance \in Int
    /\ page.fetched => DOMAIN page.rows \subseteq Entries /\ \A e \in DOMAIN page.rows : page.rows[e] \in Entry
    /\ claim \in [Claimants -> Reading \cup {NoClaim}]
    /\ live \in [Days -> Recorded \cup {NoClaim}]

\* Who still believes in the balance that was read has read the sum of the transactions there are.
CleanInv == \A c \in Claimants : claim[c] # NoClaim /\ claim[c].clean => claim[c].balance = Posted(booked, Days)

PostedInv == ReconciliationsTypes /\ CleanInv /\ ReconciledIsPosted

LEMMA AmountsAreInt ==
  ASSUME NEW book \in Book, NEW e \in Entries
  PROVE  [x \in Entries |-> book[x].amount][e] \in Int
<1>1. book[e] \in Entry
  BY DEF Book
<1>2. book[e].amount \in Postings \cup {0}
  BY <1>1 DEF Entry
<1>3. Postings \cup {0} \subseteq Int
  BY ReconciliationsAssumption
<1> QED
  BY <1>2, <1>3

LEMMA PostedIsInt ==
  ASSUME NEW book \in Book, NEW S
  PROVE  Posted(book, S) \in Int
<1> DEFINE f == [e \in Entries |-> book[e].amount]
<1>1. PostedOn(book, S) \subseteq Entries
  BY DEF PostedOn
<1>2. IsFiniteSet(PostedOn(book, S))
  BY <1>1, FS_Subset, ReconciliationsAssumption
<1>3. \A e \in Entries : f[e] \in Int
  BY AmountsAreInt
<1> HIDE DEF f
<1>4. SumFunctionOnSet(f, PostedOn(book, S)) \in Int
  BY <1>1, <1>2, <1>3, SumIsInt
<1> QED
  BY <1>4 DEF Posted, f

\* What was posted is what was posted up to a day and what was posted later.
LEMMA PostedUpToAndLater ==
  ASSUME NEW book \in Book, NEW d \in Days
  PROVE  Posted(book, Days) = Posted(book, 0..d) + Posted(book, (d + 1)..MaxDay)
<1> DEFINE f == [e \in Entries |-> book[e].amount]
           A == PostedOn(book, 0..d)
           B == PostedOn(book, (d + 1)..MaxDay)
<1>1. A \subseteq Entries /\ B \subseteq Entries
  BY DEF PostedOn
<1>2. IsFiniteSet(A) /\ IsFiniteSet(B)
  BY <1>1, FS_Subset, ReconciliationsAssumption
<1>3. \A e \in Entries : f[e] \in Int
  BY AmountsAreInt
<1>4. A \cap B = {} /\ A \cup B = PostedOn(book, Days)
  <2>1. \A k \in Days : (k \in 0..d \/ k \in (d + 1)..MaxDay) /\ ~ (k \in 0..d /\ k \in (d + 1)..MaxDay)
    BY ReconciliationsAssumption DEF Days
  <2>2. 0..d \subseteq Days /\ (d + 1)..MaxDay \subseteq Days
    BY ReconciliationsAssumption DEF Days
  <2> QED
    BY <2>1, <2>2 DEF PostedOn
<1> HIDE DEF f, A, B
<1>5. SumFunctionOnSet(f, A \cup B) = SumFunctionOnSet(f, A) + SumFunctionOnSet(f, B)
  BY <1>1, <1>2, <1>3, <1>4, SumOfUnion
<1>6. SumFunctionOnSet(f, A \cup B) = SumFunctionOnSet(f, PostedOn(book, Days))
  BY <1>4, Zenon
<1> QED
  BY <1>5, <1>6 DEF Posted, f, A, B

LEMMA OvertakenIs ==
  ASSUME ReconciliationsTypes
  PROVE  /\ Overtaken \in [Claimants -> Reading \cup {NoClaim}]
         /\ \A c \in Claimants : Overtaken[c] # NoClaim => ~ Overtaken[c].clean
  BY DEF ReconciliationsTypes, Overtaken, Reading, NoClaim

\* The bank is not what claims are about; another day neither.
LEMMA BankMoves ==
  ASSUME PostedInv,
         NextDay \/ SyncFails
         \/ \E e \in Entries, amount \in Postings, pending \in BOOLEAN : BankEnters(e, amount, pending)
  PROVE  PostedInv'
<1> USE DEF PostedInv, ReconciliationsTypes
<1>1. CASE NextDay
  <2>1. today' \in Days
    BY <1>1, ReconciliationsAssumption DEF NextDay, Days
  <2> QED
    BY <1>1, <2>1 DEF NextDay, CleanInv, ReconciledIsPosted
<1>2. CASE SyncFails
  BY <1>2 DEF SyncFails, Latest, CleanInv, ReconciledIsPosted
<1>3. ASSUME NEW e \in Entries, NEW amount \in Postings, NEW pending \in BOOLEAN, BankEnters(e, amount, pending)
      PROVE  PostedInv'
  <2>1. bank' \in Book
    BY <1>3 DEF BankEnters, Book, Entry
  <2> QED
    BY <1>3, <2>1 DEF BankEnters, CleanInv, ReconciledIsPosted
<1> QED
  BY <1>1, <1>2, <1>3

\* A sync leaves no claim that believes.
LEMMA SyncWrites ==
  ASSUME PostedInv, UpsertTransactions \/ \E S \in SUBSET Entries : UpsertAccounts(S)
  PROVE  PostedInv'
<1> USE DEF PostedInv, ReconciliationsTypes
<1>1. CASE UpsertTransactions
  <2>1. booked' \in Book
    BY <1>1 DEF UpsertTransactions, Book
  <2>2. claim' = Overtaken /\ page' = Latest /\ UNCHANGED <<today, bank, balance, live>>
    BY <1>1 DEF UpsertTransactions
  <2>3. CleanInv'
    BY <2>2, OvertakenIs DEF CleanInv
  <2> QED
    BY <2>1, <2>2, <2>3, OvertakenIs DEF Latest, ReconciledIsPosted
<1>2. ASSUME NEW S \in SUBSET Entries, UpsertAccounts(S)
      PROVE  PostedInv'
  <2>1. balance' \in Int
    BY <1>2, PostedIsInt DEF UpsertAccounts
  <2>2. claim' = Overtaken /\ page' = [fetched |-> TRUE, rows |-> [e \in S |-> bank[e]]]
        /\ UNCHANGED <<today, bank, booked, live>>
    BY <1>2 DEF UpsertAccounts
  <2>3. CleanInv'
    BY <2>2, OvertakenIs DEF CleanInv
  <2>4. page'.fetched => DOMAIN page'.rows \subseteq Entries /\ \A e \in DOMAIN page'.rows : page'.rows[e] \in Entry
    BY <2>2 DEF Book
  <2> QED
    BY <2>1, <2>2, <2>3, <2>4, OvertakenIs DEF ReconciledIsPosted
<1> QED
  BY <1>1, <1>2

LEMMA ClaimMoves ==
  ASSUME PostedInv, NEW c \in Claimants, Create(c) \/ Drop(c) \/ \E d \in Days : RequireAccount(c, d)
  PROVE  PostedInv'
<1> USE DEF PostedInv, ReconciliationsTypes
<1>1. CASE Create(c)
  <2> DEFINE own == claim[c]
             made == [clean |-> own.clean, posted |-> Posted(booked, 0..own.day),
                      computed |-> BalanceAsOf(own.balance, booked, own.day)]
  <2>1. own \in Reading
    BY <1>1 DEF Create
  <2>2. live' = [live EXCEPT ![own.day] = made] /\ claim' = [claim EXCEPT ![c] = NoClaim]
        /\ UNCHANGED <<today, bank, balance, booked, page>>
    BY <1>1 DEF Create
  <2>3. own.day \in Days /\ own.balance \in Int /\ own.clean \in BOOLEAN
    BY <2>1 DEF Reading
  <2>4. Posted(booked, 0..own.day) \in Int /\ Posted(booked, (own.day + 1)..MaxDay) \in Int
    BY PostedIsInt
  <2>5. made \in Recorded
    BY <2>3, <2>4 DEF Recorded, BalanceAsOf
  <2>6. made.clean => made.computed = made.posted
    <3> SUFFICES ASSUME own.clean
                 PROVE  BalanceAsOf(own.balance, booked, own.day) = Posted(booked, 0..own.day)
      OBVIOUS
    <3>1. own.balance = Posted(booked, Days)
      BY <1>1 DEF Create, CleanInv
    <3>2. Posted(booked, Days) = Posted(booked, 0..own.day) + Posted(booked, (own.day + 1)..MaxDay)
      BY <2>3, PostedUpToAndLater
    <3> QED
      BY <2>4, <3>1, <3>2 DEF BalanceAsOf
  <2> HIDE DEF made, own
  <2>7. ReconciledIsPosted'
    BY <2>2, <2>3, <2>6 DEF ReconciledIsPosted
  <2>8. CleanInv'
    BY <2>2 DEF CleanInv
  <2> QED
    BY <2>2, <2>3, <2>5, <2>7, <2>8
<1>2. CASE Drop(c)
  BY <1>2 DEF Drop, CleanInv, ReconciledIsPosted
<1>3. ASSUME NEW d \in Days, RequireAccount(c, d)
      PROVE  PostedInv'
  <2> DEFINE own == [day |-> d, balance |-> balance, clean |-> Agree]
  <2>1. claim' = [claim EXCEPT ![c] = own] /\ UNCHANGED <<today, bank, balance, booked, page, live>>
    BY <1>3 DEF RequireAccount
  <2>2. own \in Reading
    BY DEF Reading, Agree
  <2>3. own.clean => own.balance = Posted(booked, Days)
    BY DEF Agree
  <2> HIDE DEF own
  <2>4. CleanInv'
    BY <2>1, <2>3 DEF CleanInv
  <2> QED
    BY <2>1, <2>2, <2>4 DEF ReconciledIsPosted
<1> QED
  BY <1>1, <1>2, <1>3

LEMMA PostedStep ==
  ASSUME PostedInv, [ReconciliationsNext]_reconciliationsVars
  PROVE  PostedInv'
<1>1. CASE \E e \in Entries, amount \in Postings, pending \in BOOLEAN : BankEnters(e, amount, pending)
  BY <1>1, BankMoves
<1>2. CASE NextDay \/ SyncFails
  BY <1>2, BankMoves
<1>3. CASE UpsertTransactions \/ \E S \in SUBSET Entries : UpsertAccounts(S)
  BY <1>3, SyncWrites
<1>4. ASSUME NEW c \in Claimants, Create(c) \/ Drop(c) \/ \E d \in Days : RequireAccount(c, d)
      PROVE  PostedInv'
  BY <1>4, ClaimMoves
<1>5. ASSUME NEW d \in Days, ArchiveClaim(d)
      PROVE  PostedInv'
  BY <1>5 DEF ArchiveClaim, PostedInv, ReconciliationsTypes, CleanInv, ReconciledIsPosted
<1>6. CASE UNCHANGED reconciliationsVars
  BY <1>6 DEF reconciliationsVars, PostedInv, ReconciliationsTypes, CleanInv, ReconciledIsPosted
<1> QED
  BY <1>1, <1>2, <1>3, <1>4, <1>5, <1>6 DEF ReconciliationsNext

LEMMA PostedInitially ==
  ASSUME ReconciliationsInit
  PROVE  PostedInv
<1> USE DEF ReconciliationsInit
<1>1. Missing \in Entry /\ 0 \in Days
  BY ReconciliationsAssumption DEF Missing, Entry, Days
<1>2. ReconciliationsTypes
  BY <1>1 DEF ReconciliationsTypes, Book, Latest
<1>3. CleanInv /\ ReconciledIsPosted
  BY DEF CleanInv, ReconciledIsPosted
<1> QED
  BY <1>2, <1>3 DEF PostedInv

\* balance.ts: whatever the bank posts, and however a sync and the claims interleave, what a claim is
\* compared with is what had been posted up to its day, unless a sync came between its two readings.
THEOREM ReconciledClaimsArePosted == ReconciliationsSpec => []ReconciledIsPosted
<1>1. ReconciliationsInit => PostedInv
  BY PostedInitially
<1>2. PostedInv /\ [ReconciliationsNext]_reconciliationsVars => PostedInv'
  BY PostedStep
<1>3. PostedInv => ReconciledIsPosted
  BY DEF PostedInv
<1> QED
  BY <1>1, <1>2, <1>3, PTL DEF ReconciliationsSpec

=============================================================================
