----------------------------- MODULE Induction ------------------------------
(***************************************************************************)
(* Induction over data for the proofs of this project: induction on finite *)
(* sets and on the natural numbers, and what follows from it for the sum   *)
(* of a function over a finite set and for sets of integers.  The property *)
(* shown by induction is given as a set P of the sets (numbers) that have  *)
(* it.                                                                     *)
(***************************************************************************)
EXTENDS Integers, FiniteSets, FiniteSetsExt, FiniteSetTheorems,
        WellFoundedInduction, TLAPS

(* A property of the empty set that one more element keeps is one of every *)
(* finite set.                                                             *)
LEMMA FiniteSetInduction ==
  ASSUME NEW S, IsFiniteSet(S), NEW P, {} \in P,
         \A T \in SUBSET S : \A x \in S \ T : T \in P => T \union {x} \in P
  PROVE  S \in P
<1> SUFFICES ASSUME S \notin P
             PROVE  FALSE
  OBVIOUS
<1> DEFINE smaller == StrictSubsetOrdering(S)
           failing == (SUBSET S) \ P
<1>1. IsWellFoundedOn(smaller, SUBSET S)
  BY FS_StrictSubsetOrderingWellFounded, FS_FiniteSubsetsOfFinite
<1>2. \A T, U \in SUBSET S : T \subseteq U /\ T # U => <<T, U>> \in smaller
  BY DEF StrictSubsetOrdering
<1> HIDE DEF smaller
<1>3. failing # {} /\ failing \subseteq SUBSET S
  OBVIOUS
<1>4. PICK T \in failing : \A U \in failing : <<U, T>> \notin smaller
  BY <1>1, <1>3, WFMin
<1>5. PICK x \in T : TRUE
  BY <1>4
<1>6. T \ {x} \in P
  BY <1>2, <1>4
<1>7. QED BY <1>4, <1>5, <1>6

(* A property of 0 that the successor keeps is one of every number: the    *)
(* numbers up to n that lack it, if any, have a least one.                 *)
LEMMA NaturalInduction ==
  ASSUME NEW P, 0 \in P, \A n \in Nat : n \in P => n + 1 \in P
  PROVE  Nat \subseteq P
<1> SUFFICES ASSUME NEW n \in Nat, n \notin P
             PROVE  FALSE
  OBVIOUS
<1> DEFINE S == 0..n
           Least == {T \in SUBSET S : T = {} \/ \E m \in T : \A k \in T : m <= k}
<1>1. IsFiniteSet(S)
  BY FS_Interval
<1>2. \A T \in SUBSET S : \A x \in S \ T : T \in Least => T \union {x} \in Least
  <2> SUFFICES ASSUME NEW T \in SUBSET S, NEW x \in S \ T, T \in Least
               PROVE  T \union {x} \in Least
    OBVIOUS
  <2>1. CASE T = {}
    BY <2>1
  <2>2. CASE T # {}
    <3>1. PICK m \in T : \A k \in T : m <= k
      BY <2>2
    <3>2. CASE m <= x
      BY <3>1, <3>2
    <3>3. CASE x <= m
      <4>1. \A k \in T : x <= k
        BY <3>1, <3>3
      <4>2. QED BY <4>1
    <3>4. QED BY <3>2, <3>3
  <2>3. QED BY <2>1, <2>2
<1>3. {} \in Least
  OBVIOUS
<1> HIDE DEF Least
<1>4. \A T \in SUBSET S : T \in Least
  <2> SUFFICES ASSUME NEW T \in SUBSET S
               PROVE  T \in Least
    OBVIOUS
  <2>1. IsFiniteSet(T)
    BY <1>1, FS_Subset
  <2>2. \A U \in SUBSET T : \A x \in T \ U : U \in Least => U \union {x} \in Least
    BY <1>2
  <2>3. QED BY <1>3, <2>1, <2>2, FiniteSetInduction
<1>5. PICK m \in S \ P : \A k \in S \ P : m <= k
  <2>1. n \in S \ P
    OBVIOUS
  <2>2. QED BY <2>1, <1>4 DEF Least
<1>6. m # 0 /\ m - 1 \in S /\ m - 1 \in Nat /\ (m - 1) + 1 = m
  BY <1>5
<1>7. m - 1 \in P
  BY <1>5, <1>6
<1>8. QED BY <1>5, <1>6, <1>7

-----------------------------------------------------------------------------
(* Sums.  MapThenSumSet adds up the elements in an order CHOOSE picks.     *)

Pick(T) == CHOOSE x \in T : TRUE

(* The recursive equation of the sums over the subsets of S.               *)
IsSum(sum, g, S) ==
  sum = [T \in SUBSET S |-> IF T = {} THEN 0 ELSE g[Pick(T)] + sum[T \ {Pick(T)}]]

SumOf(g, S) == MapThenSumSet(LAMBDA x : g[x], S)

(* The equation has a solution, built up by the size of the subsets.       *)
LEMMA SumExists ==
  ASSUME NEW S, IsFiniteSet(S), NEW g
  PROVE  \E sum : IsSum(sum, g, S)
<1> DEFINE Small(n) == {T \in SUBSET S : Cardinality(T) <= n}
           Sums(sum, n) ==
             sum = [T \in Small(n) |->
                      IF T = {} THEN 0 ELSE g[Pick(T)] + sum[T \ {Pick(T)}]]
           P == {n \in Nat : \E sum : Sums(sum, n)}
<1>1. \A T \in SUBSET S : Cardinality(T) \in Nat /\ (Cardinality(T) = 0 <=> T = {})
  BY FS_Subset, FS_CardinalityType, FS_EmptySet
<1>2. \A T \in SUBSET S : T # {} =>
        /\ Pick(T) \in T /\ T \ {Pick(T)} \in SUBSET S
        /\ Cardinality(T \ {Pick(T)}) = Cardinality(T) - 1
  <2> SUFFICES ASSUME NEW T \in SUBSET S, T # {}
               PROVE  /\ Pick(T) \in T /\ T \ {Pick(T)} \in SUBSET S
                      /\ Cardinality(T \ {Pick(T)}) = Cardinality(T) - 1
    OBVIOUS
  <2>1. Pick(T) \in T
    BY DEF Pick
  <2>2. QED BY <2>1, FS_Subset, FS_RemoveElement
<1>3. 0 \in P
  <2> DEFINE none == [T \in Small(0) |-> 0]
  <2>1. \A T \in Small(0) : T = {}
    BY <1>1
  <2>2. Sums(none, 0)
    BY <2>1
  <2>3. QED BY <2>2
<1>4. \A n \in Nat : n \in P => n + 1 \in P
  <2> SUFFICES ASSUME NEW n \in Nat, n \in P
               PROVE  n + 1 \in P
    OBVIOUS
  <2>1. PICK sum : Sums(sum, n)
    OBVIOUS
  <2> DEFINE more == [T \in Small(n + 1) |->
                        IF T = {} THEN 0 ELSE g[Pick(T)] + sum[T \ {Pick(T)}]]
  <2>2. \A T \in Small(n) : T \in Small(n + 1) /\ more[T] = sum[T]
    <3>1. \A T \in Small(n) : T \in Small(n + 1)
      BY <1>1
    <3> HIDE DEF Small
    <3>2. QED BY <2>1, <3>1
  <2>3. \A T \in Small(n + 1) : T # {} => T \ {Pick(T)} \in Small(n)
    BY <1>1, <1>2
  <2>4. \A T \in Small(n + 1) : T # {} => more[T \ {Pick(T)}] = sum[T \ {Pick(T)}]
    BY <2>2, <2>3
  <2> HIDE DEF Small
  <2>5. Sums(more, n + 1)
    BY <2>4
  <2> HIDE DEF Sums, more
  <2>6. n + 1 \in Nat /\ \E f : Sums(f, n + 1)
    BY <2>5
  <2>7. QED BY <2>6
<1>5. Cardinality(S) \in P
  <2> HIDE DEF P
  <2>1. Nat \subseteq P
    BY <1>3, <1>4, NaturalInduction
  <2>2. QED BY <1>1, <2>1
<1>6. Small(Cardinality(S)) = SUBSET S
  BY FS_Subset, FS_CardinalityType
<1>7. QED BY <1>5, <1>6 DEF IsSum

(* MapThenSumSet is a solution.                                            *)
LEMMA SumSolves ==
  ASSUME NEW S, IsFiniteSet(S), NEW g
  PROVE  \E sum : IsSum(sum, g, S) /\ SumOf(g, S) = sum[S]
<1> DEFINE sum == CHOOSE f : f = [T \in SUBSET S |-> IF T = {} THEN 0
                  ELSE g[CHOOSE x \in T : TRUE] + f[T \ {CHOOSE x \in T : TRUE}]]
<1>1. SumOf(g, S) = sum[S]
  BY DEF SumOf, MapThenSumSet, MapThenFoldSet
<1>2. \E f : f = [T \in SUBSET S |-> IF T = {} THEN 0
            ELSE g[CHOOSE x \in T : TRUE] + f[T \ {CHOOSE x \in T : TRUE}]]
  <2>1. PICK f : IsSum(f, g, S)
    BY SumExists
  <2>2. f = [T \in SUBSET S |-> IF T = {} THEN 0
               ELSE g[CHOOSE x \in T : TRUE] + f[T \ {CHOOSE x \in T : TRUE}]]
    BY <2>1 DEF IsSum, Pick
  <2>3. QED BY <2>2
<1>3. IsSum(sum, g, S)
  BY <1>2 DEF IsSum, Pick
<1>4. QED BY <1>1, <1>3

(* Whatever element is taken out, the rest adds up to the difference.      *)
LEMMA SumStep ==
  ASSUME NEW S, IsFiniteSet(S), NEW g \in [S -> Int], NEW sum, IsSum(sum, g, S)
  PROVE  /\ sum[{}] = 0
         /\ \A T \in SUBSET S : sum[T] \in Int
         /\ \A T \in SUBSET S : \A x \in T : sum[T] = g[x] + sum[T \ {x}]
<1> DEFINE Steps(T) == sum[T] \in Int /\ \A x \in T : sum[T] = g[x] + sum[T \ {x}]
           P == {n \in Nat : \A T \in SUBSET S : Cardinality(T) <= n => Steps(T)}
<1>1. /\ sum[{}] = 0
      /\ \A T \in SUBSET S : T # {} =>
           /\ sum[T] = g[Pick(T)] + sum[T \ {Pick(T)}]
           /\ Pick(T) \in T
  BY DEF IsSum, Pick
<1>2. \A T \in SUBSET S : /\ Cardinality(T) \in Nat
                          /\ Cardinality(T) = 0 <=> T = {}
                          /\ \A x \in T : Cardinality(T \ {x}) = Cardinality(T) - 1
  <2> SUFFICES ASSUME NEW T \in SUBSET S
               PROVE  /\ Cardinality(T) \in Nat
                      /\ Cardinality(T) = 0 <=> T = {}
                      /\ \A x \in T : Cardinality(T \ {x}) = Cardinality(T) - 1
    OBVIOUS
  <2>1. IsFiniteSet(T)
    BY FS_Subset
  <2>2. QED BY <2>1, FS_CardinalityType, FS_EmptySet, FS_RemoveElement
<1>3. Steps({})
  BY <1>1
<1>4. 0 \in P
  <2>1. \A T \in SUBSET S : Cardinality(T) <= 0 => T = {}
    BY <1>2
  <2> HIDE DEF Steps
  <2>2. QED BY <1>3, <2>1
<1>5. \A n \in Nat : n \in P => n + 1 \in P
  <2> SUFFICES ASSUME NEW n \in Nat, n \in P, NEW T \in SUBSET S,
                      Cardinality(T) <= n + 1, T # {}
               PROVE  Steps(T)
    <3> HIDE DEF Steps
    <3>1. QED BY <1>3
  <2> DEFINE y == Pick(T)
  <2>1. y \in T /\ sum[T] = g[y] + sum[T \ {y}]
    BY <1>1
  <2> HIDE DEF y
  <2>2. \A x \in T : Steps(T \ {x})
    <3>1. \A x \in T : T \ {x} \in SUBSET S /\ Cardinality(T \ {x}) <= n
      BY <1>2
    <3> HIDE DEF Steps
    <3>2. QED BY <3>1
  <2>3. ASSUME NEW x \in T
        PROVE  sum[T] = g[x] + sum[T \ {x}]
    <3>1. CASE x = y
      BY <2>1, <3>1
    <3>2. CASE x # y
      <4> DEFINE both == (T \ {x}) \ {y}
      <4>1. Steps(both)
        <5>1. both \in SUBSET S /\ Cardinality(T \ {x}) <= n
              /\ Cardinality(both) = Cardinality(T \ {x}) - 1
              /\ Cardinality(T \ {x}) \in Nat
          BY <1>2, <2>1, <3>2
        <5>2. Cardinality(both) <= n
          BY <5>1
        <5> HIDE DEF Steps, both
        <5>3. QED BY <5>1, <5>2
      <4>2. sum[T \ {y}] = g[x] + sum[both]
        <5>1. x \in T \ {y} /\ (T \ {y}) \ {x} = both
          BY <3>2
        <5>2. Steps(T \ {y})
          BY <2>1, <2>2
        <5> HIDE DEF both
        <5>3. QED BY <5>1, <5>2
      <4>3. sum[T \ {x}] = g[y] + sum[both]
        <5>1. y \in T \ {x}
          BY <2>1, <3>2
        <5>2. Steps(T \ {x})
          BY <2>2
        <5>3. QED BY <5>1, <5>2
      <4>4. g[x] \in Int /\ g[y] \in Int /\ sum[both] \in Int
        BY <2>1, <4>1
      <4> HIDE DEF both
      <4>5. QED BY <2>1, <4>2, <4>3, <4>4
    <3>3. QED BY <3>1, <3>2
  <2>4. sum[T] \in Int
    <3>1. sum[T \ {y}] \in Int /\ g[y] \in Int
      BY <2>1, <2>2
    <3>2. QED BY <2>1, <3>1
  <2>5. QED BY <2>3, <2>4
<1>6. Nat \subseteq P
  <2> HIDE DEF P
  <2>1. QED BY <1>4, <1>5, NaturalInduction
<1>7. \A T \in SUBSET S : Steps(T)
  <2> SUFFICES ASSUME NEW T \in SUBSET S
               PROVE  Steps(T)
    OBVIOUS
  <2>1. Cardinality(T) \in Nat /\ Cardinality(T) <= Cardinality(T)
    BY <1>2
  <2> HIDE DEF Steps
  <2>2. QED BY <1>6, <2>1
<1>8. QED BY <1>1, <1>7

(* A sum of numbers is a number, and a larger function has a larger sum.   *)
LEMMA SumMonotone ==
  ASSUME NEW S, IsFiniteSet(S), NEW g \in [S -> Int], NEW h \in [S -> Int],
         \A x \in S : g[x] <= h[x]
  PROVE  SumOf(g, S) \in Int /\ SumOf(h, S) \in Int /\ SumOf(g, S) <= SumOf(h, S)
<1>1. PICK sg : IsSum(sg, g, S) /\ SumOf(g, S) = sg[S]
  BY SumSolves
<1>2. PICK sh : IsSum(sh, h, S) /\ SumOf(h, S) = sh[S]
  BY SumSolves
<1>3. /\ sg[{}] = 0 /\ sh[{}] = 0
      /\ \A T \in SUBSET S : sg[T] \in Int /\ sh[T] \in Int
      /\ \A T \in SUBSET S : \A x \in T : /\ sg[T] = g[x] + sg[T \ {x}]
                                         /\ sh[T] = h[x] + sh[T \ {x}]
  BY <1>1, <1>2, SumStep
<1> DEFINE P == {T \in SUBSET S : sg[T] <= sh[T]}
<1>4. \A T \in SUBSET S : \A x \in S \ T : T \in P => T \union {x} \in P
  <2> SUFFICES ASSUME NEW T \in SUBSET S, NEW x \in S \ T, T \in P
               PROVE  sg[T \union {x}] <= sh[T \union {x}]
    OBVIOUS
  <2> DEFINE U == T \union {x}
  <2>1. U \in SUBSET S /\ x \in U /\ U \ {x} = T
    OBVIOUS
  <2> HIDE DEF U
  <2>2. sg[U] = g[x] + sg[T] /\ sh[U] = h[x] + sh[T]
    BY <1>3, <2>1
  <2>3. g[x] <= h[x] /\ sg[T] <= sh[T] /\ g[x] \in Int /\ h[x] \in Int
        /\ sg[T] \in Int /\ sh[T] \in Int
    BY <1>3
  <2>4. sg[U] <= sh[U]
    BY <2>2, <2>3
  <2>5. QED BY <2>4 DEF U
<1>5. {} \in P
  BY <1>3
<1> HIDE DEF P
<1>6. S \in P
  BY <1>4, <1>5, FiniteSetInduction
<1>7. QED BY <1>1, <1>2, <1>3, <1>6 DEF P

(* Where two functions differ at one element only, their sums differ by as *)
(* much.                                                                   *)
LEMMA SumChange ==
  ASSUME NEW S, IsFiniteSet(S), NEW g \in [S -> Int], NEW h \in [S -> Int],
         NEW x \in S, \A y \in S \ {x} : g[y] = h[y]
  PROVE  SumOf(h, S) = SumOf(g, S) + h[x] - g[x]
<1>1. PICK sg : IsSum(sg, g, S) /\ SumOf(g, S) = sg[S]
  BY SumSolves
<1>2. PICK sh : IsSum(sh, h, S) /\ SumOf(h, S) = sh[S]
  BY SumSolves
<1>3. /\ sg[{}] = 0 /\ sh[{}] = 0
      /\ \A T \in SUBSET S : sg[T] \in Int /\ sh[T] \in Int
      /\ \A T \in SUBSET S : \A y \in T : /\ sg[T] = g[y] + sg[T \ {y}]
                                         /\ sh[T] = h[y] + sh[T \ {y}]
  BY <1>1, <1>2, SumStep
<1> DEFINE R == S \ {x}
           P == {T \in SUBSET S : x \in T \/ sg[T] = sh[T]}
<1>4. \A T \in SUBSET R : \A y \in R \ T : T \in P => T \union {y} \in P
  <2> SUFFICES ASSUME NEW T \in SUBSET R, NEW y \in R \ T, T \in P
               PROVE  sg[T \union {y}] = sh[T \union {y}]
    OBVIOUS
  <2> DEFINE U == T \union {y}
  <2>1. U \in SUBSET S /\ y \in U /\ U \ {y} = T
    OBVIOUS
  <2> HIDE DEF U
  <2>2. sg[U] = g[y] + sg[T] /\ sh[U] = h[y] + sh[T]
    BY <1>3, <2>1
  <2>3. g[y] = h[y] /\ sg[T] = sh[T]
    OBVIOUS
  <2>4. sg[U] = sh[U]
    BY <2>2, <2>3
  <2>5. QED BY <2>4 DEF U
<1>5. {} \in P
  BY <1>3
<1>6. IsFiniteSet(R)
  BY FS_Subset
<1> HIDE DEF P
<1>7. R \in P
  BY <1>4, <1>5, <1>6, FiniteSetInduction
<1>8. sg[R] = sh[R]
  BY <1>7 DEF P
<1>9. sg[S] = g[x] + sg[R] /\ sh[S] = h[x] + sh[R]
  BY <1>3
<1>10. sg[R] \in Int /\ g[x] \in Int /\ h[x] \in Int
  BY <1>3
<1> HIDE DEF R
<1>11. QED BY <1>1, <1>2, <1>8, <1>9, <1>10

(* A sum of zeros is zero.                                                 *)
LEMMA SumZero ==
  ASSUME NEW S, IsFiniteSet(S), NEW g \in [S -> Int], \A x \in S : g[x] = 0
  PROVE  SumOf(g, S) = 0
<1>1. PICK sg : IsSum(sg, g, S) /\ SumOf(g, S) = sg[S]
  BY SumSolves
<1>2. /\ sg[{}] = 0
      /\ \A T \in SUBSET S : \A x \in T : sg[T] = g[x] + sg[T \ {x}]
  BY <1>1, SumStep
<1> DEFINE P == {T \in SUBSET S : sg[T] = 0}
<1>3. \A T \in SUBSET S : \A x \in S \ T : T \in P => T \union {x} \in P
  <2> SUFFICES ASSUME NEW T \in SUBSET S, NEW x \in S \ T, T \in P
               PROVE  sg[T \union {x}] = 0
    OBVIOUS
  <2>1. (T \union {x}) \ {x} = T
    OBVIOUS
  <2>2. QED BY <1>2, <2>1
<1>4. {} \in P
  BY <1>2
<1> HIDE DEF P
<1>5. S \in P
  BY <1>3, <1>4, FiniteSetInduction
<1>6. QED BY <1>1, <1>5 DEF P

(* A sum of zeros and ones counts the ones.                                *)
LEMMA SumCounts ==
  ASSUME NEW S, IsFiniteSet(S), NEW g \in [S -> {0, 1}]
  PROVE  SumOf(g, S) = Cardinality({x \in S : g[x] = 1})
<1>1. PICK sg : IsSum(sg, g, S) /\ SumOf(g, S) = sg[S]
  BY SumSolves
<1>2. /\ sg[{}] = 0
      /\ \A T \in SUBSET S : \A x \in T : sg[T] = g[x] + sg[T \ {x}]
  <2>1. g \in [S -> Int]
    OBVIOUS
  <2>2. QED BY <1>1, <2>1, SumStep
<1> DEFINE Ones(T) == {x \in T : g[x] = 1}
           P == {T \in SUBSET S : sg[T] = Cardinality(Ones(T))}
<1>3. \A T \in SUBSET S : \A x \in S \ T : T \in P => T \union {x} \in P
  <2> SUFFICES ASSUME NEW T \in SUBSET S, NEW x \in S \ T, T \in P
               PROVE  sg[T \union {x}] = Cardinality(Ones(T \union {x}))
    OBVIOUS
  <2> DEFINE U == T \union {x}
  <2>1. U \in SUBSET S /\ x \in U /\ U \ {x} = T
    OBVIOUS
  <2>2. sg[U] = g[x] + sg[T]
    <3> HIDE DEF U
    <3>1. QED BY <1>2, <2>1
  <2>3. IsFiniteSet(Ones(T)) /\ Cardinality(Ones(T)) \in Nat
    <3>1. Ones(T) \subseteq S
      OBVIOUS
    <3> HIDE DEF Ones
    <3>2. QED BY <3>1, FS_Subset, FS_CardinalityType
  <2>4. CASE g[x] = 0
    <3>1. Ones(U) = Ones(T)
      BY <2>4
    <3> HIDE DEF Ones
    <3>2. sg[U] = Cardinality(Ones(U))
      <4> HIDE DEF U
      <4>1. QED BY <2>2, <2>3, <2>4, <3>1
    <3>3. QED BY <3>2
  <2>5. CASE g[x] = 1
    <3>1. Ones(U) = Ones(T) \union {x} /\ x \notin Ones(T)
      BY <2>5
    <3> HIDE DEF Ones, U
    <3>2. Cardinality(Ones(U)) = Cardinality(Ones(T)) + 1
      BY <2>3, <3>1, FS_AddElement
    <3>3. QED BY <2>2, <2>3, <2>5, <3>2 DEF U
  <2>6. QED BY <2>4, <2>5
<1>4. {} \in P
  BY <1>2, FS_EmptySet
<1> HIDE DEF P
<1>5. S \in P
  BY <1>3, <1>4, FiniteSetInduction
<1>6. QED BY <1>1, <1>5 DEF P

-----------------------------------------------------------------------------
(* Least elements, and images.                                             *)

(* A finite set of integers has a least and a last element.                *)
LEMMA LeastAndLast ==
  ASSUME NEW S \in SUBSET Int, IsFiniteSet(S), S # {}
  PROVE  /\ \E m \in S : \A k \in S : m <= k
         /\ \E m \in S : \A k \in S : k <= m
<1> DEFINE Bounded(T) == /\ \E m \in T : \A k \in T : m <= k
                         /\ \E m \in T : \A k \in T : k <= m
           P == {T \in SUBSET S : T = {} \/ Bounded(T)}
<1>1. ASSUME NEW T \in SUBSET S, NEW x \in S \ T, T \in P
      PROVE  T \union {x} \in P
  <2>1. CASE T = {}
    BY <2>1
  <2>2. CASE T # {}
    <3>1. PICK l \in T : \A k \in T : l <= k
      BY <1>1, <2>2
    <3>2. PICK m \in T : \A k \in T : k <= m
      BY <1>1, <2>2
    <3>3. \E least \in T \union {x} : \A k \in T \union {x} : least <= k
      <4>1. CASE l <= x
        BY <3>1, <4>1
      <4>2. CASE x <= l
        <5>1. \A k \in T : x <= k
          BY <3>1, <4>2
        <5>2. QED BY <5>1
      <4>3. QED BY <4>1, <4>2
    <3>4. \E last \in T \union {x} : \A k \in T \union {x} : k <= last
      <4>1. CASE x <= m
        BY <3>2, <4>1
      <4>2. CASE m <= x
        <5>1. \A k \in T : k <= x
          BY <3>2, <4>2
        <5>2. QED BY <5>1
      <4>3. QED BY <4>1, <4>2
    <3>5. QED BY <3>3, <3>4
  <2>3. QED BY <2>1, <2>2
<1>2. {} \in P
  OBVIOUS
<1> HIDE DEF P
<1>3. S \in P
  BY <1>1, <1>2, FiniteSetInduction
<1>4. QED BY <1>3 DEF P

(* What a function makes of a finite set is finite, of no more elements;   *)
(* of as many when the function is injective.                              *)
LEMMA ImageFacts ==
  ASSUME NEW D, IsFiniteSet(D), NEW f, f \in [D -> {f[x] : x \in D}]
  PROVE  LET image == {f[x] : x \in D}
         IN  /\ IsFiniteSet(image) /\ Cardinality(image) \in Nat
             /\ Cardinality(image) <= Cardinality(D)
             /\ (\A x, y \in D : f[x] = f[y] => x = y) => Cardinality(image) = Cardinality(D)
<1> DEFINE image == {f[x] : x \in D}
<1>1. f \in Surjection(D, image)
  BY DEF Surjection
<1>2. IsFiniteSet(image) /\ Cardinality(image) <= Cardinality(D)
  BY <1>1, FS_Surjection
<1>3. (\A x, y \in D : f[x] = f[y] => x = y) => f \in Injection(D, image)
  BY DEF Injection, IsInjective
<1>4. f \in Injection(D, image) => Cardinality(image) = Cardinality(D)
  BY <1>1, FS_Surjection
<1>5. QED BY <1>2, <1>3, <1>4, FS_CardinalityType
=============================================================================
