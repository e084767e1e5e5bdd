--------------------------- MODULE DataInduction ---------------------------
(***************************************************************************)
(* Induction over finite data, for the proofs of the other modules: over a *)
(* finite set one element at a time, over the recursive functions that the *)
(* folds are made of, and what follows for the sums that the modules take. *)
(* What is proved by induction is given as a set, where the library's      *)
(* theorems take an operator.                                              *)
(***************************************************************************)
EXTENDS Integers, Sequences, FiniteSetsExt, FiniteSetTheorems, TLAPS

\* A set of sets that has a set as soon as it has that set without any one of
\* its elements has every finite set.
LEMMA FiniteShrink ==
  ASSUME NEW S, IsFiniteSet(S), NEW G,
         \A T \in SUBSET S : (\A x \in T : T \ {x} \in G) => T \in G
  PROVE  S \in G
<1> SUFFICES ASSUME S \notin G PROVE FALSE
  OBVIOUS
<1> DEFINE B == {T \in SUBSET S : T \notin G}
<1>1. B \subseteq FiniteSubsetsOf(S) /\ S \in B
  BY FS_FiniteSubsetsOfFinite
<1>2. \E T \in B : \A U \in B : ~ (<<U, T>> \in StrictSubsetOrdering(S))
  BY <1>1, FS_StrictSubsetOrderingWellFounded, WFMin
<1>3. PICK T \in B : \A U \in B : ~ (U \subseteq T /\ U # T)
  BY <1>2 DEF StrictSubsetOrdering
<1>4. \A x \in T : T \ {x} \in G
  BY <1>3
<1> QED
  BY <1>3, <1>4

\* The same with one element added.
LEMMA FiniteGrow ==
  ASSUME NEW S, IsFiniteSet(S), NEW G, {} \in G,
         \A T \in SUBSET S, x \in S : T \in G /\ x \notin T => T \cup {x} \in G
  PROVE  S \in G
<1>1. ASSUME NEW T \in SUBSET S, \A x \in T : T \ {x} \in G PROVE T \in G
  <2>1. CASE T = {}
    BY <2>1
  <2>2. CASE T # {}
    <3>1. PICK x \in T : TRUE
      BY <2>2
    <3>2. T = (T \ {x}) \cup {x}
      BY <3>1
    <3> QED
      BY <1>1, <3>1, <3>2
  <2> QED
    BY <2>1, <2>2
<1> QED
  BY <1>1, FiniteShrink, Zenon

\* A set with 0 that has n + 1 whenever it has n has every natural number.
LEMMA NatGrow ==
  ASSUME NEW G, 0 \in G, \A n \in Nat : n \in G => n + 1 \in G
  PROVE  Nat \subseteq G
<1> SUFFICES ASSUME NEW n \in Nat PROVE n \in G
  OBVIOUS
<1> DEFINE H == {T \in SUBSET (1 .. n) : Cardinality(T) \in G}
<1>1. IsFiniteSet(1 .. n) /\ Cardinality(1 .. n) = n
  BY FS_Interval
<1>2. {} \in H
  BY FS_EmptySet
<1>3. ASSUME NEW T \in SUBSET (1 .. n), NEW x \in 1 .. n, T \in H, x \notin T
      PROVE  T \cup {x} \in H
  <2>1. IsFiniteSet(T) /\ Cardinality(T) \in Nat
    BY <1>1, FS_Subset, FS_CardinalityType
  <2>2. Cardinality(T \cup {x}) = Cardinality(T) + 1
    BY <1>3, <2>1, FS_AddElement
  <2> QED
    BY <1>3, <2>1, <2>2
<1>4. 1 .. n \in H
  <2> HIDE DEF H
  <2> QED
    BY <1>1, <1>2, <1>3, FiniteGrow
<1> QED
  BY <1>1, <1>4

\* A finite set of numbers that is not empty has a greatest one.
LEMMA MaxElement ==
  ASSUME NEW S \in SUBSET Int, IsFiniteSet(S), S # {}
  PROVE  Max(S) \in S /\ \A y \in S : Max(S) >= y
<1> DEFINE HasMax(T) == \E x \in T : \A y \in T : x >= y
           G == {T \in SUBSET S : T # {} => HasMax(T)}
<1>1. {} \in G
  OBVIOUS
<1>2. ASSUME NEW T \in SUBSET S, NEW x \in S, T \in G, x \notin T PROVE T \cup {x} \in G
  <2>1. CASE T = {}
    <3>1. T \cup {x} = {x} /\ x >= x
      BY <2>1
    <3>. QED
      BY <3>1
  <2>2. CASE T # {}
    <3>1. PICK m \in T : \A y \in T : m >= y
      BY <1>2, <2>2
    <3>2. CASE x >= m
      <4>1. \A y \in T \cup {x} : x >= y
        BY <3>1, <3>2
      <4>. QED
        BY <4>1
    <3>3. CASE ~(x >= m)
      <4>1. \A y \in T \cup {x} : m >= y
        BY <3>1, <3>3
      <4>. QED
        BY <3>1, <4>1
    <3>. QED
      BY <3>2, <3>3
  <2>. QED
    BY <2>1, <2>2
<1>3. S \in G
  <2> HIDE DEF G
  <2>. QED
    BY <1>1, <1>2, FiniteGrow, Zenon
<1>. QED
  BY <1>3 DEF Max

-----------------------------------------------------------------------------

\* g takes a set apart: base for the empty set, and h for the element that pick
\* takes first and the value of the rest.
Recurses(g, S, base, h, pick) ==
  \A T \in SUBSET S : g[T] = IF T = {} THEN base ELSE h[<<pick[T], g[T \ {pick[T]}]>>]

\* There is a function defined by recursion over the subsets of a finite set,
\* whatever element is taken first.
LEMMA FiniteRecursion ==
  ASSUME NEW S, IsFiniteSet(S), NEW V, NEW base \in V, NEW h \in [S \X V -> V],
         NEW pick, \A T \in SUBSET S : T # {} => pick[T] \in T
  PROVE  \E g \in [SUBSET S -> V] : Recurses(g, S, base, h, pick)
<1> DEFINE Small(n) == {T \in SUBSET S : Cardinality(T) <= n}
           Good(g, n) ==
             \A T \in Small(n) : g[T] = IF T = {} THEN base ELSE h[<<pick[T], g[T \ {pick[T]}]>>]
           G == {n \in Nat : \E g \in [SUBSET S -> V] : Good(g, n)}
<1>1. \A T \in SUBSET S : IsFiniteSet(T) /\ Cardinality(T) \in Nat
  BY FS_Subset, FS_CardinalityType
<1>2. 0 \in G
  <2> DEFINE g == [T \in SUBSET S |-> base]
  <2>1. \A T \in Small(0) : T = {}
    BY <1>1, FS_EmptySet
  <2>2. g \in [SUBSET S -> V] /\ Good(g, 0)
    BY <2>1
  <2> QED
    BY <2>2
<1>3. ASSUME NEW n \in Nat, n \in G PROVE n + 1 \in G
  <2>1. PICK g \in [SUBSET S -> V] : Good(g, n)
    BY <1>3
  <2> DEFINE new == [T \in SUBSET S |->
                       IF T = {} THEN base ELSE h[<<pick[T], g[T \ {pick[T]}]>>]]
  <2>2. new \in [SUBSET S -> V]
    OBVIOUS
  <2>3. \A T \in Small(n) : new[T] = g[T]
    BY <2>1
  <2>4. ASSUME NEW T \in Small(n + 1), T # {} PROVE T \ {pick[T]} \in Small(n)
    BY <1>1, <2>4, FS_RemoveElement
  <2>5. Good(new, n + 1)
    BY <2>3, <2>4
  <2> HIDE DEF new, Good
  <2> QED
    BY <2>2, <2>5
<1>4. Cardinality(S) \in G
  <2> HIDE DEF G
  <2>1. Nat \subseteq G
    BY <1>2, <1>3, NatGrow, Zenon
  <2> QED
    BY <1>1, <2>1
<1>5. Small(Cardinality(S)) = SUBSET S
  BY <1>1, FS_Subset
<1> QED
  BY <1>4, <1>5 DEF Recurses

-----------------------------------------------------------------------------
(* Sums: SumFunctionOnSet(f, S) of the community modules.                  *)

\* What a sum takes first from a set.
Pick(S) == CHOOSE x \in S : TRUE

\* A sum is an integer, and takes its elements one by one.
LEMMA SumRecursion ==
  ASSUME NEW S, IsFiniteSet(S), NEW f, \A x \in S : f[x] \in Int
  PROVE  \E g \in [SUBSET S -> Int] :
           /\ g = [T \in SUBSET S |-> IF T = {} THEN 0 ELSE f[Pick(T)] + g[T \ {Pick(T)}]]
           /\ g[S] = SumFunctionOnSet(f, S)
<1> DEFINE h == [p \in S \X Int |-> f[p[1]] + p[2]]
           pick == [T \in SUBSET S |-> Pick(T)]
           Body(g) == [T \in SUBSET S |-> IF T = {} THEN 0 ELSE f[Pick(T)] + g[T \ {Pick(T)}]]
<1>1. h \in [S \X Int -> Int] /\ \A T \in SUBSET S : T # {} => pick[T] \in T
  BY DEF Pick
<1>2. PICK g \in [SUBSET S -> Int] :
        \A T \in SUBSET S : g[T] = IF T = {} THEN 0 ELSE h[<<pick[T], g[T \ {pick[T]}]>>]
  <2>1. 0 \in Int
    OBVIOUS
  <2> HIDE DEF h, pick
  <2>2. PICK g \in [SUBSET S -> Int] : Recurses(g, S, 0, h, pick)
    BY <1>1, <2>1, FiniteRecursion
  <2> QED
    BY <2>2 DEF Recurses
<1>3. ASSUME NEW T \in SUBSET S, T # {}
      PROVE  g[T] = f[Pick(T)] + g[T \ {Pick(T)}]
  <2>1. Pick(T) \in S /\ g[T \ {Pick(T)}] \in Int
    BY <1>1, <1>2, <1>3
  <2> QED
    BY <1>2, <1>3, <2>1
<1>4. g = Body(g)
  BY <1>2, <1>3
<1> DEFINE c == CHOOSE k : k = Body(k)
<1>5. c = Body(c)
  <2> HIDE DEF Body
  <2> QED
    BY <1>4
<1>6. SumFunctionOnSet(f, S) = c[S]
  BY DEF SumFunctionOnSet, FoldFunctionOnSet, MapThenFoldSet, Pick
<1>7. \A T \in SUBSET S : c[T] = g[T]
  <2> DEFINE G == {T \in SUBSET S : c[T] = g[T]}
  <2>1. ASSUME NEW T \in SUBSET S, \A x \in T : T \ {x} \in G PROVE T \in G
    <3>1. c[T] = IF T = {} THEN 0 ELSE f[Pick(T)] + c[T \ {Pick(T)}]
      <4> HIDE DEF c
      <4> QED
        BY <1>5
    <3> HIDE DEF c, Body
    <3>2. CASE T = {}
      BY <3>1, <3>2, <1>2
    <3>3. CASE T # {}
      <4>1. Pick(T) \in T
        BY <3>3 DEF Pick
      <4>2. c[T \ {Pick(T)}] = g[T \ {Pick(T)}]
        BY <2>1, <4>1
      <4> QED
        BY <3>1, <3>3, <4>2, <1>3
    <3> QED
      BY <3>2, <3>3
  <2>2. ASSUME NEW T \in SUBSET S PROVE T \in G
    <3>1. IsFiniteSet(T)
      BY FS_Subset
    <3> HIDE DEF G
    <3> QED
      BY <2>1, <3>1, FiniteShrink, Zenon
  <2> QED
    BY <2>2
<1> HIDE DEF c
<1>8. c \in [SUBSET S -> Int]
  BY <1>2, <1>5, <1>7
<1> QED
  BY <1>5, <1>6, <1>8

\* A sum over no index is 0; any other is the value at Pick and the rest.
LEMMA SumTaken ==
  ASSUME NEW S, IsFiniteSet(S), NEW f, \A x \in S : f[x] \in Int
  PROVE  /\ SumFunctionOnSet(f, S) \in Int
         /\ S = {} => SumFunctionOnSet(f, S) = 0
         /\ S # {} => SumFunctionOnSet(f, S) = f[Pick(S)] + SumFunctionOnSet(f, S \ {Pick(S)})
<1>1. PICK g \in [SUBSET S -> Int] :
        /\ g = [T \in SUBSET S |-> IF T = {} THEN 0 ELSE f[Pick(T)] + g[T \ {Pick(T)}]]
        /\ g[S] = SumFunctionOnSet(f, S)
  BY SumRecursion
<1>2. \A T \in SUBSET S : g[T] = IF T = {} THEN 0 ELSE f[Pick(T)] + g[T \ {Pick(T)}]
  BY <1>1
<1>3. CASE S = {}
  BY <1>1, <1>2, <1>3
<1>4. CASE S # {}
  <2> DEFINE R == S \ {Pick(S)}
  <2>1. IsFiniteSet(R) /\ R \in SUBSET S /\ \A x \in R : f[x] \in Int
    BY FS_Subset
  <2>2. PICK k \in [SUBSET R -> Int] :
          /\ k = [T \in SUBSET R |-> IF T = {} THEN 0 ELSE f[Pick(T)] + k[T \ {Pick(T)}]]
          /\ k[R] = SumFunctionOnSet(f, R)
    <3> HIDE DEF R
    <3> QED
      BY <2>1, SumRecursion
  <2>3. \A T \in SUBSET R : k[T] = IF T = {} THEN 0 ELSE f[Pick(T)] + k[T \ {Pick(T)}]
    BY <2>2
  <2> DEFINE G == {T \in SUBSET R : g[T] = k[T]}
  <2>4. ASSUME NEW T \in SUBSET R, \A x \in T : T \ {x} \in G PROVE T \in G
    <3>1. T # {} => Pick(T) \in T
      BY DEF Pick
    <3> QED
      BY <1>2, <2>1, <2>3, <2>4, <3>1
  <2>5. R \in G
    <3> HIDE DEF G, R
    <3> QED
      BY <2>1, <2>4, FiniteShrink, Zenon
  <2>6. g[S] = f[Pick(S)] + g[R]
    BY <1>2, <1>4
  <2> QED
    BY <1>1, <1>4, <2>2, <2>5, <2>6
<1> QED
  BY <1>3, <1>4

\* The order in which a sum takes its indices does not matter.
LEMMA SumStep ==
  ASSUME NEW S, IsFiniteSet(S), NEW f, \A x \in S : f[x] \in Int, NEW x \in S
  PROVE  SumFunctionOnSet(f, S) = f[x] + SumFunctionOnSet(f, S \ {x})
<1> DEFINE Sum(T) == SumFunctionOnSet(f, T)
           G == {T \in SUBSET S : \A y \in T : Sum(T) = f[y] + Sum(T \ {y})}
<1>1. ASSUME NEW T \in SUBSET S
      PROVE  Sum(T) \in Int /\ (T # {} => Pick(T) \in T /\ Sum(T) = f[Pick(T)] + Sum(T \ {Pick(T)}))
  <2>1. IsFiniteSet(T) /\ \A y \in T : f[y] \in Int
    BY FS_Subset
  <2> QED
    BY <2>1, SumTaken DEF Pick
<1> HIDE DEF Sum
<1>2. ASSUME NEW T \in SUBSET S, \A y \in T : T \ {y} \in G PROVE T \in G
  <2>1. ASSUME NEW y \in T PROVE Sum(T) = f[y] + Sum(T \ {y})
    <3> DEFINE p == Pick(T)
    <3>1. p \in T /\ Sum(T) = f[p] + Sum(T \ {p})
      BY <1>1
    <3>2. CASE y = p
      BY <3>1, <3>2
    <3>3. CASE y # p
      <4>1. Sum(T \ {p}) = f[y] + Sum((T \ {p}) \ {y})
        BY <1>2, <3>1, <3>3
      <4>2. Sum(T \ {y}) = f[p] + Sum((T \ {y}) \ {p})
        BY <1>2, <3>1, <3>3
      <4>3. (T \ {p}) \ {y} = (T \ {y}) \ {p}
        OBVIOUS
      <4>4. Sum((T \ {p}) \ {y}) \in Int /\ f[p] \in Int /\ f[y] \in Int
        BY <1>1, <3>1
      <4>5. \A a, b, c \in Int : a + (b + c) = b + (a + c)
        OBVIOUS
      <4> HIDE DEF p
      <4>6. f[p] + (f[y] + Sum((T \ {p}) \ {y})) = f[y] + (f[p] + Sum((T \ {p}) \ {y}))
        BY <4>4, <4>5
      <4> QED
        BY <3>1, <4>1, <4>2, <4>3, <4>6, Zenon
    <3> QED
      BY <3>2, <3>3
  <2> QED
    BY <2>1
<1>3. S \in G
  <2> HIDE DEF G
  <2> QED
    BY <1>2, FiniteShrink, Zenon
<1> QED
  BY <1>3 DEF Sum

\* A sum over one more index.
LEMMA SumAddIndex ==
  ASSUME NEW S, IsFiniteSet(S), NEW x, x \notin S, NEW f, \A y \in S \cup {x} : f[y] \in Int
  PROVE  SumFunctionOnSet(f, S \cup {x}) = f[x] + SumFunctionOnSet(f, S)
<1>1. IsFiniteSet(S \cup {x})
  BY FS_AddElement
<1>2. (S \cup {x}) \ {x} = S
  OBVIOUS
<1>3. SumFunctionOnSet(f, S \cup {x}) = f[x] + SumFunctionOnSet(f, (S \cup {x}) \ {x})
  BY <1>1, SumStep
<1> QED
  BY <1>2, <1>3

\* Functions that agree on the indices have the same sum.
LEMMA SumSame ==
  ASSUME NEW S, IsFiniteSet(S), NEW f, NEW g, \A x \in S : f[x] \in Int /\ f[x] = g[x]
  PROVE  SumFunctionOnSet(f, S) = SumFunctionOnSet(g, S)
<1> DEFINE G == {T \in SUBSET S : SumFunctionOnSet(f, T) = SumFunctionOnSet(g, T)}
<1>1. ASSUME NEW T \in SUBSET S, \A x \in T : T \ {x} \in G PROVE T \in G
  <2>1. IsFiniteSet(T) /\ \A x \in T : f[x] \in Int /\ g[x] \in Int /\ f[x] = g[x]
    BY FS_Subset
  <2>2. T # {} => Pick(T) \in T
    BY DEF Pick
  <2>3. /\ T = {} => SumFunctionOnSet(f, T) = 0
        /\ T # {} => SumFunctionOnSet(f, T) = f[Pick(T)] + SumFunctionOnSet(f, T \ {Pick(T)})
    BY <2>1, SumTaken
  <2>4. /\ T = {} => SumFunctionOnSet(g, T) = 0
        /\ T # {} => SumFunctionOnSet(g, T) = g[Pick(T)] + SumFunctionOnSet(g, T \ {Pick(T)})
    BY <2>1, SumTaken
  <2> QED
    BY <1>1, <2>1, <2>2, <2>3, <2>4
<1>2. S \in G
  <2> HIDE DEF G
  <2> QED
    BY <1>1, FiniteShrink, Zenon
<1> QED
  BY <1>2

\* The sum over two disjoint sets of indices.
LEMMA SumUnion ==
  ASSUME NEW S, IsFiniteSet(S), NEW U, IsFiniteSet(U), S \cap U = {},
         NEW f, \A x \in S \cup U : f[x] \in Int
  PROVE  SumFunctionOnSet(f, S \cup U) = SumFunctionOnSet(f, S) + SumFunctionOnSet(f, U)
<1> DEFINE Sum(T) == SumFunctionOnSet(f, T)
           G == {T \in SUBSET S : Sum(T \cup U) = Sum(T) + Sum(U)}
<1>1. ASSUME NEW T \in SUBSET S PROVE IsFiniteSet(T) /\ IsFiniteSet(T \cup U)
  BY FS_Subset, FS_Union
<1>2. \A T \in SUBSET S : Sum(T) \in Int
  BY <1>1, SumTaken
<1>3. Sum(U) \in Int /\ Sum({}) = 0
  BY FS_EmptySet, SumTaken
<1>4. {} \in G
  BY <1>3
<1>5. ASSUME NEW T \in SUBSET S, NEW x \in S, T \in G, x \notin T PROVE T \cup {x} \in G
  <2>1. Sum(T \cup {x}) = f[x] + Sum(T)
    BY <1>1, <1>5, SumAddIndex
  <2>2. Sum((T \cup U) \cup {x}) = f[x] + Sum(T \cup U)
    BY <1>1, <1>5, SumAddIndex
  <2>3. (T \cup {x}) \cup U = (T \cup U) \cup {x}
    OBVIOUS
  <2> HIDE DEF Sum
  <2> QED
    BY <1>2, <1>3, <1>5, <2>1, <2>2, <2>3
<1>6. S \in G
  <2> HIDE DEF G
  <2> QED
    BY <1>4, <1>5, FiniteGrow, Zenon
<1> QED
  BY <1>6

\* The sum of a sum.
LEMMA SumPlus ==
  ASSUME NEW S, IsFiniteSet(S), NEW f, NEW g, NEW h,
         \A x \in S : f[x] \in Int /\ g[x] \in Int /\ h[x] = f[x] + g[x]
  PROVE  SumFunctionOnSet(h, S) = SumFunctionOnSet(f, S) + SumFunctionOnSet(g, S)
<1> DEFINE G == {T \in SUBSET S :
                   SumFunctionOnSet(h, T) = SumFunctionOnSet(f, T) + SumFunctionOnSet(g, T)}
<1>1. ASSUME NEW T \in SUBSET S
      PROVE  /\ IsFiniteSet(T)
             /\ SumFunctionOnSet(f, T) \in Int
             /\ SumFunctionOnSet(g, T) \in Int
             /\ T = {} => /\ SumFunctionOnSet(f, T) = 0 /\ SumFunctionOnSet(g, T) = 0
                          /\ SumFunctionOnSet(h, T) = 0
  BY FS_Subset, SumTaken
<1>2. {} \in G
  BY <1>1
<1>3. ASSUME NEW T \in SUBSET S, NEW x \in S, T \in G, x \notin T PROVE T \cup {x} \in G
  <2>1. /\ SumFunctionOnSet(f, T \cup {x}) = f[x] + SumFunctionOnSet(f, T)
        /\ SumFunctionOnSet(g, T \cup {x}) = g[x] + SumFunctionOnSet(g, T)
        /\ SumFunctionOnSet(h, T \cup {x}) = h[x] + SumFunctionOnSet(h, T)
    <3>1. \A y \in T \cup {x} : f[y] \in Int /\ g[y] \in Int /\ h[y] \in Int
      OBVIOUS
    <3> QED
      BY <1>1, <1>3, <3>1, SumAddIndex
  <2> QED
    BY <1>1, <1>3, <2>1
<1>4. S \in G
  <2> HIDE DEF G
  <2> QED
    BY <1>2, <1>3, FiniteGrow, Zenon
<1> QED
  BY <1>4

-----------------------------------------------------------------------------
(* Finite sets put in order.                                               *)

\* A sequence that shows no element of a finite set twice, and is as long as the
\* set is large, shows every element.
LEMMA ShowsAll ==
  ASSUME NEW S, IsFiniteSet(S), NEW s \in [1 .. Cardinality(S) -> S],
         \A i, j \in 1 .. Cardinality(S) : i # j => s[i] # s[j]
  PROVE  \A x \in S : \E i \in 1 .. Cardinality(S) : s[i] = x
<1>1. s \in Injection(1 .. Cardinality(S), S)
  BY DEF Injection, IsInjective
<1>2. Cardinality(S) \in Nat /\ Cardinality(1 .. Cardinality(S)) = Cardinality(S)
  BY FS_CardinalityType, FS_Interval
<1>3. s \in Surjection(1 .. Cardinality(S), S)
  BY <1>1, <1>2, FS_Injection
<1> QED
  BY <1>3 DEF Surjection

\* s shows the elements of T once each, in the order of their keys.
InOrder(s, T, key) ==
  /\ s \in [1 .. Cardinality(T) -> T]
  /\ \A i, j \in 1 .. Cardinality(T) : i # j => s[i] # s[j]
  /\ \A i, j \in 1 .. Cardinality(T) : i < j => key[s[i]] <= key[s[j]]

\* One of the elements of a finite set has the greatest key.
LEMMA GreatestKey ==
  ASSUME NEW T, IsFiniteSet(T), T # {}, NEW key, \A x \in T : key[x] \in Int
  PROVE  \E x \in T : \A y \in T : key[y] <= key[x]
<1> DEFINE f == [x \in T |-> key[x]]
           K == {key[x] : x \in T}
<1>1. f \in Surjection(T, K)
  BY DEF Surjection
<1>2. IsFiniteSet(K) /\ K # {} /\ K \in SUBSET Int
  BY <1>1, FS_Surjection
<1>3. Max(K) \in K /\ \A y \in K : Max(K) >= y
  BY <1>2, MaxElement
<1>4. PICK x \in T : key[x] = Max(K)
  BY <1>3
<1>5. \A y \in T : key[y] \in K
  OBVIOUS
<1> QED
  BY <1>3, <1>4, <1>5

\* A finite set can be put in the order of its keys.
LEMMA Sorting ==
  ASSUME NEW S, IsFiniteSet(S), NEW key, \A x \in S : key[x] \in Int
  PROVE  \E s : InOrder(s, S, key)
<1> DEFINE G == {T \in SUBSET S : \E s : InOrder(s, T, key)}
<1>1. ASSUME NEW T \in SUBSET S, \A x \in T : T \ {x} \in G PROVE T \in G
  <2>0. IsFiniteSet(T) /\ Cardinality(T) \in Nat
    BY FS_Subset, FS_CardinalityType
  <2>1. CASE T = {}
    <3>1. Cardinality(T) = 0
      BY <2>1, FS_EmptySet
    <3>2. InOrder(<<>>, T, key)
      BY <3>1 DEF InOrder
    <3> QED
      BY <3>2
  <2>2. CASE T # {}
    <3>1. PICK x \in T : \A y \in T : key[y] <= key[x]
      BY <2>0, <2>2, GreatestKey
    <3>2. PICK s : InOrder(s, T \ {x}, key)
      BY <1>1
    <3> DEFINE n == Cardinality(T)
               new == [i \in 1 .. n |-> IF i = n THEN x ELSE s[i]]
    <3>3. n \in Nat /\ n >= 1 /\ Cardinality(T \ {x}) = n - 1
      BY <2>0, <2>2, FS_RemoveElement, FS_EmptySet
    <3>4. ASSUME NEW i \in 1 .. n, i # n PROVE i \in 1 .. n - 1 /\ s[i] \in T \ {x}
      <4>1. i \in 1 .. n - 1
        BY <3>3, <3>4
      <4>2. i \in 1 .. Cardinality(T \ {x})
        BY <3>3, <4>1, Zenon
      <4> HIDE DEF n
      <4> QED
        BY <3>2, <4>1, <4>2 DEF InOrder
    <3>5. new \in [1 .. n -> T]
      BY <3>4
    <3>6. \A i, j \in 1 .. n : i # j => new[i] # new[j]
      BY <3>2, <3>3, <3>4 DEF InOrder
    <3>7. \A i, j \in 1 .. n : i < j => key[new[i]] <= key[new[j]]
      <4> SUFFICES ASSUME NEW i \in 1 .. n, NEW j \in 1 .. n, i < j PROVE key[new[i]] <= key[new[j]]
        OBVIOUS
      <4>1. i # n
        BY <3>3
      <4>2. CASE j = n
        BY <3>1, <3>4, <4>1, <4>2
      <4>3. CASE j # n
        BY <3>2, <3>3, <3>4, <4>1, <4>3 DEF InOrder
      <4> QED
        BY <4>2, <4>3
    <3>8. InOrder(new, T, key)
      BY <3>5, <3>6, <3>7 DEF InOrder
    <3> HIDE DEF new
    <3> QED
      BY <3>8
  <2> QED
    BY <2>1, <2>2
<1>2. S \in G
  <2> HIDE DEF G
  <2> QED
    BY <1>1, FiniteShrink, Zenon
<1> QED
  BY <1>2

\* What the first n positions show has at most n elements.
LEMMA Before ==
  ASSUME NEW n \in Nat, NEW s, NEW M, \A x \in M : \E i \in 1 .. n : s[i] = x
  PROVE  IsFiniteSet(M) /\ Cardinality(M) <= n /\ Cardinality(M) \in Nat
<1> DEFINE K == {s[i] : i \in 1 .. n}
           f == [i \in 1 .. n |-> s[i]]
<1>1. f \in Surjection(1 .. n, K)
  BY DEF Surjection
<1>2. IsFiniteSet(1 .. n) /\ Cardinality(1 .. n) = n
  BY FS_Interval
<1>3. IsFiniteSet(K) /\ Cardinality(K) <= n /\ Cardinality(K) \in Nat
  BY <1>1, <1>2, FS_Surjection, FS_CardinalityType
<1>4. IsFiniteSet(M) /\ Cardinality(M) <= Cardinality(K) /\ Cardinality(M) \in Nat
  <2>1. M \in SUBSET K
    OBVIOUS
  <2> HIDE DEF K
  <2> QED
    BY <1>3, <2>1, FS_Subset, FS_CardinalityType
<1> QED
  BY <1>3, <1>4

-----------------------------------------------------------------------------
(* Pages of a sequence.                                                    *)

\* The quotient and the remainder of a natural number.
LEMMA Division ==
  ASSUME NEW n \in Nat, NEW l \in Nat \ {0}
  PROVE  /\ n \div l \in Nat
         /\ (n \div l) * l \in Nat
         /\ (n \div l) * l <= n
         /\ n < (n \div l) * l + l
<1>1. n = l * (n \div l) + (n % l) /\ n \div l \in Int /\ n % l \in 0 .. l - 1
  OBVIOUS
<1>2. n \div l >= 0
  BY <1>1, Z3
<1> QED
  BY <1>1, <1>2, Z3

\* Multiples are ordered as what they are multiples of.
LEMMA Multiples ==
  ASSUME NEW a \in Nat, NEW b \in Nat, NEW l \in Nat \ {0}
  PROVE  /\ a * l \in Nat /\ b * l \in Nat
         /\ a < b => a * l + l <= b * l
         /\ a <= b => a * l <= b * l
<1>1. ASSUME a < b PROVE a * l + l <= b * l
  <2>1. PICK d \in Nat : b = a + 1 + d
    <3>1. b - a - 1 \in Nat /\ b = a + 1 + (b - a - 1)
      BY <1>1
    <3> QED
      BY <3>1
  <2>2. b * l = a * l + l + d * l /\ d * l \in Nat
    BY <2>1, Z3
  <2> QED
    BY <2>2
<1>2. a * l \in Nat /\ b * l \in Nat
  BY Z3
<1> QED
  BY <1>1, <1>2

\* The smaller of two numbers.
LEMMA MinOfTwo ==
  ASSUME NEW a \in Int, NEW b \in Int
  PROVE  Min({a, b}) = IF a <= b THEN a ELSE b
<1> DEFINE lower == IF a <= b THEN a ELSE b
<1>1. lower \in {a, b} /\ \A y \in {a, b} : lower <= y
  OBVIOUS
<1>2. \A x \in {a, b} : (\A y \in {a, b} : x <= y) => x = lower
  OBVIOUS
<1> HIDE DEF lower
<1>3. Min({a, b}) = lower
  BY <1>1, <1>2 DEF Min
<1> QED
  BY <1>3 DEF lower

\* The greater of two numbers.
LEMMA MaxOfTwo ==
  ASSUME NEW a \in Int, NEW b \in Int
  PROVE  Max({a, b}) = IF a >= b THEN a ELSE b
<1> DEFINE upper == IF a >= b THEN a ELSE b
<1>1. upper \in {a, b} /\ \A y \in {a, b} : upper >= y
  OBVIOUS
<1>2. \A x \in {a, b} : (\A y \in {a, b} : x >= y) => x = upper
  OBVIOUS
<1> HIDE DEF upper
<1>3. Max({a, b}) = upper
  BY <1>1, <1>2 DEF Max
<1> QED
  BY <1>3 DEF upper

\* What skip and limit leave of a sequence.
PageOf(s, from, limit) == SubSeq(s, from + 1, Min({from + limit, Len(s)}))

\* page shows what comes after the first ones of s, and no more than limit.
ShowsAfter(page, s, from, limit) ==
  \A x : (\E i \in DOMAIN page : page[i] = x) <=>
         (\E i \in 1 .. Len(s) : from < i /\ i <= from + limit /\ s[i] = x)

\* skip and limit leave what comes after the first ones, and no more than limit.
LEMMA SkipAndLimit ==
  ASSUME NEW S, NEW s \in Seq(S), NEW from \in Nat, NEW limit \in Nat
  PROVE  ShowsAfter(PageOf(s, from, limit), s, from, limit)
<1> DEFINE to == Min({from + limit, Len(s)})
           p == SubSeq(s, from + 1, to)
<1>1. Len(s) \in Nat /\ to = IF from + limit <= Len(s) THEN from + limit ELSE Len(s)
  <2>1. Len(s) \in Nat
    OBVIOUS
  <2> QED
    BY <2>1, MinOfTwo
<1>2. to \in Nat /\ PageOf(s, from, limit) = p
  BY <1>1 DEF PageOf
<1> HIDE DEF to
<1>3. /\ DOMAIN p = 1 .. (to - from)
      /\ \A i \in 1 .. (to - from) : p[i] = s[from + i]
  BY <1>1, <1>2
<1> HIDE DEF p
<1>4. ASSUME NEW j \in 1 .. Len(s), from < j, j <= from + limit PROVE \E i \in DOMAIN p : p[i] = s[j]
  <2>1. j - from \in 1 .. (to - from) /\ from + (j - from) = j
    BY <1>1, <1>2, <1>4
  <2> QED
    BY <1>3, <2>1
<1>5. ASSUME NEW i \in DOMAIN p
      PROVE  \E j \in 1 .. Len(s) : from < j /\ j <= from + limit /\ s[j] = p[i]
  <2>1. i \in 1 .. (to - from)
    BY <1>3, <1>5
  <2>2. from + i \in 1 .. Len(s) /\ from + i <= from + limit /\ from < from + i
    BY <1>1, <1>2, <2>1
  <2> QED
    BY <1>3, <2>1, <2>2
<1>6. ASSUME NEW x
      PROVE  (\E i \in DOMAIN p : p[i] = x) <=>
             (\E i \in 1 .. Len(s) : from < i /\ i <= from + limit /\ s[i] = x)
  BY <1>4, <1>5
<1> QED
  BY <1>2, <1>6 DEF ShowsAfter

=============================================================================
