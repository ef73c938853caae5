-------------------------------- MODULE Sums --------------------------------
(***************************************************************************)
(* Facts about SumFunctionOnSet(F, S), the sum of F[x] over a finite set S *)
(* that the book and the accounts are stated with.  It is defined by       *)
(* recursion over the subsets of S, so each fact is an induction over the  *)
(* number of elements.  An induction is done here with the least element   *)
(* of the set of counterexamples, which needs no operator parameter.  The  *)
(* same for functions over an interval of integers, the extremes of a set  *)
(* of integers, and the comprehension of Lists.                            *)
(***************************************************************************)
EXTENDS Integers, FiniteSets, Functions, Lists, FiniteSetTheorems, SequenceTheorems,
        WellFoundedInduction, TLAPS

(* A set that holds 0 and, with every number, its successor, holds them all. *)
LEMMA SetInduction ==
    ASSUME NEW T, 0 \in T, \A n \in Nat : n \in T => n + 1 \in T
    PROVE  Nat \subseteq T
<1> DEFINE S == Nat \ T
           R == OpToRel(<, Nat)
<1>1. SUFFICES ASSUME S # {} PROVE FALSE
  OBVIOUS
<1>2. IsWellFoundedOn(R, Nat)
  BY NatLessThanWellFounded
<1>3. S \subseteq Nat
  OBVIOUS
<1> HIDE DEF S
<1>4. PICK m \in S : \A y \in S : ~ (<<y, m>> \in R)
  BY <1>1, <1>2, <1>3, WFMin
<1>5. m # 0 /\ m \in Nat
  BY <1>3 DEF S
<1>6. m - 1 \in Nat /\ m - 1 < m /\ m - 1 \in S
  BY <1>5 DEF S
<1>7. <<m - 1, m>> \in R
  BY <1>5, <1>6 DEF OpToRel
<1> QED
  BY <1>4, <1>6, <1>7

-----------------------------------------------------------------------------
(* The recursion, and the one function that follows it. *)

First(s) == CHOOSE x \in s : TRUE
Rest(s) == s \ {First(s)}
Small(U, n) == {s \in SUBSET U : IsFiniteSet(s) /\ Cardinality(s) <= n}
Follows(F, D, f) == f = [s \in D |-> IF s = {} THEN 0 ELSE F[First(s)] + f[Rest(s)]]

LEMMA RestIsSmaller ==
    ASSUME NEW s, IsFiniteSet(s), s # {}
    PROVE  /\ First(s) \in s /\ s = Rest(s) \cup {First(s)} /\ First(s) \notin Rest(s)
           /\ IsFiniteSet(Rest(s)) /\ Rest(s) \subseteq s
           /\ Cardinality(s) \in Nat \ {0} /\ Cardinality(Rest(s)) = Cardinality(s) - 1
<1>1. First(s) \in s
  BY DEF First
<1>2. IsFiniteSet(Rest(s)) /\ Cardinality(Rest(s)) = Cardinality(s) - 1
  BY <1>1, FS_RemoveElement DEF Rest
<1>3. Cardinality(s) \in Nat /\ Cardinality(s) # 0
  BY FS_CardinalityType, FS_EmptySet
<1> QED
  BY <1>1, <1>2, <1>3 DEF Rest

LEMMA SmallRest ==
    ASSUME NEW U, NEW n \in Nat, NEW s \in Small(U, n + 1), s # {}
    PROVE  Rest(s) \in Small(U, n)
<1>1. IsFiniteSet(s) /\ s \subseteq U /\ Cardinality(s) <= n + 1
  BY DEF Small
<1> QED
  BY <1>1, RestIsSmaller DEF Small

LEMMA SmallNone ==
    ASSUME NEW U, NEW s \in Small(U, 0)
    PROVE  s = {}
<1>1. IsFiniteSet(s) /\ Cardinality(s) <= 0
  BY DEF Small
<1> QED
  BY <1>1, FS_CardinalityType, FS_EmptySet

LEMMA SmallAll ==
    ASSUME NEW U, IsFiniteSet(U)
    PROVE  \E n \in Nat : Small(U, n) = SUBSET U
<1>1. Cardinality(U) \in Nat
  BY FS_CardinalityType
<1>2. ASSUME NEW s \in SUBSET U
      PROVE  s \in Small(U, Cardinality(U))
  BY <1>2, FS_Subset DEF Small
<1>3. Small(U, Cardinality(U)) = SUBSET U
  BY <1>2 DEF Small
<1> QED
  BY <1>1, <1>3

LEMMA SomeFollows ==
    ASSUME NEW F, NEW U, IsFiniteSet(U)
    PROVE  \E f : Follows(F, SUBSET U, f)
<1> DEFINE T == {n \in Nat : \E f : Follows(F, Small(U, n), f)}
<1>1. 0 \in T
  <2> DEFINE f == [s \in Small(U, 0) |-> 0]
  <2>1. Follows(F, Small(U, 0), f)
    BY SmallNone DEF Follows
  <2> QED
    BY <2>1
<1>2. ASSUME NEW n \in Nat, n \in T
      PROVE  n + 1 \in T
  <2>1. PICK f : Follows(F, Small(U, n), f)
    BY <1>2
  <2> DEFINE g == [s \in Small(U, n + 1) |-> IF s = {} THEN 0 ELSE F[First(s)] + f[Rest(s)]]
  <2>2. \A s \in Small(U, n) : s \in Small(U, n + 1) /\ g[s] = f[s]
    <3>1. \A s \in Small(U, n) : s \in Small(U, n + 1)
      <4> SUFFICES ASSUME NEW s \in Small(U, n) PROVE s \in Small(U, n + 1)
        OBVIOUS
      <4>1. s \subseteq U /\ IsFiniteSet(s) /\ Cardinality(s) <= n /\ Cardinality(s) \in Nat
        BY FS_CardinalityType DEF Small
      <4> QED
        BY <4>1 DEF Small
    <3> QED
      BY <2>1, <3>1 DEF Follows
  <2>3. \A s \in Small(U, n + 1) : s # {} => g[Rest(s)] = f[Rest(s)]
    BY <2>2, SmallRest
  <2>4. Follows(F, Small(U, n + 1), g)
    BY <2>3 DEF Follows
  <2> QED
    BY <2>4
<1> HIDE DEF T
<1>3. Nat \subseteq T
  BY <1>1, <1>2, SetInduction
<1>4. PICK n \in Nat : Small(U, n) = SUBSET U
  BY SmallAll
<1>5. n \in T
  BY <1>3
<1> QED
  BY <1>4, <1>5 DEF T

(* Two that follow the rule agree wherever they sum the same numbers. *)
LEMMA FollowersAgree ==
    ASSUME NEW F, NEW G, NEW U, NEW V, NEW f, NEW g,
           Follows(F, SUBSET U, f), Follows(G, SUBSET V, g),
           NEW S, IsFiniteSet(S), S \subseteq U, S \subseteq V, \A x \in S : F[x] = G[x]
    PROVE  f[S] = g[S]
<1> DEFINE T == {n \in Nat : \A s \in Small(S, n) : f[s] = g[s]}
<1>1. 0 \in T
  BY SmallNone DEF Follows
<1>2. ASSUME NEW n \in Nat, n \in T
      PROVE  n + 1 \in T
  <2> SUFFICES ASSUME NEW s \in Small(S, n + 1) PROVE f[s] = g[s]
    OBVIOUS
  <2>1. CASE s = {}
    BY <2>1 DEF Follows
  <2>2. CASE s # {}
    <3>1. f[Rest(s)] = g[Rest(s)]
      BY <1>2, <2>2, SmallRest
    <3>2. First(s) \in s /\ s \subseteq S
      BY <2>2 DEF First, Small
    <3> QED
      BY <2>2, <3>1, <3>2 DEF Follows
  <2> QED
    BY <2>1, <2>2
<1> HIDE DEF T
<1>3. Nat \subseteq T
  BY <1>1, <1>2, SetInduction
<1> QED
  BY <1>3, SmallAll DEF T

LEMMA SumFold ==
    ASSUME NEW F, NEW S, IsFiniteSet(S)
    PROVE  \E f : Follows(F, SUBSET S, f) /\ SumFunctionOnSet(F, S) = f[S]
<1>1. SumFunctionOnSet(F, S) = (CHOOSE f : Follows(F, SUBSET S, f))[S]
  BY DEF SumFunctionOnSet, FoldFunctionOnSet, MapThenFoldSet, Follows, First, Rest
<1> QED
  BY <1>1, SomeFollows

-----------------------------------------------------------------------------
(* What the proofs cite. *)

(* The sum looks at no number but those it adds. *)
LEMMA SumCongruence ==
    ASSUME NEW F, NEW G, NEW S, IsFiniteSet(S), \A x \in S : F[x] = G[x]
    PROVE  SumFunctionOnSet(F, S) = SumFunctionOnSet(G, S)
<1>1. PICK f : Follows(F, SUBSET S, f) /\ SumFunctionOnSet(F, S) = f[S]
  BY SumFold
<1>2. PICK g : Follows(G, SUBSET S, g) /\ SumFunctionOnSet(G, S) = g[S]
  BY SumFold
<1> QED
  BY <1>1, <1>2, FollowersAgree

LEMMA SumEmpty ==
    ASSUME NEW F
    PROVE  SumFunctionOnSet(F, {}) = 0
<1>1. PICK f : Follows(F, SUBSET {}, f) /\ SumFunctionOnSet(F, {}) = f[{}]
  BY SumFold, FS_EmptySet
<1> QED
  BY <1>1 DEF Follows

LEMMA SumFirst ==
    ASSUME NEW F, NEW S, IsFiniteSet(S), S # {}
    PROVE  SumFunctionOnSet(F, S) = F[First(S)] + SumFunctionOnSet(F, Rest(S))
<1>1. PICK f : Follows(F, SUBSET S, f) /\ SumFunctionOnSet(F, S) = f[S]
  BY SumFold
<1>2. IsFiniteSet(Rest(S)) /\ Rest(S) \subseteq S
  BY RestIsSmaller
<1>3. PICK g : Follows(F, SUBSET Rest(S), g) /\ SumFunctionOnSet(F, Rest(S)) = g[Rest(S)]
  BY <1>2, SumFold
<1>4. f[Rest(S)] = g[Rest(S)]
  BY <1>1, <1>2, <1>3, FollowersAgree, SMTT(30)
<1>5. S \in SUBSET S /\ f[S] = F[First(S)] + f[Rest(S)]
  BY <1>1 DEF Follows
<1> QED
  BY <1>1, <1>3, <1>4, <1>5

(* A sum of integers is an integer, and of naturals a natural. *)
LEMMA SumType ==
    ASSUME NEW F, NEW S, IsFiniteSet(S),
           NEW D, D = Int \/ D = Nat, \A x \in S : F[x] \in D
    PROVE  SumFunctionOnSet(F, S) \in D
<1> DEFINE T == {n \in Nat : \A s \in Small(S, n) : SumFunctionOnSet(F, s) \in D}
<1>1. 0 \in T
  BY SmallNone, SumEmpty
<1>2. ASSUME NEW n \in Nat, n \in T
      PROVE  n + 1 \in T
  <2> SUFFICES ASSUME NEW s \in Small(S, n + 1) PROVE SumFunctionOnSet(F, s) \in D
    OBVIOUS
  <2>1. CASE s = {}
    BY <2>1, SumEmpty
  <2>2. CASE s # {}
    <3>1. SumFunctionOnSet(F, Rest(s)) \in D
      BY <1>2, <2>2, SmallRest
    <3>2. First(s) \in s /\ s \subseteq S /\ IsFiniteSet(s)
      BY <2>2 DEF First, Small
    <3>3. SumFunctionOnSet(F, s) = F[First(s)] + SumFunctionOnSet(F, Rest(s))
      BY <2>2, <3>2, SumFirst
    <3> QED
      BY <3>1, <3>2, <3>3
  <2> QED
    BY <2>1, <2>2
<1> HIDE DEF T
<1>3. Nat \subseteq T
  BY <1>1, <1>2, SetInduction
<1> QED
  BY <1>3, SmallAll DEF T

(* The order of the additions does not matter: one more element adds its number. *)
LEMMA SumAdd ==
    ASSUME NEW F, NEW S, IsFiniteSet(S), NEW x, x \notin S,
           \A y \in S \cup {x} : F[y] \in Int
    PROVE  SumFunctionOnSet(F, S \cup {x}) = F[x] + SumFunctionOnSet(F, S)
<1> DEFINE U == S \cup {x}
           Adds(s, y) == SumFunctionOnSet(F, s \cup {y}) = F[y] + SumFunctionOnSet(F, s)
           T == {n \in Nat : \A s \in Small(U, n) : \A y \in U \ s : Adds(s, y)}
<1>0. \A s \in SUBSET U : IsFiniteSet(s) => SumFunctionOnSet(F, s) \in Int
  BY SumType
<1>1. ASSUME NEW s \in SUBSET U, IsFiniteSet(s), NEW y \in U \ s, First(s \cup {y}) = y
      PROVE  Adds(s, y)
  <2>1. Rest(s \cup {y}) = s
    BY <1>1 DEF Rest
  <2>2. IsFiniteSet(s \cup {y})
    BY <1>1, FS_AddElement
  <2> QED
    BY <1>1, <2>1, <2>2, SumFirst
<1>2. 0 \in T
  <2> SUFFICES ASSUME NEW s \in Small(U, 0), NEW y \in U \ s PROVE Adds(s, y)
    OBVIOUS
  <2>1. s = {} /\ IsFiniteSet(s)
    BY SmallNone, FS_EmptySet
  <2> QED
    BY <1>1, <2>1 DEF First
<1>3. ASSUME NEW n \in Nat, n \in T
      PROVE  n + 1 \in T
  <2> SUFFICES ASSUME NEW s \in Small(U, n + 1), NEW y \in U \ s PROVE Adds(s, y)
    <3>1. n + 1 \in Nat
      OBVIOUS
    <3> HIDE DEF Adds
    <3> QED
      BY <3>1
  <2>1. s \in SUBSET U /\ IsFiniteSet(s) /\ Cardinality(s) <= n + 1
    BY DEF Small
  <2>2. CASE First(s \cup {y}) = y
    BY <1>1, <2>1, <2>2
  <2>3. CASE First(s \cup {y}) # y
    <3>1. PICK z : z = First(s \cup {y})
      OBVIOUS
    <3>2. z \in s /\ z # y /\ IsFiniteSet(s \cup {y})
      BY <2>1, <2>3, <3>1, FS_AddElement DEF First
    <3>3. PICK r : r = s \ {z}
      OBVIOUS
    <3>4. r \in Small(U, n) /\ y \in U \ r /\ z \in U \ r /\ s = r \cup {z}
      <4>1. IsFiniteSet(r) /\ Cardinality(r) = Cardinality(s) - 1 /\ Cardinality(s) \in Nat
        BY <2>1, <3>2, <3>3, FS_RemoveElement, FS_CardinalityType
      <4> QED
        BY <2>1, <3>2, <3>3, <4>1 DEF Small
    <3>5. Adds(r, y) /\ Adds(r, z)
      BY <1>3, <3>4
    <3>6. SumFunctionOnSet(F, s \cup {y}) = F[z] + SumFunctionOnSet(F, r \cup {y})
      <4>1. Rest(s \cup {y}) = r \cup {y}
        BY <3>1, <3>2, <3>3 DEF Rest
      <4> QED
        BY <3>1, <3>2, <4>1, SumFirst
    <3>7. F[y] \in Int /\ F[z] \in Int /\ SumFunctionOnSet(F, r) \in Int
      BY <1>0, <3>4 DEF Small
    <3> QED
      BY <3>4, <3>5, <3>6, <3>7
  <2> QED
    BY <2>2, <2>3
<1> HIDE DEF T
<1>4. Nat \subseteq T
  BY <1>2, <1>3, SetInduction
<1>5. PICK n \in Nat : Small(S, n) = SUBSET S
  BY SmallAll
<1>6. S \in Small(U, n)
  BY <1>5 DEF Small
<1> QED
  BY <1>4, <1>6 DEF T

LEMMA SumSingleton ==
    ASSUME NEW F, NEW x, F[x] \in Int
    PROVE  SumFunctionOnSet(F, {x}) = F[x]
<1>1. SumFunctionOnSet(F, {} \cup {x}) = F[x] + SumFunctionOnSet(F, {})
  BY FS_EmptySet, SumAdd
<1> QED
  BY <1>1, SumEmpty
-----------------------------------------------------------------------------
(* Intervals and functions that are recursive over them. *)

(* What holds of the first number of an interval and, with a number, of the
   next one holds of all. *)
LEMMA IntervalInduction ==
    ASSUME NEW lo \in Int, NEW hi \in Int, NEW T, lo \in T,
           \A i \in (lo + 1)..hi : i - 1 \in T => i \in T
    PROVE  lo..hi \subseteq T
<1> DEFINE D == {k \in Nat : lo + k <= hi => lo + k \in T}
<1>1. 0 \in D
  OBVIOUS
<1>2. ASSUME NEW k \in Nat, k \in D
      PROVE  k + 1 \in D
  <2> SUFFICES ASSUME lo + (k + 1) <= hi PROVE lo + (k + 1) \in T
    OBVIOUS
  <2>1. lo + k \in T
    BY <1>2
  <2>2. lo + (k + 1) \in (lo + 1)..hi /\ (lo + (k + 1)) - 1 = lo + k
    OBVIOUS
  <2> QED
    BY <2>1, <2>2
<1> HIDE DEF D
<1>3. Nat \subseteq D
  BY <1>1, <1>2, SetInduction
<1>4. ASSUME NEW i \in lo..hi
      PROVE  i \in T
  <2>1. i - lo \in Nat /\ lo + (i - lo) = i /\ i <= hi
    BY <1>4
  <2>2. i - lo \in D
    BY <1>3, <2>1
  <2> QED
    BY <2>1, <2>2 DEF D
<1> QED
  BY <1>4

(* A step G on values of V, repeated from v: the values it comes by. *)
Repeats(f, v, G, lo, hi) ==
    f = [i \in lo..hi |-> IF i = lo THEN v ELSE G[<<i, f[i - 1]>>]]

LEMMA SomeRepeats ==
    ASSUME NEW V, NEW v \in V, NEW lo \in Int, NEW hi \in Int,
           NEW G, \A i \in (lo + 1)..hi, u \in V : G[<<i, u>>] \in V
    PROVE  \E f \in [lo..hi -> V] : Repeats(f, v, G, lo, hi)
<1> DEFINE T == {h \in Int : \E f \in [lo..h -> V] : Repeats(f, v, G, lo, h)}
<1>1. CASE hi < lo
  <2>1. lo..hi = {}
    BY <1>1
  <2> DEFINE f == [i \in lo..hi |-> v]
  <2>2. f \in [lo..hi -> V] /\ Repeats(f, v, G, lo, hi)
    BY <2>1 DEF Repeats
  <2> QED
    BY <2>2
<1>2. CASE lo <= hi
  <2>1. lo \in T
    <3> DEFINE f == [i \in lo..lo |-> v]
    <3>1. f \in [lo..lo -> V] /\ Repeats(f, v, G, lo, lo)
      BY DEF Repeats
    <3> QED
      BY <3>1
  <2>2. ASSUME NEW h \in (lo + 1)..hi, h - 1 \in T
        PROVE  h \in T
    <3>1. PICK f \in [lo..(h - 1) -> V] : Repeats(f, v, G, lo, h - 1)
      BY <2>2
    <3> DEFINE g == [i \in lo..h |-> IF i = h THEN G[<<h, f[h - 1]>>] ELSE f[i]]
    <3>2. f[h - 1] \in V
      BY <3>1, <2>2
    <3>3. g \in [lo..h -> V]
      BY <3>1, <3>2, <2>2
    <3>4. \A i \in lo..(h - 1) : g[i] = f[i]
      BY <2>2
    <3>5. g[h] = G[<<h, g[h - 1]>>] /\ h # lo
      <4>1. h \in lo..h /\ h - 1 \in lo..(h - 1) /\ h # lo
        BY <2>2
      <4>2. g[h] = G[<<h, f[h - 1]>>]
        BY <4>1
      <4>3. g[h - 1] = f[h - 1]
        BY <3>4, <4>1
      <4> QED
        BY <4>1, <4>2, <4>3
    <3>6. \A i \in lo..(h - 1) : f[i] = IF i = lo THEN v ELSE G[<<i, f[i - 1]>>]
      BY <3>1 DEF Repeats
    <3> HIDE DEF g
    <3>7. \A i \in lo..h : g[i] = IF i = lo THEN v ELSE G[<<i, g[i - 1]>>]
      <4> SUFFICES ASSUME NEW i \in lo..h PROVE g[i] = IF i = lo THEN v ELSE G[<<i, g[i - 1]>>]
        OBVIOUS
      <4>1. CASE i = h
        BY <3>5, <4>1
      <4>2. CASE i # h
        <5>1. i \in lo..(h - 1) /\ (i # lo => i - 1 \in lo..(h - 1))
          BY <2>2, <4>2
        <5> QED
          BY <3>4, <3>6, <5>1
      <4> QED
        BY <4>1, <4>2
    <3>8. g = [i \in lo..h |-> g[i]]
      BY <3>3
    <3>9. Repeats(g, v, G, lo, h)
      BY <3>7, <3>8, Zenon DEF Repeats
    <3> QED
      BY <3>3, <3>9, <2>2
  <2> HIDE DEF T
  <2>3. lo..hi \subseteq T
    BY <2>1, <2>2, IntervalInduction
  <2>4. hi \in T
    BY <1>2, <2>3
  <2> QED
    BY <2>4 DEF T
<1> QED
  BY <1>1, <1>2

-----------------------------------------------------------------------------
(* The extremes of a finite set of integers. *)

LEMMA SomeExtremes ==
    ASSUME NEW S, S \subseteq Int, IsFiniteSet(S), S # {}
    PROVE  /\ \E x \in S : \A y \in S : x >= y
           /\ \E x \in S : \A y \in S : x <= y
<1> DEFINE Bounded(s) == /\ \E x \in s : \A y \in s : x >= y
                         /\ \E x \in s : \A y \in s : x <= y
           T == {k \in Nat : \A s \in SUBSET S :
                    IsFiniteSet(s) /\ s # {} /\ Cardinality(s) <= k => Bounded(s)}
<1>1. 0 \in T
  BY FS_EmptySet, FS_CardinalityType
<1>2. ASSUME NEW k \in Nat, k \in T
      PROVE  k + 1 \in T
  <2> SUFFICES ASSUME NEW s \in SUBSET S, IsFiniteSet(s), s # {}, Cardinality(s) <= k + 1
               PROVE  Bounded(s)
    OBVIOUS
  <2>1. PICK x \in s : TRUE
    OBVIOUS
  <2> DEFINE rest == s \ {x}
  <2>2. IsFiniteSet(rest) /\ Cardinality(rest) = Cardinality(s) - 1 /\ Cardinality(s) \in Nat
    BY FS_RemoveElement, FS_CardinalityType
  <2>3. CASE rest = {}
    <3>1. s = {x} /\ x \in Int
      BY <2>1, <2>3
    <3> QED
      BY <3>1
  <2>4. CASE rest # {}
    <3>1. Bounded(rest)
      <4>1. rest \in SUBSET S /\ IsFiniteSet(rest) /\ rest # {}
        BY <2>2, <2>4
      <4>2. Cardinality(rest) <= k
        BY <2>2
      <4> HIDE DEF rest, Bounded
      <4> QED
        BY <1>2, <4>1, <4>2
    <3>2. PICK hi \in rest : \A y \in rest : hi >= y
      BY <3>1
    <3>3. PICK lo \in rest : \A y \in rest : lo <= y
      BY <3>1
    <3>4. x \in Int /\ hi \in Int /\ lo \in Int /\ \A y \in s : y = x \/ y \in rest
      OBVIOUS
    <3>5. \E u \in s : \A y \in s : u >= y
      <4>1. CASE x >= hi
        <5>1. \A y \in s : y \in Int /\ x >= y
          BY <3>2, <3>4, <4>1
        <5> QED
          BY <2>1, <5>1
      <4>2. CASE ~ (x >= hi)
        <5>1. \A y \in s : hi >= y
          BY <3>2, <3>4, <4>2
        <5> QED
          BY <5>1
      <4> QED
        BY <4>1, <4>2
    <3>6. \E u \in s : \A y \in s : u <= y
      <4>1. CASE x <= lo
        <5>1. \A y \in s : y \in Int /\ x <= y
          BY <3>3, <3>4, <4>1
        <5> QED
          BY <2>1, <5>1
      <4>2. CASE ~ (x <= lo)
        <5>1. \A y \in s : lo <= y
          BY <3>3, <3>4, <4>2
        <5> QED
          BY <5>1
      <4> QED
        BY <4>1, <4>2
    <3> QED
      BY <3>5, <3>6
  <2> QED
    BY <2>3, <2>4
<1> HIDE DEF T
<1>3. Nat \subseteq T
  BY <1>1, <1>2, SetInduction
<1>4. Cardinality(S) \in Nat
  BY FS_CardinalityType
<1> QED
  BY <1>3, <1>4 DEF T

-----------------------------------------------------------------------------
(* Comprehensions. *)

(* The comprehension as the states of a function of the place it has come to. *)
Sifted(s, I, n, f) ==
    f = [i \in 0..n |-> IF i = 0 THEN <<>> ELSE IF i \in I THEN Append(f[i - 1], s[i]) ELSE f[i - 1]]

LEMMA SomeSifted ==
    ASSUME NEW s, NEW I, NEW n \in Nat
    PROVE  \E f : Sifted(s, I, n, f)
<1> DEFINE T == {k \in Nat : \E f : Sifted(s, I, k, f)}
<1>1. 0 \in T
  <2> DEFINE f == [k \in 0..0 |-> <<>>]
  <2>1. Sifted(s, I, 0, f)
    BY DEF Sifted
  <2> QED
    BY <2>1
<1>2. ASSUME NEW k \in Nat, k \in T
      PROVE  k + 1 \in T
  <2>1. PICK f : Sifted(s, I, k, f)
    BY <1>2
  <2> DEFINE next == IF k + 1 \in I THEN Append(f[k], s[k + 1]) ELSE f[k]
             g == [j \in 0..(k + 1) |-> IF j = k + 1 THEN next ELSE f[j]]
  <2>2. \A j \in 0..k : g[j] = f[j]
    OBVIOUS
  <2>3. \A j \in 0..k : f[j] = IF j = 0 THEN <<>> ELSE IF j \in I THEN Append(f[j - 1], s[j]) ELSE f[j - 1]
    BY <2>1 DEF Sifted
  <2>4. ASSUME NEW j \in 0..(k + 1)
        PROVE  g[j] = IF j = 0 THEN <<>> ELSE IF j \in I THEN Append(g[j - 1], s[j]) ELSE g[j - 1]
    <3>1. CASE j = k + 1
      <4>1. j # 0 /\ j - 1 = k /\ k \in 0..k /\ g[j] = next
        BY <3>1
      <4> QED
        BY <2>2, <3>1, <4>1
    <3>2. CASE j # k + 1
      <4>1. j \in 0..k /\ (j # 0 => j - 1 \in 0..k)
        BY <3>2
      <4> HIDE DEF g
      <4> QED
        BY <2>2, <2>3, <4>1
    <3> QED
      BY <3>1, <3>2
  <2>5. g = [j \in 0..(k + 1) |-> g[j]]
    OBVIOUS
  <2> HIDE DEF g
  <2>6. Sifted(s, I, k + 1, g)
    BY <2>4, <2>5, Zenon DEF Sifted
  <2> QED
    BY <2>6
<1> QED
  BY <1>1, <1>2, SetInduction

(* What is sifted out of a sequence is what stands at the places, and only that. *)
LEMMA SiftHolds ==
    ASSUME NEW S, NEW s \in Seq(S), NEW I, NEW V, I \subseteq DOMAIN s, \A i \in I : s[i] \in V
    PROVE  Sift(s, I) \in Seq(V)
<1>1. Len(s) \in Nat /\ DOMAIN s = 1..Len(s)
  BY LenProperties
<1>2. PICK f : Sifted(s, I, Len(s), f) /\ Sift(s, I) = f[Len(s)]
  <2>1. Sift(s, I) = (CHOOSE f : Sifted(s, I, Len(s), f))[Len(s)]
    BY DEF Sift, Sifted
  <2> QED
    BY <1>1, <2>1, SomeSifted
<1>3. \A i \in 0..Len(s) : f[i] = IF i = 0 THEN <<>> ELSE IF i \in I THEN Append(f[i - 1], s[i]) ELSE f[i - 1]
  BY <1>2 DEF Sifted
<1> DEFINE T == {k \in Nat : k <= Len(s) => f[k] \in Seq(V)}
<1>4. 0 \in T
  <2>1. f[0] = <<>>
    BY <1>1, <1>3
  <2> QED
    BY <2>1, EmptySeq
<1>5. ASSUME NEW k \in Nat, k \in T
      PROVE  k + 1 \in T
  <2> SUFFICES ASSUME k + 1 <= Len(s) PROVE f[k + 1] \in Seq(V)
    OBVIOUS
  <2>1. f[k] \in Seq(V)
    BY <1>1, <1>5
  <2>2. f[k + 1] = IF k + 1 \in I THEN Append(f[k], s[k + 1]) ELSE f[k]
    BY <1>1, <1>3
  <2> QED
    BY <2>1, <2>2, AppendProperties
<1> HIDE DEF T
<1>6. Len(s) \in T
  BY <1>1, <1>4, <1>5, SetInduction
<1> QED
  BY <1>1, <1>2, <1>6 DEF T

LEMMA SiftNothing ==
    ASSUME NEW S, NEW s \in Seq(S)
    PROVE  Sift(s, {}) = <<>>
<1>1. Sift(s, {}) \in Seq({})
  BY SiftHolds
<1>2. PICK n : n = Len(Sift(s, {}))
  OBVIOUS
<1>3. n = 0
  BY <1>1, <1>2, LenProperties, ElementOfSeq
<1> QED
  BY <1>1, <1>2, <1>3, EmptySeq
=============================================================================
