-------------------------------- MODULE Sums --------------------------------
(***************************************************************************)
(* Sums over finite sets, SumFunctionOnSet of the community modules, which *)
(* add the elements in the order in which CHOOSE picks them.  The lemmas a *)
(* proof about a total needs: the sum of no element, of one element more   *)
(* or less, of fewer elements, and of another function.                    *)
(*                                                                         *)
(* Induction is by a smallest counterexample (NatSetInduction), which      *)
(* takes a set where the library's theorems take a predicate.              *)
(***************************************************************************)
EXTENDS FiniteSetsExt, FiniteSetTheorems, TLAPS

\* Induction over the natural numbers, for a set instead of a predicate.
LEMMA NatSetInduction ==
  ASSUME NEW P, 0 \in P, \A n \in Nat : n \in P => n + 1 \in P
  PROVE  \A n \in Nat : n \in P
<1> DEFINE R == OpToRel(<, Nat)
           T == {n \in Nat : n \notin P}
<1> SUFFICES ASSUME T # {} PROVE FALSE
  OBVIOUS
<1>1. PICK m \in T : \A k \in T : <<k, m>> \notin R
  <2> HIDE DEF R, T
  <2>1. T \subseteq Nat
    BY DEF T
  <2> QED
    BY <2>1, NatLessThanWellFounded, WFMin DEF R
<1>2. \A k \in T : ~ (k < m)
  BY <1>1 DEF OpToRel
<1>3. m - 1 \in Nat /\ m - 1 \notin T
  BY <1>2
<1> QED
  BY <1>3

\* Subsets of a finite set, and how many elements are left without one.
LEMMA SubsetsFinite ==
  ASSUME NEW S, IsFiniteSet(S)
  PROVE  \A T \in SUBSET S : IsFiniteSet(T) /\ Cardinality(T) \in Nat
  BY FS_Subset, FS_CardinalityType

LEMMA OneLess ==
  ASSUME NEW S, IsFiniteSet(S), NEW y \in S
  PROVE  /\ IsFiniteSet(S \ {y}) /\ Cardinality(S) \in Nat
         /\ Cardinality(S \ {y}) = Cardinality(S) - 1
  BY FS_RemoveElement, FS_CardinalityType

Pick(s) == CHOOSE x \in s : TRUE

\* g adds up f on every set of D, one picked element after the other.
Adds(g, f, D) ==
  g = [s \in D |-> IF s = {} THEN 0 ELSE f[Pick(s)] + g[s \ {Pick(s)}]]

LEMMA PickIn ==
  ASSUME NEW s, s # {}
  PROVE  Pick(s) \in s
  BY DEF Pick

LEMMA SumDef ==
  ASSUME NEW f, NEW S
  PROVE  SumFunctionOnSet(f, S) = (CHOOSE g : Adds(g, f, SUBSET S))[S]
  BY Zenon DEF SumFunctionOnSet, FoldFunctionOnSet, MapThenFoldSet, Adds, Pick

LEMMA AddsExists ==
  ASSUME NEW f, NEW S, IsFiniteSet(S)
  PROVE  \E g : Adds(g, f, SUBSET S)
<1> DEFINE Small(n) == {s \in SUBSET S : Cardinality(s) <= n}
           P == {n \in Nat : \E g : Adds(g, f, Small(n))}
<1>0. \A s \in SUBSET S : IsFiniteSet(s) /\ Cardinality(s) \in Nat
  BY FS_Subset, FS_CardinalityType
<1>1. 0 \in P
  <2> DEFINE g == [s \in Small(0) |-> 0]
  <2>1. \A s \in Small(0) : s = {}
    BY <1>0, FS_EmptySet
  <2>2. Adds(g, f, Small(0))
    BY <2>1 DEF Adds
  <2> QED
    BY <2>2
<1>2. ASSUME NEW n \in Nat, n \in P PROVE n + 1 \in P
  <2>1. PICK g : Adds(g, f, Small(n))
    BY <1>2
  <2> DEFINE h == [s \in Small(n + 1) |-> IF s = {} THEN 0 ELSE f[Pick(s)] + g[s \ {Pick(s)}]]
  <2>2. ASSUME NEW s \in Small(n + 1), s # {}
        PROVE  s \ {Pick(s)} \in Small(n)
    <3>1. Cardinality(s \ {Pick(s)}) = Cardinality(s) - 1
      BY <1>0, <2>2, PickIn, OneLess
    <3> QED
      BY <1>0, <3>1
  <2>3. ASSUME NEW s \in Small(n) PROVE s \in Small(n + 1) /\ h[s] = g[s]
    <3>1. s \in Small(n + 1)
      BY <1>0
    <3> HIDE DEF Small
    <3> QED
      BY <2>1, <3>1 DEF Adds
  <2>4. h = [s \in Small(n + 1) |-> IF s = {} THEN 0 ELSE f[Pick(s)] + h[s \ {Pick(s)}]]
    <3> HIDE DEF Small
    <3> QED BY <2>2, <2>3
  <2>5. Adds(h, f, Small(n + 1))
    BY <2>4 DEF Adds
  <2>6. \E k : Adds(k, f, Small(n + 1))
    BY <2>5
  <2> HIDE DEF Small
  <2> QED
    BY <2>6
<1>3. Cardinality(S) \in P
  <2> HIDE DEF P
  <2> QED BY <1>0, <1>1, <1>2, NatSetInduction
<1>4. Small(Cardinality(S)) = SUBSET S
  BY <1>0, FS_Subset
<1> QED
  BY <1>3, <1>4

LEMMA AddsUnique ==
  ASSUME NEW f, NEW S, NEW T, IsFiniteSet(T), T \in SUBSET S
  PROVE  \A g, h : Adds(g, f, SUBSET S) /\ Adds(h, f, SUBSET T) => g[T] = h[T]
<1> SUFFICES ASSUME NEW g, NEW h, Adds(g, f, SUBSET S), Adds(h, f, SUBSET T)
             PROVE  g[T] = h[T]
  OBVIOUS
<1> DEFINE P == {n \in Nat : \A s \in SUBSET T : Cardinality(s) = n => g[s] = h[s]}
<1>0. \A s \in SUBSET T : IsFiniteSet(s) /\ Cardinality(s) \in Nat
  BY FS_Subset, FS_CardinalityType
<1>1. 0 \in P
  BY <1>0, FS_EmptySet DEF Adds
<1>2. ASSUME NEW n \in Nat, n \in P PROVE n + 1 \in P
  <2> SUFFICES ASSUME NEW s \in SUBSET T, Cardinality(s) = n + 1 PROVE g[s] = h[s]
    OBVIOUS
  <2>1. s # {}
    BY <1>0, FS_EmptySet
  <2>2. Cardinality(s \ {Pick(s)}) = n
    <3>1. Cardinality(s \ {Pick(s)}) = Cardinality(s) - 1
      BY <1>0, <2>1, PickIn, OneLess
    <3> QED
      BY <3>1
  <2>3. g[s \ {Pick(s)}] = h[s \ {Pick(s)}]
    BY <1>2, <2>2
  <2>4. /\ g[s] = f[Pick(s)] + g[s \ {Pick(s)}]
        /\ h[s] = f[Pick(s)] + h[s \ {Pick(s)}]
    BY <2>1 DEF Adds
  <2> QED
    BY <2>3, <2>4
<1>3. Cardinality(T) \in P
  <2> HIDE DEF P
  <2> QED BY <1>0, <1>1, <1>2, NatSetInduction
<1> QED
  BY <1>3

LEMMA SumEmpty ==
  ASSUME NEW f
  PROVE  SumFunctionOnSet(f, {}) = 0
<1> DEFINE g == CHOOSE g : Adds(g, f, SUBSET {})
<1>1. Adds(g, f, SUBSET {})
  BY AddsExists, FS_EmptySet
<1> HIDE DEF g
<1>2. g[{}] = 0
  BY <1>1 DEF Adds
<1> QED
  BY <1>2, SumDef DEF g

LEMMA SumPick ==
  ASSUME NEW f, NEW S, IsFiniteSet(S), S # {}
  PROVE  SumFunctionOnSet(f, S) = f[Pick(S)] + SumFunctionOnSet(f, S \ {Pick(S)})
<1> DEFINE R == S \ {Pick(S)}
           g == CHOOSE k : Adds(k, f, SUBSET S)
           h == CHOOSE k : Adds(k, f, SUBSET R)
<1>1. IsFiniteSet(R) /\ R \in SUBSET S
  BY FS_RemoveElement
<1>2. Adds(g, f, SUBSET S) /\ Adds(h, f, SUBSET R)
  BY <1>1, AddsExists
<1>3. SumFunctionOnSet(f, S) = g[S] /\ SumFunctionOnSet(f, R) = h[R]
  BY SumDef
<1> HIDE DEF g, h
<1>4. g[R] = h[R]
  <2> HIDE DEF R
  <2>1. \A k, l : Adds(k, f, SUBSET S) /\ Adds(l, f, SUBSET R) => k[R] = l[R]
    BY <1>1, AddsUnique
  <2> QED
    BY <1>2, <2>1
<1>5. g[S] = f[Pick(S)] + g[R]
  BY <1>2 DEF Adds
<1> QED
  BY <1>3, <1>4, <1>5

\* The order in which the elements are added does not matter.
LEMMA SumRemove ==
  ASSUME NEW S, IsFiniteSet(S), NEW f, \A x \in S : f[x] \in Nat
  PROVE  /\ SumFunctionOnSet(f, S) \in Nat
         /\ \A y \in S : SumFunctionOnSet(f, S) = f[y] + SumFunctionOnSet(f, S \ {y})
<1> DEFINE Sum(T) == SumFunctionOnSet(f, T)
           Good(T) ==
             /\ Sum(T) \in Nat
             /\ \A y \in T : Sum(T) = f[y] + Sum(T \ {y}) /\ Sum(T \ {y}) \in Nat
           P == {n \in Nat : \A T \in SUBSET S : Cardinality(T) = n => Good(T)}
<1>0. \A T \in SUBSET S : IsFiniteSet(T) /\ Cardinality(T) \in Nat
  BY FS_Subset, FS_CardinalityType
<1>1. 0 \in P
  BY <1>0, FS_EmptySet, SumEmpty
<1>2. ASSUME NEW n \in Nat, n \in P PROVE n + 1 \in P
  <2> SUFFICES ASSUME NEW T \in SUBSET S, Cardinality(T) = n + 1 PROVE Good(T)
    OBVIOUS
  <2> DEFINE c == Pick(T)
  <2>1. T # {}
    BY <1>0, FS_EmptySet
  <2>2. c \in T /\ f[c] \in Nat
    BY <2>1, PickIn
  <2>3. Sum(T) = f[c] + Sum(T \ {c})
    BY <1>0, <2>1, SumPick
  <2> HIDE DEF c
  <2>4. ASSUME NEW y \in T PROVE Cardinality(T \ {y}) = n /\ T \ {y} \in SUBSET S
    <3>1. Cardinality(T \ {y}) = Cardinality(T) - 1
      BY <1>0, OneLess
    <3> QED
      BY <3>1
  <2>5. \A y \in T : Good(T \ {y})
    BY <1>2, <2>4
  <2>6. Sum(T) \in Nat
    BY <2>2, <2>3, <2>5
  <2>7. ASSUME NEW y \in T, y # c PROVE Sum(T) = f[y] + Sum(T \ {y})
    <3>1. Sum(T \ {c}) = f[y] + Sum((T \ {c}) \ {y})
      BY <2>2, <2>5, <2>7
    <3>2. (T \ {c}) \ {y} = (T \ {y}) \ {c}
      OBVIOUS
    <3>3. Sum(T \ {y}) = f[c] + Sum((T \ {c}) \ {y})
      BY <2>2, <2>5, <2>7, <3>2
    <3>4. Sum((T \ {c}) \ {y}) \in Nat /\ f[y] \in Nat
      BY <2>2, <2>5, <2>7
    <3> HIDE DEF Sum, Good
    <3> QED
      BY <2>2, <2>3, <3>1, <3>3, <3>4
  <2> QED
    BY <2>3, <2>5, <2>6, <2>7
<1>3. Cardinality(S) \in P
  <2> HIDE DEF P
  <2> QED BY <1>0, <1>1, <1>2, NatSetInduction
<1> QED
  BY <1>3

LEMMA SumType ==
  ASSUME NEW S, IsFiniteSet(S), NEW f, \A x \in S : f[x] \in Nat
  PROVE  SumFunctionOnSet(f, S) \in Nat
  BY SumRemove

LEMMA SumAdd ==
  ASSUME NEW S, IsFiniteSet(S), NEW y, y \notin S,
         NEW f, \A x \in S \cup {y} : f[x] \in Nat
  PROVE  /\ IsFiniteSet(S \cup {y})
         /\ SumFunctionOnSet(f, S \cup {y}) = SumFunctionOnSet(f, S) + f[y]
<1> DEFINE T == S \cup {y}
<1>1. IsFiniteSet(T) /\ y \in T /\ T \ {y} = S
  BY FS_AddElement
<1>2. SumFunctionOnSet(f, S) \in Nat /\ f[y] \in Nat
  BY SumType
<1> HIDE DEF T
<1>3. \A x \in T : f[x] \in Nat
  BY DEF T
<1>4. SumFunctionOnSet(f, T) = f[y] + SumFunctionOnSet(f, T \ {y})
  BY <1>1, <1>3, SumRemove
<1> QED
  BY <1>1, <1>2, <1>4 DEF T

\* Elements that count nothing can be left out, and no sum grows by leaving
\* elements out.
LEMMA SumSubset ==
  ASSUME NEW S, IsFiniteSet(S), NEW T \in SUBSET S, NEW f, \A x \in S : f[x] \in Nat
  PROVE  /\ SumFunctionOnSet(f, T) <= SumFunctionOnSet(f, S)
         /\ (\A x \in S \ T : f[x] = 0) => SumFunctionOnSet(f, T) = SumFunctionOnSet(f, S)
<1> DEFINE Sum(U) == SumFunctionOnSet(f, U)
           Good(U) == /\ Sum(T) <= Sum(T \cup U)
                      /\ (\A x \in S \ T : f[x] = 0) => Sum(T) = Sum(T \cup U)
           P == {n \in Nat : \A U \in SUBSET (S \ T) : Cardinality(U) = n => Good(U)}
<1>0. \A U \in SUBSET S : IsFiniteSet(U) /\ Cardinality(U) \in Nat /\ Sum(U) \in Nat
  <2>1. \A U \in SUBSET S : IsFiniteSet(U) /\ Cardinality(U) \in Nat
    BY SubsetsFinite
  <2> QED
    BY <2>1, SumType
<1>1. 0 \in P
  <2> SUFFICES ASSUME NEW U \in SUBSET (S \ T), Cardinality(U) = 0 PROVE Good(U)
    OBVIOUS
  <2>1. U = {}
    BY <1>0, FS_EmptySet
  <2>2. T \cup U = T /\ Sum(T) \in Nat
    BY <1>0, <2>1
  <2> HIDE DEF Sum
  <2> QED
    BY <2>2
<1>2. ASSUME NEW n \in Nat, n \in P PROVE n + 1 \in P
  <2> SUFFICES ASSUME NEW U \in SUBSET (S \ T), Cardinality(U) = n + 1 PROVE Good(U)
    OBVIOUS
  <2>1. PICK y : y \in U
    BY <1>0, FS_EmptySet
  <2> DEFINE V == U \ {y}
  <2>2. Cardinality(V) = n
    BY <1>0, <2>1, OneLess
  <2>3. Good(V) /\ V \in SUBSET (S \ T)
    BY <1>2, <2>2
  <2>4. T \cup U = (T \cup V) \cup {y} /\ y \notin T \cup V /\ T \cup V \in SUBSET S
    BY <2>1
  <2>5. Sum((T \cup V) \cup {y}) = Sum(T \cup V) + f[y]
    <3> HIDE DEF V
    <3> QED
      BY <1>0, <2>1, <2>4, SumAdd
  <2>6. Sum(T \cup V) \in Nat /\ Sum(T) \in Nat /\ f[y] \in Nat
    BY <1>0, <2>1, <2>4
  <2>7. (\A x \in S \ T : f[x] = 0) => f[y] = 0
    BY <2>1
  <2>8. Sum(T \cup U) = Sum(T \cup V) + f[y]
    BY <2>4, <2>5
  <2> HIDE DEF Sum, V
  <2> QED
    BY <2>3, <2>6, <2>7, <2>8
<1>3. Cardinality(S \ T) \in P
  <2> HIDE DEF P
  <2> QED BY <1>0, <1>1, <1>2, NatSetInduction
<1>4. Good(S \ T)
  BY <1>3
<1>5. T \cup (S \ T) = S
  OBVIOUS
<1> QED
  BY <1>4, <1>5

\* The sum depends on the values of the function on the set only.
LEMMA SumSame ==
  ASSUME NEW S, IsFiniteSet(S), NEW f, NEW g,
         \A x \in S : f[x] \in Nat /\ g[x] = f[x]
  PROVE  SumFunctionOnSet(f, S) = SumFunctionOnSet(g, S)
<1> DEFINE P == {n \in Nat : \A T \in SUBSET S :
                   Cardinality(T) = n => SumFunctionOnSet(f, T) = SumFunctionOnSet(g, T)}
<1>0. \A T \in SUBSET S : IsFiniteSet(T) /\ Cardinality(T) \in Nat
  BY SubsetsFinite
<1>1. 0 \in P
  BY <1>0, FS_EmptySet, SumEmpty
<1>2. ASSUME NEW n \in Nat, n \in P PROVE n + 1 \in P
  <2> SUFFICES ASSUME NEW T \in SUBSET S, Cardinality(T) = n + 1
               PROVE  SumFunctionOnSet(f, T) = SumFunctionOnSet(g, T)
    OBVIOUS
  <2>1. PICK y : y \in T
    BY <1>0, FS_EmptySet
  <2>2. Cardinality(T \ {y}) = n
    BY <1>0, <2>1, OneLess
  <2>3. SumFunctionOnSet(f, T \ {y}) = SumFunctionOnSet(g, T \ {y})
    BY <1>2, <2>2
  <2>4. /\ SumFunctionOnSet(f, T) = f[y] + SumFunctionOnSet(f, T \ {y})
        /\ SumFunctionOnSet(g, T) = g[y] + SumFunctionOnSet(g, T \ {y})
    <3>1. \A x \in T : f[x] \in Nat /\ g[x] \in Nat
      OBVIOUS
    <3> QED
      BY <1>0, <2>1, <3>1, SumRemove
  <2> QED
    BY <2>1, <2>3, <2>4
<1>3. Cardinality(S) \in P
  <2> HIDE DEF P
  <2> QED BY <1>0, <1>1, <1>2, NatSetInduction
<1> QED
  BY <1>3

\* A function that differs at one element.
LEMMA SumOneChange ==
  ASSUME NEW S, IsFiniteSet(S), NEW y \in S, NEW f, NEW g,
         \A x \in S : f[x] \in Nat /\ g[x] \in Nat,
         \A x \in S : x # y => g[x] = f[x]
  PROVE  SumFunctionOnSet(g, S) = SumFunctionOnSet(f, S) + g[y] - f[y]
<1> DEFINE R == S \ {y}
<1>1. IsFiniteSet(R) /\ \A x \in R : f[x] \in Nat /\ g[x] = f[x]
  BY OneLess
<1> HIDE DEF R
<1>2. SumFunctionOnSet(f, R) = SumFunctionOnSet(g, R) /\ SumFunctionOnSet(f, R) \in Nat
  BY <1>1, SumSame, SumType
<1>3. /\ SumFunctionOnSet(f, S) = f[y] + SumFunctionOnSet(f, R)
      /\ SumFunctionOnSet(g, S) = g[y] + SumFunctionOnSet(g, R)
  BY SumRemove DEF R
<1> QED
  BY <1>2, <1>3
=============================================================================
