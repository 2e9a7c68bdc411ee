----------------------------- MODULE FiniteSums -----------------------------
(***************************************************************************)
(* Sums over finite sets: what SumFunctionOnSet returns for every set and  *)
(* function, which modules that add up risk need.                          *)
(*                                                                         *)
(* Induction is stated over sets of numbers and sets of subsets, not over  *)
(* predicates, and rests on the least element of a set of naturals.        *)
(***************************************************************************)
EXTENDS Integers, FiniteSets, Functions, FiniteSetTheorems, WellFoundedInduction, TLAPS

-----------------------------------------------------------------------------
(* Induction *)

LEMMA LeastNatural ==
  ASSUME NEW T \in SUBSET Nat, T # {}
  PROVE  \E n \in T : \A m \in T : n <= m
<1>1. PICK n \in T : \A m \in T : ~ (<<m, n>> \in OpToRel(<, Nat))
  BY NatLessThanWellFounded, WFMin
<1>2. \A m \in T : ~ (m < n)
  BY <1>1 DEF OpToRel
<1>. QED
  BY <1>2

\* A set with 0, and with the successor of each of its numbers, has all numbers.
LEMMA Induction ==
  ASSUME NEW T, 0 \in T, \A n \in Nat : n \in T => n + 1 \in T
  PROVE  Nat \subseteq T
<1>. SUFFICES ASSUME Nat \ T # {} PROVE FALSE
  OBVIOUS
<1>1. PICK n \in Nat \ T : \A m \in Nat \ T : n <= m
  BY LeastNatural
<1>2. n # 0 /\ n - 1 \in Nat
  BY <1>1
<1>3. n - 1 \in T
  BY <1>1, <1>2
<1>. QED
  BY <1>1, <1>2, <1>3

\* The element that a sum over s takes out first.
First(s) == CHOOSE x \in s : TRUE

LEMMA FirstIn ==
  ASSUME NEW s, s # {}
  PROVE  First(s) \in s
  BY DEF First

LEMMA Smaller ==
  ASSUME NEW s, IsFiniteSet(s), s # {}
  PROVE  /\ IsFiniteSet(s \ {First(s)}) /\ Cardinality(s) \in Nat \ {0}
         /\ Cardinality(s \ {First(s)}) = Cardinality(s) - 1
  BY FirstIn, FS_RemoveElement, FS_CardinalityType, FS_EmptySet

\* A set of subsets of S that has a set whenever it has what is left of it
\* without its first element has all of them.
LEMMA SubsetInduction ==
  ASSUME NEW S, IsFiniteSet(S), NEW B, {} \in B,
         \A s \in SUBSET S : s # {} /\ s \ {First(s)} \in B => s \in B
  PROVE  SUBSET S \subseteq B
<1>. DEFINE T == {n \in Nat : \A s \in SUBSET S : Cardinality(s) = n => s \in B}
<1>1. 0 \in T
  BY FS_Subset, FS_EmptySet
<1>2. ASSUME NEW n \in Nat, n \in T
      PROVE  n + 1 \in T
  <2>. SUFFICES ASSUME NEW s \in SUBSET S, Cardinality(s) = n + 1
                PROVE  s \in B
    OBVIOUS
  <2>1. IsFiniteSet(s) /\ s # {}
    BY FS_Subset, FS_EmptySet
  <2>2. Cardinality(s \ {First(s)}) = Cardinality(s) - 1
    BY <2>1, Smaller
  <2>3. Cardinality(s \ {First(s)}) = n /\ s \ {First(s)} \in SUBSET S
    BY <2>2
  <2>4. s \ {First(s)} \in B
    BY <1>2, <2>3
  <2>. QED
    BY <2>1, <2>4
<1>3. Nat \subseteq T
  <2>. HIDE DEF T
  <2>. QED
    BY <1>1, <1>2, Induction
<1>4. ASSUME NEW s \in SUBSET S
      PROVE  s \in B
  <2>1. Cardinality(s) \in Nat
    BY FS_Subset, FS_CardinalityType
  <2>. QED
    BY <1>3, <2>1
<1>. QED
  BY <1>4

-----------------------------------------------------------------------------
(* The sum as a recursive function *)

\* g is the sum of f over each of the sets in D.
Sums(g, f, D) ==
  g = [s \in D |-> IF s = {} THEN 0 ELSE f[First(s)] + g[s \ {First(s)}]]

LEMMA SumChosen ==
  ASSUME NEW f, NEW S
  PROVE  SumFunctionOnSet(f, S) = (CHOOSE g : Sums(g, f, SUBSET S))[S]
  BY DEF SumFunctionOnSet, FoldFunctionOnSet, MapThenFoldSet, Sums, First

Small(S, n) == {s \in SUBSET S : Cardinality(s) <= n}

LEMMA SumsOfSmall ==
  ASSUME NEW f, NEW S, IsFiniteSet(S), NEW n \in Nat, NEW g, Sums(g, f, Small(S, n))
  PROVE  \E h : Sums(h, f, Small(S, n + 1))
<1>. DEFINE Sum(k, s) == IF s = {} THEN 0 ELSE f[First(s)] + k[s \ {First(s)}]
            h == [s \in Small(S, n + 1) |-> Sum(g, s)]
<1>1. ASSUME NEW s \in Small(S, n + 1)
      PROVE  h[s] = Sum(h, s)
  <2>1. CASE s = {}
    BY <2>1
  <2>2. CASE s # {}
    <3>. DEFINE t == s \ {First(s)}
    <3>1. IsFiniteSet(s) /\ Cardinality(s) <= n + 1
      BY FS_Subset DEF Small
    <3>2. Cardinality(t) = Cardinality(s) - 1 /\ Cardinality(s) \in Nat \ {0}
      BY <2>2, <3>1, Smaller
    <3>3. t \in SUBSET S /\ Cardinality(t) <= n /\ Cardinality(t) <= n + 1
      BY <3>1, <3>2 DEF Small
    <3>4. t \in Small(S, n) /\ t \in Small(S, n + 1)
      BY <3>3 DEF Small
    <3>5. g[t] = Sum(g, t)
      BY <3>4 DEF Sums
    <3>6. h[t] = g[t]
      BY <3>4, <3>5
    <3>. QED
      BY <2>2, <3>6
  <2>. QED
    BY <2>1, <2>2
<1>2. h = [s \in Small(S, n + 1) |-> Sum(h, s)]
  BY <1>1
<1>3. Sums(h, f, Small(S, n + 1))
  BY <1>2 DEF Sums
<1>. QED
  BY <1>3

LEMMA SumsExist ==
  ASSUME NEW f, NEW S, IsFiniteSet(S)
  PROVE  \E g : Sums(g, f, SUBSET S)
<1>. DEFINE T == {n \in Nat : \E g : Sums(g, f, Small(S, n))}
<1>1. 0 \in T
  <2>. DEFINE g == [s \in Small(S, 0) |-> 0]
  <2>1. \A s \in Small(S, 0) : s = {}
    <3>. TAKE s \in Small(S, 0)
    <3>1. IsFiniteSet(s) /\ Cardinality(s) <= 0 /\ Cardinality(s) \in Nat
      BY FS_Subset, FS_CardinalityType DEF Small
    <3>. QED
      BY <3>1, FS_EmptySet
  <2>2. Sums(g, f, Small(S, 0))
    BY <2>1 DEF Sums
  <2>. QED
    BY <2>2
<1>2. \A n \in Nat : n \in T => n + 1 \in T
  BY SumsOfSmall
<1>3. Nat \subseteq T
  <2>. HIDE DEF T
  <2>. QED
    BY <1>1, <1>2, Induction
<1>4. Cardinality(S) \in Nat
  BY FS_CardinalityType
<1>5. Small(S, Cardinality(S)) = SUBSET S
  BY FS_Subset DEF Small
<1>. QED
  BY <1>3, <1>4, <1>5

\* The sum over a set does not depend on the set it is a part of.
LEMMA SumsAgree ==
  ASSUME NEW f, NEW S, NEW T \in SUBSET S, NEW g, NEW h,
         IsFiniteSet(S), Sums(g, f, SUBSET S), Sums(h, f, SUBSET T)
  PROVE  g[T] = h[T]
<1>. DEFINE B == {s \in SUBSET T : g[s] = h[s]}
<1>1. \A s \in SUBSET T :
        /\ g[s] = IF s = {} THEN 0 ELSE f[First(s)] + g[s \ {First(s)}]
        /\ h[s] = IF s = {} THEN 0 ELSE f[First(s)] + h[s \ {First(s)}]
  BY DEF Sums
<1>2. IsFiniteSet(T)
  BY FS_Subset
<1>3. {} \in B
  BY <1>1
<1>4. \A s \in SUBSET T : s # {} /\ s \ {First(s)} \in B => s \in B
  BY <1>1
<1>. HIDE DEF B
<1>5. SUBSET T \subseteq B
  BY <1>2, <1>3, <1>4, SubsetInduction
<1>. QED
  BY <1>5 DEF B

-----------------------------------------------------------------------------
(* What a sum is *)

LEMMA SumTaken ==
  ASSUME NEW f, NEW S, IsFiniteSet(S)
  PROVE  \E g : Sums(g, f, SUBSET S) /\ SumFunctionOnSet(f, S) = g[S]
<1>. DEFINE g == CHOOSE k : Sums(k, f, SUBSET S)
<1>1. Sums(g, f, SUBSET S)
  BY SumsExist
<1>. QED
  BY <1>1, SumChosen

LEMMA SumStep ==
  ASSUME NEW f, NEW S, IsFiniteSet(S)
  PROVE  SumFunctionOnSet(f, S) =
           IF S = {} THEN 0 ELSE f[First(S)] + SumFunctionOnSet(f, S \ {First(S)})
<1>1. PICK g : Sums(g, f, SUBSET S) /\ SumFunctionOnSet(f, S) = g[S]
  BY SumTaken
<1>2. PICK T \in SUBSET S : T = S \ {First(S)}
  OBVIOUS
<1>3. IsFiniteSet(T)
  BY FS_Subset
<1>4. PICK h : Sums(h, f, SUBSET T) /\ SumFunctionOnSet(f, T) = h[T]
  BY <1>3, SumTaken
<1>5. g[T] = h[T]
  BY <1>1, <1>4, SumsAgree
<1>6. g[S] = IF S = {} THEN 0 ELSE f[First(S)] + g[T]
  BY <1>1, <1>2 DEF Sums
<1>. QED
  BY <1>1, <1>2, <1>4, <1>5, <1>6

LEMMA SumEmpty ==
  ASSUME NEW f
  PROVE  SumFunctionOnSet(f, {}) = 0
  BY FS_EmptySet, SumStep

\* A sum of naturals is a natural.
LEMMA SumNat ==
  ASSUME NEW S, IsFiniteSet(S), NEW f, \A x \in S : f[x] \in Nat
  PROVE  SumFunctionOnSet(f, S) \in Nat
<1>. DEFINE B == {s \in SUBSET S : SumFunctionOnSet(f, s) \in Nat}
<1>1. {} \in B
  BY SumEmpty
<1>2. ASSUME NEW s \in SUBSET S, s # {}, s \ {First(s)} \in B
      PROVE  s \in B
  <2>1. SumFunctionOnSet(f, s) = f[First(s)] + SumFunctionOnSet(f, s \ {First(s)})
    BY <1>2, SumStep, FS_Subset
  <2>2. f[First(s)] \in Nat /\ SumFunctionOnSet(f, s \ {First(s)}) \in Nat
    BY <1>2, FirstIn
  <2>. QED
    BY <2>1, <2>2
<1>. HIDE DEF B
<1>3. SUBSET S \subseteq B
  BY <1>1, <1>2, SubsetInduction
<1>. QED
  BY <1>3 DEF B

\* A sum changes by as much as the one element that changes.
LEMMA SumChange ==
  ASSUME NEW S, NEW f, NEW g, NEW z \in S, IsFiniteSet(S),
         \A x \in S : f[x] \in Nat /\ g[x] \in Nat,
         \A x \in S \ {z} : g[x] = f[x]
  PROVE  SumFunctionOnSet(g, S) = SumFunctionOnSet(f, S) + g[z] - f[z]
<1>. DEFINE Change(s) == IF z \in s THEN g[z] - f[z] ELSE 0
            B == {s \in SUBSET S : SumFunctionOnSet(g, s) = SumFunctionOnSet(f, s) + Change(s)}
<1>1. {} \in B
  BY SumEmpty
<1>2. ASSUME NEW s \in SUBSET S, s # {}, s \ {First(s)} \in B
      PROVE  s \in B
  <2>. DEFINE x == First(s)
              t == s \ {x}
  <2>1. IsFiniteSet(s) /\ IsFiniteSet(t) /\ x \in s
    BY <1>2, FirstIn, FS_Subset
  <2>2. /\ SumFunctionOnSet(f, s) = f[x] + SumFunctionOnSet(f, t)
        /\ SumFunctionOnSet(g, s) = g[x] + SumFunctionOnSet(g, t)
    BY <1>2, <2>1, SumStep
  <2>3. SumFunctionOnSet(f, t) \in Nat /\ SumFunctionOnSet(g, t) \in Nat
    BY <2>1, SumNat
  <2>4. SumFunctionOnSet(g, t) = SumFunctionOnSet(f, t) + Change(t)
    BY <1>2
  <2>5. f[x] \in Nat /\ g[x] \in Nat /\ f[z] \in Nat /\ g[z] \in Nat
    BY <2>1
  <2>6. CASE x = z
    <3>1. Change(t) = 0 /\ Change(s) = g[x] - f[x]
      BY <2>1, <2>6
    <3>. QED
      BY <2>2, <2>3, <2>4, <2>5, <3>1
  <2>7. CASE x # z
    <3>1. Change(t) = Change(s) /\ g[x] = f[x]
      BY <2>1, <2>7
    <3>2. Change(t) \in Int
      BY <2>5
    <3>. HIDE DEF Change
    <3>. QED
      BY <2>2, <2>3, <2>4, <2>5, <3>1, <3>2
  <2>. QED
    BY <2>6, <2>7
<1>3. SUBSET S \subseteq B
  <2>. HIDE DEF B
  <2>. QED
    BY <1>1, <1>2, SubsetInduction
<1>4. SumFunctionOnSet(g, S) = SumFunctionOnSet(f, S) + Change(S)
  BY <1>3
<1>5. SumFunctionOnSet(f, S) \in Nat /\ f[z] \in Nat /\ g[z] \in Nat
  BY SumNat
<1>. QED
  BY <1>4, <1>5

LEMMA SumZero ==
  ASSUME NEW S, IsFiniteSet(S), NEW f, \A x \in S : f[x] = 0
  PROVE  SumFunctionOnSet(f, S) = 0
<1>. DEFINE B == {s \in SUBSET S : SumFunctionOnSet(f, s) = 0}
<1>1. {} \in B
  BY SumEmpty
<1>2. ASSUME NEW s \in SUBSET S, s # {}, s \ {First(s)} \in B
      PROVE  s \in B
  <2>1. SumFunctionOnSet(f, s) = f[First(s)] + SumFunctionOnSet(f, s \ {First(s)})
    BY <1>2, SumStep, FS_Subset
  <2>2. f[First(s)] = 0 /\ SumFunctionOnSet(f, s \ {First(s)}) = 0
    BY <1>2, FirstIn
  <2>. QED
    BY <2>1, <2>2
<1>. HIDE DEF B
<1>3. SUBSET S \subseteq B
  BY <1>1, <1>2, SubsetInduction
<1>. QED
  BY <1>3 DEF B

\* A sum is at most the largest summand, as often as there are summands.
LEMMA SumBound ==
  ASSUME NEW S, NEW f, NEW m \in Nat, IsFiniteSet(S), \A x \in S : f[x] \in 0..m
  PROVE  SumFunctionOnSet(f, S) <= Cardinality(S) * m
<1>. DEFINE B == {s \in SUBSET S : SumFunctionOnSet(f, s) <= Cardinality(s) * m}
<1>1. {} \in B
  BY SumEmpty, FS_EmptySet
<1>2. ASSUME NEW s \in SUBSET S, s # {}, s \ {First(s)} \in B
      PROVE  s \in B
  <2>. DEFINE t == s \ {First(s)}
              n == Cardinality(t)
  <2>1. IsFiniteSet(s) /\ IsFiniteSet(t) /\ t \in SUBSET S
    BY FS_Subset
  <2>2. SumFunctionOnSet(f, s) = f[First(s)] + SumFunctionOnSet(f, t)
    BY <1>2, <2>1, SumStep
  <2>3. f[First(s)] \in 0..m /\ SumFunctionOnSet(f, t) \in Nat
    BY <1>2, <2>1, FirstIn, SumNat
  <2>4. SumFunctionOnSet(f, t) <= n * m
    BY <1>2
  <2>5. n \in Nat /\ Cardinality(s) = n + 1
    BY <1>2, <2>1, Smaller
  <2>6. (n + 1) * m = n * m + m /\ n * m \in Nat
    BY <2>5
  <2>. HIDE DEF n, t
  <2>7. SumFunctionOnSet(f, s) <= n * m + m
    BY <2>2, <2>3, <2>4, <2>6
  <2>. QED
    BY <2>5, <2>6, <2>7
<1>. HIDE DEF B
<1>3. SUBSET S \subseteq B
  BY <1>1, <1>2, SubsetInduction
<1>. QED
  BY <1>3 DEF B
=============================================================================
