--------------------------- MODULE Counts_proofs ---------------------------
(***************************************************************************)
(* Proofs about what is counted: the strikes of Ladder, the hits and         *)
(* sightings of CaseFiles, the depth of the queue on the pages of ReadModels, *)
(* the verdicts of CoreStats, the bursts and evidence of UsageProfile and the *)
(* samples of Behavior, for every value of the constants.                    *)
(*                                                                         *)
(* Sums over a finite set come first.  What the library's induction over     *)
(* finite sets would give is proved by a least counterexample: among the     *)
(* sets for which a sum is wrong there is one with no smaller such set.  The *)
(* loops of UsageProfile and Behavior are recursive functions; that there is *)
(* such a function at all, and what it has found by the n-th point or row,   *)
(* are proved the same way, by a least number for which it fails.            *)
(***************************************************************************)
EXTENDS Ladder, CaseFiles, ReadModels, CoreStats, UsageProfile, Behavior,
        FiniteSetTheorems, WellFoundedInduction, TLAPS

-----------------------------------------------------------------------------
(* Least counterexamples *)

\* A set of subsets of a finite set has a member none of whose proper subsets belongs to it.
LEMMA LeastSubset ==
  ASSUME NEW S, IsFiniteSet(S), NEW T, T \subseteq SUBSET S, T # {}
  PROVE  \E s \in T : \A t \in T : t \subseteq s => t = s
<1>. DEFINE R == StrictSubsetOrdering(S)
<1>1. IsWellFoundedOn(R, FiniteSubsetsOf(S))
  BY FS_StrictSubsetOrderingWellFounded
<1>2. T \subseteq FiniteSubsetsOf(S)
  BY FS_FiniteSubsetsOfFinite
<1>. HIDE DEF R
<1>3. \E s \in T : \A t \in T : ~(<<t, s>> \in R)
  BY <1>1, <1>2, WFMin
<1>4. PICK s \in T : \A t \in T : ~(<<t, s>> \in R)
  BY <1>3
<1>5. ASSUME NEW t \in T, t \subseteq s, t # s PROVE FALSE
  <2>1. <<t, s>> \in (SUBSET S) \X (SUBSET S)
    OBVIOUS
  <2>2. <<t, s>> \in R
    BY <1>5, <2>1 DEF R, StrictSubsetOrdering
  <2>. QED BY <1>4, <2>2
<1>. QED BY <1>4, <1>5

LEMMA LeastNatural ==
  ASSUME NEW T, T \subseteq Nat, T # {}
  PROVE  \E n \in T : \A m \in T : n <= m
<1>. DEFINE R == OpToRel(<, Nat)
<1>1. IsWellFoundedOn(R, Nat)
  BY NatLessThanWellFounded
<1>2. \A m, n \in Nat : m < n => <<m, n>> \in R
  BY DEF OpToRel
<1>. HIDE DEF R
<1>3. \E n \in T : \A m \in T : ~(<<m, n>> \in R)
  BY <1>1, WFMin
<1>4. PICK n \in T : \A m \in T : ~(<<m, n>> \in R)
  BY <1>3
<1>5. \A m \in T : ~(m < n)
  BY <1>2, <1>4
<1>6. n \in Nat /\ \A m \in T : m \in Nat
  OBVIOUS
<1>. QED BY <1>4, <1>5, <1>6

-----------------------------------------------------------------------------
(* Sums *)

Some(s) == CHOOSE x \in s : TRUE

\* g is the function by which a sum over the subsets of S is computed.
Sums(g, f, S) == g = [s \in SUBSET S |-> IF s = {} THEN 0 ELSE f[Some(s)] + g[s \ {Some(s)}]]

LEMMA SomeIsMember ==
  ASSUME NEW s, s # {}
  PROVE  Some(s) \in s
  BY DEF Some

LEMMA SumsStep ==
  ASSUME NEW f, NEW S, NEW g, Sums(g, f, S), NEW s \in SUBSET S
  PROVE  g[s] = IF s = {} THEN 0 ELSE f[Some(s)] + g[s \ {Some(s)}]
  BY DEF Sums

\* The function exists: it is built up by the size of the subsets.
LEMMA SumsExist ==
  ASSUME NEW S, IsFiniteSet(S), NEW f
  PROVE  \E g : Sums(g, f, S)
<1>. DEFINE UpTo(g, k) ==
        \A s \in SUBSET S : Cardinality(s) <= k =>
           g[s] = IF s = {} THEN 0 ELSE f[Some(s)] + g[s \ {Some(s)}]
<1>. DEFINE Reached == {k \in Nat : \E g : g = [s \in SUBSET S |-> g[s]] /\ UpTo(g, k)}
<1>1. \A s \in SUBSET S : IsFiniteSet(s) /\ Cardinality(s) \in Nat
  BY FS_Subset, FS_CardinalityType
<1>2. 0 \in Reached
  <2>. DEFINE g == [s \in SUBSET S |-> 0]
  <2>1. \A s \in SUBSET S : Cardinality(s) <= 0 => s = {}
    BY <1>1, FS_EmptySet
  <2>2. UpTo(g, 0)
    BY <2>1
  <2>3. g = [s \in SUBSET S |-> g[s]]
    OBVIOUS
  <2>. QED BY <2>2, <2>3
<1>3. ASSUME NEW k \in Reached PROVE k + 1 \in Reached
  <2>1. PICK g : g = [s \in SUBSET S |-> g[s]] /\ UpTo(g, k)
    OBVIOUS
  <2>. DEFINE h == [s \in SUBSET S |->
                      IF Cardinality(s) <= k THEN g[s]
                      ELSE IF s = {} THEN 0 ELSE f[Some(s)] + g[s \ {Some(s)}]]
  <2>2. h = [s \in SUBSET S |-> h[s]]
    OBVIOUS
  <2>3. ASSUME NEW s \in SUBSET S, Cardinality(s) <= k + 1
        PROVE  h[s] = IF s = {} THEN 0 ELSE f[Some(s)] + h[s \ {Some(s)}]
    <3>1. CASE s = {}
      <4>1. Cardinality(s) <= k
        BY <1>3, <3>1, FS_EmptySet
      <4>. QED BY <2>1, <3>1, <4>1
    <3>2. CASE s # {}
      <4>. DEFINE x == Some(s)
                  t == s \ {x}
      <4>1. x \in s /\ t \in SUBSET S
        BY <3>2, SomeIsMember
      <4>. HIDE DEF x
      <4>2. Cardinality(t) = Cardinality(s) - 1 /\ Cardinality(s) \in Nat
        BY <1>1, <4>1, FS_RemoveElement
      <4>3. Cardinality(t) <= k
        BY <1>3, <2>3, <4>2
      <4>. HIDE DEF t
      <4>4. h[t] = g[t]
        BY <4>1, <4>3
      <4>5. g[s] = f[x] + g[t] \/ ~(Cardinality(s) <= k)
        BY <2>1, <3>2 DEF x, t
      <4>6. h[s] = f[x] + g[t]
        BY <3>2, <4>5 DEF x, t
      <4>. QED BY <3>2, <4>4, <4>6 DEF x, t
    <3>. QED BY <3>1, <3>2
  <2>. HIDE DEF h
  <2>4. UpTo(h, k + 1)
    BY <2>3
  <2>. HIDE DEF UpTo
  <2>5. \E e : e = [s \in SUBSET S |-> e[s]] /\ UpTo(e, k + 1)
    BY <2>2, <2>4
  <2>6. k \in Nat /\ k + 1 \in Nat
    BY <1>3
  <2>. QED BY <2>5, <2>6
<1>. HIDE DEF UpTo
<1>4. Cardinality(S) \in Reached
  <2>. SUFFICES ASSUME Cardinality(S) \notin Reached PROVE FALSE
    OBVIOUS
  <2>. DEFINE T == Nat \ Reached
  <2>1. T # {} /\ T \subseteq Nat
    BY <1>1
  <2>. HIDE DEF T
  <2>2. PICK n \in T : \A m \in T : n <= m
    BY <2>1, LeastNatural
  <2>. USE DEF T
  <2>. HIDE DEF Reached
  <2>3. n \in Nat /\ n # 0
    BY <1>2, <2>2
  <2>4. n - 1 \in Nat /\ n - 1 \notin T
    BY <2>2, <2>3
  <2>5. n - 1 + 1 = n
    BY <2>3
  <2>. QED BY <1>3, <2>2, <2>4, <2>5
<1>5. PICK g : g = [s \in SUBSET S |-> g[s]] /\ UpTo(g, Cardinality(S))
  BY <1>4
<1>6. \A s \in SUBSET S : Cardinality(s) <= Cardinality(S)
  BY FS_Subset
<1>7. \A s \in SUBSET S : g[s] = IF s = {} THEN 0 ELSE f[Some(s)] + g[s \ {Some(s)}]
  BY <1>5, <1>6 DEF UpTo
<1>8. Sums(g, f, S)
  BY <1>5, <1>7 DEF Sums
<1>. QED BY <1>8

Sum(f, S) == SumFunctionOnSet(f, S)

\* A sum is computed by such a function.
LEMMA SumIsComputed ==
  ASSUME NEW S, IsFiniteSet(S), NEW f
  PROVE  \E g : Sums(g, f, S) /\ Sum(f, S) = g[S]
<1>1. \E g : Sums(g, f, S)
  BY SumsExist
<1>2. Sum(f, S) = (CHOOSE g : Sums(g, f, S))[S]
  BY DEF Sum, SumFunctionOnSet, FoldFunctionOnSet, MapThenFoldSet, Sums, Some
<1>. QED BY <1>1, <1>2

\* What a function adds up to on a set depends on its values there, not on
\* the set the sum began with.
LEMMA SumsAgree ==
  ASSUME NEW S, NEW f, NEW g, Sums(g, f, S),
         NEW T, NEW e, NEW h, Sums(h, e, T),
         NEW s, s \subseteq S, s \subseteq T, IsFiniteSet(s), \A x \in s : f[x] = e[x]
  PROVE  g[s] = h[s]
<1>. DEFINE Bad == {t \in SUBSET s : g[t] # h[t]}
<1>1. SUFFICES ASSUME Bad # {} PROVE FALSE
  OBVIOUS
<1>2. PICK t \in Bad : \A r \in Bad : r \subseteq t => r = t
  <2>1. Bad \subseteq SUBSET s
    OBVIOUS
  <2>. HIDE DEF Bad
  <2>. QED BY <1>1, <2>1, LeastSubset
<1>. DEFINE Right(G, F) == G[t] = IF t = {} THEN 0 ELSE F[Some(t)] + G[t \ {Some(t)}]
<1>a. Right(g, f) /\ Right(h, e)
  <2>1. t \in SUBSET S /\ t \in SUBSET T
    OBVIOUS
  <2>. QED BY <2>1, SumsStep
<1>3. t # {}
  BY <1>a
<1>. DEFINE x == Some(t)
            r == t \ {x}
<1>4. x \in t
  BY <1>3, SomeIsMember
<1>5. g[t] = f[x] + g[r] /\ h[t] = e[x] + h[r]
  BY <1>3, <1>a
<1>. HIDE DEF x
<1>6. r \in SUBSET s /\ r \subseteq t /\ r # t
  BY <1>4
<1>7. g[r] = h[r]
  BY <1>2, <1>6
<1>. QED BY <1>2, <1>4, <1>5, <1>7

LEMMA SumsAreIntegers ==
  ASSUME NEW S, IsFiniteSet(S), NEW f, \A x \in S : f[x] \in Int, NEW g, Sums(g, f, S),
         NEW s \in SUBSET S
  PROVE  g[s] \in Int
<1>. DEFINE Bad == {t \in SUBSET S : g[t] \notin Int}
<1>1. SUFFICES ASSUME Bad # {} PROVE FALSE
  OBVIOUS
<1>2. PICK t \in Bad : \A r \in Bad : r \subseteq t => r = t
  <2>1. Bad \subseteq SUBSET S
    OBVIOUS
  <2>. HIDE DEF Bad
  <2>. QED BY <1>1, <2>1, LeastSubset
<1>a. g[t] = IF t = {} THEN 0 ELSE f[Some(t)] + g[t \ {Some(t)}]
  <2>1. t \in SUBSET S
    OBVIOUS
  <2>. HIDE DEF Bad
  <2>. QED BY <2>1, SumsStep
<1>3. t # {}
  BY <1>a
<1>. DEFINE x == Some(t)
            r == t \ {x}
<1>4. x \in t
  BY <1>3, SomeIsMember
<1>5. g[t] = f[x] + g[r]
  BY <1>3, <1>a
<1>. HIDE DEF x
<1>6. r \in SUBSET S /\ r \subseteq t /\ r # t
  BY <1>4
<1>7. g[r] \in Int
  BY <1>2, <1>6
<1>. QED BY <1>2, <1>4, <1>5, <1>7

\* Any member may be taken out first.
LEMMA SumsTakeOut ==
  ASSUME NEW S, IsFiniteSet(S), NEW f, \A x \in S : f[x] \in Int, NEW g, Sums(g, f, S),
         NEW s \in SUBSET S, NEW y \in s
  PROVE  g[s] = f[y] + g[s \ {y}]
<1>. DEFINE Bad == {t \in SUBSET S : \E z \in t : g[t] # f[z] + g[t \ {z}]}
<1>1. SUFFICES ASSUME Bad # {} PROVE FALSE
  OBVIOUS
<1>2. PICK t \in Bad : \A r \in Bad : r \subseteq t => r = t
  <2>1. Bad \subseteq SUBSET S
    OBVIOUS
  <2>. HIDE DEF Bad
  <2>. QED BY <1>1, <2>1, LeastSubset
<1>3. PICK z \in t : g[t] # f[z] + g[t \ {z}]
  OBVIOUS
<1>. DEFINE x == Some(t)
<1>4. x \in t /\ t \in SUBSET S
  BY SomeIsMember
<1>5. g[t] = f[x] + g[t \ {x}]
  BY SumsStep
<1>. HIDE DEF x
<1>6. x # z
  BY <1>3, <1>5
<1>7. \A r \in SUBSET S : \A u \in r : r \subseteq t /\ r # t => g[r] = f[u] + g[r \ {u}]
  BY <1>2
<1>8. g[t \ {x}] = f[z] + g[(t \ {x}) \ {z}]
  BY <1>4, <1>6, <1>7
<1>9. g[t \ {z}] = f[x] + g[(t \ {z}) \ {x}]
  BY <1>4, <1>6, <1>7
<1>10. (t \ {z}) \ {x} = (t \ {x}) \ {z}
  OBVIOUS
<1>11. g[(t \ {x}) \ {z}] \in Int /\ f[x] \in Int /\ f[z] \in Int
  BY <1>4, SumsAreIntegers
<1>12. g[t] = f[z] + g[t \ {z}]
  <2>. DEFINE a == g[(t \ {x}) \ {z}]
  <2>1. g[t] = f[x] + (f[z] + a) /\ g[t \ {z}] = f[x] + a
    BY <1>5, <1>8, <1>9, <1>10
  <2>2. a \in Int
    BY <1>11
  <2>. HIDE DEF a
  <2>. QED BY <1>11, <2>1, <2>2
<1>. QED BY <1>3, <1>12

LEMMA SumOfNone ==
  ASSUME NEW f
  PROVE  Sum(f, {}) = 0
<1>1. IsFiniteSet({})
  BY FS_EmptySet
<1>. QED BY <1>1, SumIsComputed, SumsStep

LEMMA SumIsInteger ==
  ASSUME NEW S, IsFiniteSet(S), NEW f, \A x \in S : f[x] \in Int
  PROVE  Sum(f, S) \in Int
  BY SumIsComputed, SumsAreIntegers

LEMMA SumAgrees ==
  ASSUME NEW S, IsFiniteSet(S), NEW f, NEW e, \A x \in S : f[x] = e[x]
  PROVE  Sum(f, S) = Sum(e, S)
  BY SumIsComputed, SumsAgree

LEMMA SumTakesOut ==
  ASSUME NEW S, IsFiniteSet(S), NEW f, \A x \in S : f[x] \in Int, NEW y \in S
  PROVE  Sum(f, S) = f[y] + Sum(f, S \ {y})
<1>. DEFINE T == S \ {y}
<1>1. IsFiniteSet(T) /\ T \subseteq S
  BY FS_Subset
<1>2. PICK g : Sums(g, f, S) /\ Sum(f, S) = g[S]
  BY SumIsComputed
<1>. HIDE DEF T
<1>3. PICK h : Sums(h, f, T) /\ Sum(f, T) = h[T]
  BY <1>1, SumIsComputed
<1>4. g[T] = h[T]
  BY <1>1, <1>2, <1>3, SumsAgree
<1>5. g[S] = f[y] + g[T]
  <2>1. S \in SUBSET S
    OBVIOUS
  <2>2. Sums(g, f, S)
    BY <1>2
  <2>3. ASSUME NEW s \in SUBSET S, NEW x \in s PROVE g[s] = f[x] + g[s \ {x}]
    BY <2>2, SumsTakeOut
  <2>. QED BY <2>1, <2>3 DEF T
<1>. QED BY <1>2, <1>3, <1>4, <1>5 DEF T

\* A set may be added up in two parts.
LEMMA SumSplits ==
  ASSUME NEW S, IsFiniteSet(S), NEW f, \A x \in S : f[x] \in Int, NEW T \in SUBSET S
  PROVE  Sum(f, S) = Sum(f, T) + Sum(f, S \ T)
<1>. DEFINE U == S \ T
            Bad == {r \in SUBSET T : Sum(f, r \cup U) # Sum(f, r) + Sum(f, U)}
<1>1. SUFFICES ASSUME Bad # {} PROVE FALSE
  <2>1. T \cup U = S /\ T \in SUBSET T
    OBVIOUS
  <2>2. T \notin Bad => Sum(f, T \cup U) = Sum(f, T) + Sum(f, U)
    BY <2>1
  <2>. QED BY <2>1, <2>2
<1>2. PICK r \in Bad : \A q \in Bad : q \subseteq r => q = r
  <2>1. Bad \subseteq SUBSET T /\ IsFiniteSet(T)
    BY FS_Subset
  <2>. HIDE DEF Bad
  <2>. QED BY <1>1, <2>1, LeastSubset
<1>3. IsFiniteSet(U) /\ Sum(f, U) \in Int
  <2>1. IsFiniteSet(U) /\ \A x \in U : f[x] \in Int
    BY FS_Subset
  <2>. HIDE DEF U
  <2>. QED BY ONLY <2>1, SumIsInteger
<1>4. r # {}
  <2>. SUFFICES ASSUME r = {} PROVE FALSE
    OBVIOUS
  <2>. DEFINE V == r \cup U
  <2>1. Sum(f, V) # Sum(f, r) + Sum(f, U)
    OBVIOUS
  <2>2. V = U
    OBVIOUS
  <2>3. Sum(f, r) = 0
    BY SumOfNone
  <2>. HIDE DEF U, V, Bad
  <2>. QED BY ONLY <1>3, <2>1, <2>2, <2>3
<1>5. PICK x \in r : TRUE
  BY <1>4
<1>. DEFINE q == r \ {x}
<1>6. q \in SUBSET T /\ q \subseteq r /\ q # r /\ r \subseteq S /\ x \in S /\ x \notin U
  OBVIOUS
<1>7. Sum(f, q \cup U) = Sum(f, q) + Sum(f, U)
  BY <1>2, <1>6
<1>8. Sum(f, r) = f[x] + Sum(f, q)
  <2>1. IsFiniteSet(r) /\ \A u \in r : f[u] \in Int
    BY <1>6, FS_Subset
  <2>. QED BY <2>1, SumTakesOut
<1>9. Sum(f, r \cup U) = f[x] + Sum(f, q \cup U)
  <2>1. IsFiniteSet(r \cup U) /\ \A u \in r \cup U : f[u] \in Int
    BY <1>6, FS_Subset
  <2>2. (r \cup U) \ {x} = q \cup U /\ x \in r \cup U
    BY <1>6
  <2>. QED BY <2>1, <2>2, SumTakesOut
<1>10. Sum(f, q) \in Int /\ f[x] \in Int
  <2>1. IsFiniteSet(q) /\ \A u \in q : f[u] \in Int
    BY <1>6, FS_Subset
  <2>. QED BY <1>6, <2>1, SumIsInteger
<1>11. Sum(f, r \cup U) # Sum(f, r) + Sum(f, U)
  OBVIOUS
<1>. HIDE DEF q, U
<1>. QED BY <1>3, <1>7, <1>8, <1>9, <1>10, <1>11

LEMMA SumOfZeros ==
  ASSUME NEW S, IsFiniteSet(S), NEW f, \A x \in S : f[x] = 0
  PROVE  Sum(f, S) = 0
<1>. DEFINE Bad == {r \in SUBSET S : Sum(f, r) # 0}
<1>1. SUFFICES ASSUME Bad # {} PROVE FALSE
  OBVIOUS
<1>2. PICK r \in Bad : \A q \in Bad : q \subseteq r => q = r
  <2>1. Bad \subseteq SUBSET S
    OBVIOUS
  <2>. HIDE DEF Bad
  <2>. QED BY <1>1, <2>1, LeastSubset
<1>3. r # {}
  BY SumOfNone
<1>4. PICK x \in r : TRUE
  BY <1>3
<1>5. IsFiniteSet(r) /\ \A u \in r : f[u] \in Int
  BY FS_Subset
<1>6. Sum(f, r) = f[x] + Sum(f, r \ {x})
  BY <1>5, SumTakesOut
<1>7. Sum(f, r \ {x}) = 0
  <2>1. r \ {x} \in SUBSET S /\ r \ {x} # r /\ r \ {x} \subseteq r
    OBVIOUS
  <2>. QED BY <1>2, <2>1
<1>. QED BY <1>6, <1>7

LEMMA SumIsNatural ==
  ASSUME NEW S, IsFiniteSet(S), NEW f, \A x \in S : f[x] \in Nat
  PROVE  Sum(f, S) \in Nat
<1>. DEFINE Bad == {r \in SUBSET S : Sum(f, r) \notin Nat}
<1>1. SUFFICES ASSUME Bad # {} PROVE FALSE
  OBVIOUS
<1>2. PICK r \in Bad : \A q \in Bad : q \subseteq r => q = r
  <2>1. Bad \subseteq SUBSET S
    OBVIOUS
  <2>. HIDE DEF Bad
  <2>. QED BY <1>1, <2>1, LeastSubset
<1>3. r # {}
  BY SumOfNone
<1>4. PICK x \in r : TRUE
  BY <1>3
<1>. DEFINE q == r \ {x}
<1>5. q \in SUBSET S /\ q \subseteq r /\ q # r /\ f[x] \in Nat
  OBVIOUS
<1>6. Sum(f, q) \in Nat
  BY <1>2, <1>5
<1>7. Sum(f, r) = f[x] + Sum(f, q)
  <2>1. IsFiniteSet(r) /\ \A u \in r : f[u] \in Int
    BY FS_Subset
  <2>. QED BY <2>1, SumTakesOut
<1>8. Sum(f, r) \notin Nat
  OBVIOUS
<1>. HIDE DEF q
<1>. QED BY <1>5, <1>6, <1>7, <1>8

\* What one more member, or another value at a member, changes.
LEMMA SumGrows ==
  ASSUME NEW S, IsFiniteSet(S), NEW y, y \notin S, NEW f, NEW e, \A x \in S : e[x] = f[x],
         \A x \in S : f[x] \in Int, e[y] \in Int
  PROVE  Sum(e, S \cup {y}) = e[y] + Sum(f, S)
<1>1. IsFiniteSet(S \cup {y}) /\ (S \cup {y}) \ {y} = S /\ \A x \in S \cup {y} : e[x] \in Int
  BY FS_AddElement
<1>2. Sum(e, S \cup {y}) = e[y] + Sum(e, S)
  <2>1. y \in S \cup {y}
    OBVIOUS
  <2>. QED BY <1>1, <2>1, SumTakesOut
<1>. QED BY <1>2, SumAgrees

\* f and e differ at y alone.
Adjusted(f, e, S, y) ==
  /\ IsFiniteSet(S) /\ y \in S /\ e[y] \in Int
  /\ (\A x \in S : x # y => e[x] = f[x]) /\ \A x \in S : f[x] \in Int

LEMMA SumChanges ==
  ASSUME NEW S, NEW y, NEW f, NEW e, Adjusted(f, e, S, y)
  PROVE  Sum(e, S) = Sum(f, S) + (e[y] - f[y])
<1>. USE DEF Adjusted
<1>. DEFINE T == S \ {y}
<1>1. IsFiniteSet(T) /\ \A x \in T : e[x] = f[x] /\ f[x] \in Int
  BY FS_Subset
<1>2. \A x \in S : e[x] \in Int
  OBVIOUS
<1>3. Sum(e, S) = e[y] + Sum(e, T) /\ Sum(f, S) = f[y] + Sum(f, T)
  BY <1>2, SumTakesOut
<1>. HIDE DEF T
<1>4. Sum(e, T) = Sum(f, T) /\ Sum(f, T) \in Int
  BY <1>1, SumAgrees, SumIsInteger
<1>. QED BY <1>3, <1>4

-----------------------------------------------------------------------------
(* Finite sets of numbers *)

\* The largest and the smallest of finitely many numbers.
LEMMA LargestExists ==
  ASSUME NEW S, IsFiniteSet(S), S \subseteq Int, S # {}
  PROVE  /\ Max(S) \in S /\ \A x \in S : x <= Max(S)
<1>. DEFINE Largest(s) == \E m \in s : \A x \in s : m >= x
            Bad == {s \in SUBSET S : s # {} /\ ~Largest(s)}
<1>1. Bad = {}
  <2>1. SUFFICES ASSUME Bad # {} PROVE FALSE
    OBVIOUS
  <2>2. PICK t \in Bad : \A r \in Bad : r \subseteq t => r = t
    <3>1. IsFiniteSet(S) /\ Bad \subseteq SUBSET S
      OBVIOUS
    <3>. HIDE DEF Bad
    <3>. QED BY ONLY <2>1, <3>1, LeastSubset
  <2>a. t \in SUBSET S /\ t # {}
    BY <2>2
  <2>3. PICK x \in t : x \in Int
    BY <2>a
  <2>. DEFINE r == t \ {x}
  <2>4. r \in SUBSET S /\ r \subseteq t /\ r # t /\ r \subseteq Int
    OBVIOUS
  <2>5. CASE r = {}
    <3>1. \A y \in t : y = x
      BY <2>5
    <3>2. \A y \in t : x >= y
      BY <2>3, <3>1
    <3>. QED BY <3>2
  <2>6. CASE r # {}
    <3>1. r \notin Bad
      BY <2>2, <2>4
    <3>2. PICK m \in r : \A y \in r : m >= y
      BY <2>4, <2>6, <3>1
    <3>3. m \in Int /\ m \in t
      BY <2>4
    <3>4. \A y \in t : y \in Int /\ (y = x \/ y \in r)
      BY <2>4
    <3>. HIDE DEF r
    <3>5. CASE m >= x
      BY <2>3, <3>2, <3>3, <3>4, <3>5
    <3>6. CASE ~(m >= x)
      <4>1. \A y \in t : x >= y
        BY <2>3, <3>2, <3>3, <3>4, <3>6
      <4>. QED BY <4>1
    <3>. QED BY <3>5, <3>6
  <2>. QED BY <2>5, <2>6
<1>2. PICK m \in S : \A x \in S : m >= x
  BY <1>1
<1>3. Max(S) \in S /\ \A x \in S : Max(S) >= x
  BY <1>2 DEF Max
<1>. QED BY <1>3

LEMMA SmallestExists ==
  ASSUME NEW S, S \subseteq Nat, S # {}
  PROVE  /\ Min(S) \in S /\ \A x \in S : Min(S) <= x
<1>1. PICK m \in S : \A x \in S : m <= x
  BY LeastNatural
<1>. QED BY <1>1 DEF Min

LEMMA SmallerOfTwo ==
  ASSUME NEW a \in Nat, NEW b \in Nat
  PROVE  Min({a, b}) = IF a <= b THEN a ELSE b
<1>. DEFINE S == {a, b}
<1>1. Min(S) \in S /\ \A x \in S : Min(S) <= x
  BY SmallestExists
<1>. HIDE DEF Min
<1>. QED BY <1>1

\* More numbers have no smaller maximum.
LEMMA LargestGrows ==
  ASSUME NEW S, NEW T, S \subseteq T, IsFiniteSet(T), T \subseteq Int, S # {}
  PROVE  Max(S) \in Int /\ Max(T) \in Int /\ Max(S) <= Max(T)
<1>1. IsFiniteSet(S) /\ S \subseteq Int /\ T # {}
  BY FS_Subset
<1>2. Max(S) \in S
  BY <1>1, LargestExists
<1>3. Max(T) \in T /\ \A x \in T : x <= Max(T)
  BY <1>1, LargestExists
<1>. QED BY <1>1, <1>2, <1>3
\* A part of a finite set is finite and has no more members.
LEMMA NoMoreInPart ==
  ASSUME NEW S, NEW T, S \subseteq T, IsFiniteSet(T)
  PROVE  /\ IsFiniteSet(S) /\ Cardinality(S) \in Nat /\ Cardinality(T) \in Nat
         /\ Cardinality(S) <= Cardinality(T)
  BY FS_Subset, FS_CardinalityType

LEMMA ImageIsFinite ==
  ASSUME NEW S, IsFiniteSet(S), NEW f
  PROVE  IsFiniteSet({f[i] : i \in S})
<1>. DEFINE T == {f[i] : i \in S}
            g == [i \in S |-> f[i]]
<1>1. g \in Surjection(S, T)
  BY DEF Surjection
<1>. HIDE DEF g, T
<1>2. IsFiniteSet(T)
  BY <1>1, FS_Surjection
<1>. QED BY <1>2 DEF T

-----------------------------------------------------------------------------
(* Ladder: type correctness *)

\* What a transaction that is open looks like.
LEMMA OpenIsTransaction ==
  ASSUME TypeOK, NEW w \in Workers, tx[w].pc # "idle"
  PROVE  tx[w] \in Transaction
  BY DEF TypeOK, Idle

LEMMA CommitTypes ==
  ASSUME TypeOK, NEW w \in Workers, tx[w] \in Transaction, Commit(w)
  PROVE  /\ tx' \in [Workers -> Transaction \cup {Idle}]
         /\ tracker' \in [Users -> [Ips -> Int]]
<1>1. tx[w].user \in Users /\ tx[w].ip \in Ips /\ tx[w].start \in Int
  BY DEF Transaction
<1>2. tracker' \in [Users -> [Ips -> Int]]
  BY <1>1 DEF Commit, TypeOK
<1>. QED BY <1>2 DEF Commit, TypeOK

LEMMA CountedSoFarType ==
  ASSUME NEW win \in [count : Nat, started : Int], NEW at \in Nat
  PROVE  CountedSoFar(win, at) \in [count : Nat, started : Int]
  BY DEF CountedSoFar

LEMMA CountEventTypes ==
  ASSUME TypeOK, NEW x \in Transaction, CountEvent(x)
  PROVE  /\ window' \in [Users -> [count : Nat, started : Int]]
         /\ counted' \in [Users -> Seq(Nat)]
<1>1. x.user \in Users /\ x.count \in Nat /\ x.started \in Int /\ x.at \in Nat
  BY DEF Transaction
<1>2. counted[x.user] \in Seq(Nat)
  BY <1>1 DEF TypeOK
<1>3. Append(counted[x.user], x.at) \in Seq(Nat)
  BY <1>1, <1>2
<1>. QED BY <1>1, <1>3 DEF CountEvent, TypeOK

LEMMA WriteStrikeTypes ==
  ASSUME TypeOK, NEW x \in Transaction, NEW n \in Nat, WriteStrike(x, n + 1)
  PROVE  /\ violations' \in [Users -> [strikes : Nat, until : Int]]
         /\ struck' \in [Users -> Seq(Nat)]
<1>1. x.user \in Users /\ x.at \in Nat
  BY DEF Transaction
<1>2. Duration(n + 1) \in Nat
  BY LadderAssumption DEF Duration
<1>3. Append(struck[x.user], n + 1) \in Seq(Nat)
  BY <1>1 DEF TypeOK
<1>4. violations' \in [Users -> [strikes : Nat, until : Int]]
  <2>. DEFINE r == [strikes |-> n + 1, until |-> x.at + Duration(n + 1)]
  <2>1. r \in [strikes : Nat, until : Int]
    BY <1>1, <1>2
  <2>2. violations' = [violations EXCEPT ![x.user] = r]
    BY DEF WriteStrike
  <2>. HIDE DEF r
  <2>. QED BY <1>1, <2>1, <2>2 DEF TypeOK
<1>5. struck' \in [Users -> Seq(Nat)]
  BY <1>1, <1>3 DEF WriteStrike, TypeOK
<1>. QED BY <1>4, <1>5

LEMMA TypeStep ==
  ASSUME TypeOK, [Next]_vars
  PROVE  TypeOK'
<1>1. CASE UNCHANGED vars
  BY <1>1 DEF TypeOK, vars, limiterVars, historyVars
<1>2. ASSUME NEW w \in Workers, NEW u \in Users, NEW ip \in Ips,
             NEW punishable \in BOOLEAN, NEW tracked \in BOOLEAN,
             Begin(w, u, ip, punishable, tracked)
      PROVE  TypeOK'
  <2>. DEFINE begun ==
         [pc |-> "plan", user |-> u, ip |-> ip, punishable |-> punishable, tracked |-> tracked,
          start |-> IF tracked /\ tracker[u][ip] = None THEN now ELSE tracker[u][ip],
          settings |-> settings, at |-> 0, count |-> 0, started |-> None]
  <2>1. tracker[u][ip] \in Int
    BY DEF TypeOK
  <2>2. begun \in Transaction
    <3>1. /\ (IF tracked /\ tracker[u][ip] = None THEN now ELSE tracker[u][ip]) \in Int
          /\ settings \in Settings
      BY <2>1 DEF TypeOK
    <3>2. None \in Int
      BY DEF None
    <3>. QED BY <3>1, <3>2 DEF Transaction
  <2>3. tx' = [tx EXCEPT ![w] = begun]
    BY <1>2 DEF Begin
  <2>. HIDE DEF begun
  <2>4. tx' \in [Workers -> Transaction \cup {Idle}]
    BY <2>2, <2>3 DEF TypeOK
  <2>5. events' \in Nat
    BY <1>2 DEF TypeOK, Begin
  <2>. QED BY <1>2, <2>4, <2>5 DEF TypeOK, Begin, limiterVars, historyVars
<1>3. ASSUME NEW w \in Workers, SuppressByUsage(w) \/ RefuseIgnored(w) \/ Warn(w)
      PROVE  TypeOK'
  <2>1. tx[w] \in Transaction
    BY <1>3, OpenIsTransaction DEF SuppressByUsage, RefuseIgnored, Warn
  <2>2. Commit(w)
    BY <1>3 DEF SuppressByUsage, RefuseIgnored, Warn
  <2>. QED BY <1>3, <2>1, <2>2, CommitTypes
           DEF TypeOK, SuppressByUsage, RefuseIgnored, Warn, limiterVars, historyVars
<1>4. ASSUME NEW w \in Workers, ReadWindow(w)
      PROVE  TypeOK'
  <2>. DEFINE sofar == CountedSoFar(window[tx[w].user], now)
  <2>1. tx[w] \in Transaction
    BY <1>4, OpenIsTransaction DEF ReadWindow
  <2>2. tx[w].user \in Users
    BY <2>1 DEF Transaction
  <2>3. sofar \in [count : Nat, started : Int]
    BY <2>2, CountedSoFarType DEF TypeOK
  <2>. HIDE DEF sofar
  <2>. DEFINE read == [tx[w] EXCEPT !.pc = "count", !.settings = settings, !.at = now,
                                    !.count = sofar.count + 1, !.started = sofar.started]
  <2>4. sofar.count + 1 \in Nat /\ sofar.started \in Int /\ settings \in Settings /\ now \in Nat
    BY <2>3 DEF TypeOK
  <2>5. read \in Transaction
    BY <2>1, <2>4 DEF Transaction
  <2>6. tx' = [tx EXCEPT ![w] = read]
    BY <1>4 DEF ReadWindow, TypeOK, sofar
  <2>. HIDE DEF read
  <2>7. tx' \in [Workers -> Transaction \cup {Idle}]
    BY <2>5, <2>6 DEF TypeOK
  <2>. QED BY <1>4, <2>7 DEF TypeOK, ReadWindow, limiterVars, historyVars
<1>5. ASSUME NEW w \in Workers, Refuse(w)
      PROVE  TypeOK'
  <2>1. tx[w] \in Transaction /\ CountEvent(tx[w]) /\ Commit(w)
    BY <1>5, OpenIsTransaction DEF Refuse
  <2>. QED BY <1>5, <2>1, CommitTypes, CountEventTypes DEF TypeOK, Refuse
<1>6. ASSUME NEW w \in Workers, Admit(w)
      PROVE  TypeOK'
  <2>1. tx[w] \in Transaction /\ CountEvent(tx[w]) /\ Commit(w) /\ Trigger(tx[w])
    BY <1>6, OpenIsTransaction DEF Admit
  <2>2. tx[w].user \in Users /\ tx[w].at \in Nat
    BY <2>1 DEF Transaction
  <2>3. cooldown' \in [Users -> Int]
    BY SMTT(30), <2>1, <2>2, LadderAssumption DEF Trigger, CooldownUntil, TypeOK
  <2>4. ignore' \in [Users -> Int]
    <3>1. tx[w].at + IgnoreSeconds \in Int
      BY <2>2, LadderAssumption
    <3>2. CASE IgnoreSeconds > 0
      BY <2>1, <2>2, <3>1, <3>2 DEF Trigger, TypeOK
    <3>3. CASE ~(IgnoreSeconds > 0)
      BY <2>1, <3>3 DEF Trigger, TypeOK
    <3>. QED BY <3>2, <3>3
  <2>5. triggers' \in [Users -> Seq([at : Nat, until : Nat])]
    <3>. DEFINE trigger == [at |-> tx[w].at, until |-> tx[w].at + CooldownSeconds]
    <3>1. trigger \in [at : Nat, until : Nat]
      BY <2>2, LadderAssumption
    <3>2. triggers' = [triggers EXCEPT ![tx[w].user] = Append(@, trigger)]
      BY <2>1 DEF Trigger
    <3>. HIDE DEF trigger
    <3>3. Append(triggers[tx[w].user], trigger) \in Seq([at : Nat, until : Nat])
      BY <2>2, <3>1 DEF TypeOK
    <3>. QED BY <2>2, <3>2, <3>3 DEF TypeOK
  <2>6. /\ violations' \in [Users -> [strikes : Nat, until : Int]]
        /\ struck' \in [Users -> Seq(Nat)]
    <3>1. CASE ~Enforced(tx[w])
      BY <1>6, <3>1 DEF Admit, TypeOK
    <3>2. CASE Enforced(tx[w])
      <4>1. violations[tx[w].user].strikes \in Nat
        BY <2>2 DEF TypeOK
      <4>2. WriteStrike(tx[w], violations[tx[w].user].strikes + 1)
        BY <1>6, <3>2 DEF Admit, NextStrike
      <4>. HIDE DEF WriteStrike
      <4>. QED BY <2>1, <4>1, <4>2, WriteStrikeTypes
    <3>. QED BY <3>1, <3>2
  <2>. QED BY <1>6, <2>1, <2>3, <2>4, <2>5, <2>6, CommitTypes, CountEventTypes DEF TypeOK, Admit
<1>7. ASSUME NEW w \in Workers, ReadStrikes(w)
      PROVE  TypeOK'
  <2>1. tx[w] \in Transaction
    BY <1>7, OpenIsTransaction DEF ReadStrikes
  <2>2. tx[w].user \in Users
    BY <2>1 DEF Transaction
  <2>. DEFINE read == [tx[w] EXCEPT !.pc = "strike", !.settings = settings, !.at = now,
                                    !.count = violations[tx[w].user].strikes]
  <2>3. violations[tx[w].user].strikes \in Nat /\ settings \in Settings /\ now \in Nat
    BY <2>2 DEF TypeOK
  <2>4. read \in Transaction
    BY <2>1, <2>3 DEF Transaction
  <2>5. tx' = [tx EXCEPT ![w] = read] /\ loose' = [loose EXCEPT ![tx[w].user] = @ \/ ~Serialized]
    BY <1>7, <2>1 DEF ReadStrikes, TypeOK, Transaction
  <2>. HIDE DEF read
  <2>6. tx' \in [Workers -> Transaction \cup {Idle}]
    BY <2>4, <2>5 DEF TypeOK
  <2>7. loose' \in [Users -> BOOLEAN]
    BY <2>2, <2>5, LadderAssumption DEF TypeOK
  <2>. QED BY <1>7, <2>6, <2>7 DEF TypeOK, ReadStrikes, limiterVars, historyVars
<1>8. ASSUME NEW w \in Workers, Strike(w)
      PROVE  TypeOK'
  <2>1. tx[w] \in Transaction /\ Commit(w)
    BY <1>8, OpenIsTransaction DEF Strike
  <2>2. tx[w].count \in Nat
    BY <2>1 DEF Transaction
  <2>3. WriteStrike(tx[w], tx[w].count + 1)
    BY <1>8 DEF Strike, NextStrike
  <2>. QED BY <1>8, <2>1, <2>2, <2>3, CommitTypes, WriteStrikeTypes
           DEF TypeOK, Strike, limiterVars
<1>9. ASSUME NEW w \in Workers, Abort(w)
      PROVE  TypeOK'
  BY <1>9 DEF TypeOK, Abort, limiterVars, historyVars
<1>10. ASSUME NEW s \in SettingsInUse, ChangeSettings(s)
       PROVE  TypeOK'
  BY <1>10, LadderAssumption DEF TypeOK, ChangeSettings, limiterVars, historyVars
<1>11. CASE Tick
  BY <1>11 DEF TypeOK, Tick, limiterVars, historyVars
<1>. QED BY <1>1, <1>2, <1>3, <1>4, <1>5, <1>6, <1>7, <1>8, <1>9, <1>10, <1>11 DEF Next

LEMMA TypeInit == Init => TypeOK
<1>. SUFFICES ASSUME Init PROVE TypeOK
  OBVIOUS
<1>1. tracker \in [Users -> [Ips -> Int]]
  BY DEF Init, None
<1>. QED BY <1>1, LadderAssumption DEF Init, TypeOK, NoWindow, None

\* The tables, the open transactions and what they read have the types the
\* columns of the schema and the code of the limiter give them.
THEOREM TypeCorrect == Spec => []TypeOK
<1>. QED BY TypeInit, TypeStep, PTL DEF Spec

-----------------------------------------------------------------------------
(* Ladder: cooldowns.  What makes CooldownsAreKept inductive: the row of the table  *)
(* is the latest end of all cooldowns a user has had.                       *)

\* What Append does.
LEMMA Appended ==
  ASSUME NEW S, NEW seq \in Seq(S), NEW e \in S
  PROVE  /\ Len(seq) \in Nat /\ DOMAIN seq = 1..Len(seq)
         /\ DOMAIN Append(seq, e) = 1..(Len(seq) + 1)
         /\ Len(Append(seq, e)) = Len(seq) + 1
         /\ \A i \in 1..Len(seq) : Append(seq, e)[i] = seq[i] /\ seq[i] \in S
         /\ Append(seq, e)[Len(seq) + 1] = e
  OBVIOUS

CooldownIsLatest ==
  \A u \in Users : \A i \in DOMAIN triggers[u] :
    cooldown[u] # None /\ triggers[u][i].until <= cooldown[u]

CooldownInv == TypeOK /\ CooldownIsLatest /\ CooldownsAreKept

\* Every action but Admit leaves the cooldowns and the triggers alone.
LEMMA OnlyAdmitTriggers ==
  ASSUME [Next]_vars, \A w \in Workers : ~Admit(w)
  PROVE  UNCHANGED <<cooldown, triggers>>
  BY ZenonT(60) DEF Next, vars, Begin, SuppressByUsage, RefuseIgnored, ReadWindow, Refuse, ReadStrikes,
         Warn, Strike, Abort, ChangeSettings, Tick, limiterVars, historyVars

LEMMA CooldownStep ==
  ASSUME CooldownInv, [Next]_vars
  PROVE  CooldownInv'
<1>1. TypeOK'
  BY TypeStep DEF CooldownInv
<1>2. CASE \A w \in Workers : ~Admit(w)
  <2>1. UNCHANGED <<cooldown, triggers>>
    BY <1>2, OnlyAdmitTriggers
  <2>. QED BY <1>1, <2>1 DEF CooldownInv, CooldownIsLatest, CooldownsAreKept
<1>3. ASSUME NEW w \in Workers, Admit(w)
      PROVE  CooldownInv'
  <2>. DEFINE x == tx[w]
              u == x.user
              trigger == [at |-> x.at, until |-> x.at + CooldownSeconds]
              n == Len(triggers[u])
  <2>1. x \in Transaction /\ ~CoolingDown(x) /\ Trigger(x)
    BY <1>3, OpenIsTransaction DEF Admit, CooldownInv
  <2>2. u \in Users /\ x.at \in Nat
    BY <2>1 DEF Transaction
  <2>3. cooldown' = [cooldown EXCEPT ![u] = x.at + CooldownSeconds]
    BY <2>1 DEF Trigger, CooldownUntil
  <2>4. triggers' = [triggers EXCEPT ![u] = Append(@, trigger)]
    BY <2>1 DEF Trigger
  <2>5. triggers[u] \in Seq([at : Nat, until : Nat]) /\ trigger \in [at : Nat, until : Nat]
    BY SMTT(30), <2>2, LadderAssumption DEF CooldownInv, TypeOK
  <2>6. /\ triggers'[u] = Append(triggers[u], trigger)
        /\ cooldown'[u] = x.at + CooldownSeconds
    BY <2>2, <2>3, <2>4 DEF CooldownInv, TypeOK
  <2>. DEFINE TriggerRow == [at : Nat, until : Nat]
  <2>. HIDE DEF trigger, TriggerRow
  <2>7. \A i \in 1..n : triggers'[u][i] = triggers[u][i] /\ triggers[u][i] \in TriggerRow
    <3>1. triggers[u] \in Seq(TriggerRow) /\ trigger \in TriggerRow
      BY <2>5 DEF TriggerRow
    <3>. HIDE DEF u
    <3>. QED BY <2>6, <3>1, Appended
  <2>8. /\ DOMAIN triggers[u] = 1..n /\ DOMAIN triggers'[u] = 1..(n + 1)
        /\ triggers'[u][n + 1] = trigger /\ n \in Nat
    BY <2>5, <2>6, Appended DEF TriggerRow
  <2>9. \A i \in 1..n : triggers[u][i].until \in Nat /\ triggers[u][i].until <= x.at
    <3>1. TAKE i \in 1..n
    <3>2. triggers[u][i].until \in Nat
      BY <2>7 DEF TriggerRow
    <3>3. cooldown[u] # None /\ triggers[u][i].until <= cooldown[u]
      BY <2>2, <2>8 DEF CooldownInv, CooldownIsLatest
    <3>4. cooldown[u] \in Int /\ cooldown[u] <= x.at
      BY SMTT(30), <2>1, <2>2, <3>3 DEF CoolingDown, CooldownInv, TypeOK
    <3>. QED BY <2>2, <3>2, <3>3, <3>4
  <2>10. n \in Nat
    BY <2>8
  <2>11. trigger.at = x.at /\ trigger.until = x.at + CooldownSeconds
    BY DEF trigger
  <2>. HIDE DEF n, u
  <2>12. \A i \in DOMAIN triggers'[u] : cooldown'[u] # None /\ triggers'[u][i].until <= cooldown'[u]
    <3>1. SUFFICES ASSUME NEW i \in 1..(n + 1)
                   PROVE  cooldown'[u] # None /\ triggers'[u][i].until <= cooldown'[u]
      BY <2>8
    <3>2. cooldown'[u] = x.at + CooldownSeconds /\ CooldownSeconds \in Nat /\ x.at \in Nat
      BY <2>2, <2>6, LadderAssumption
    <3>3. CASE i = n + 1
      BY <2>8, <2>11, <3>2, <3>3 DEF None
    <3>4. CASE i \in 1..n
      BY <2>7, <2>9, <3>2, <3>4 DEF None
    <3>. QED BY <2>10, <3>3, <3>4
  <2>13. \A i, j \in DOMAIN triggers'[u] : i < j => triggers'[u][j].at >= triggers'[u][i].until
    <3>1. SUFFICES ASSUME NEW i \in 1..(n + 1), NEW j \in 1..(n + 1), i < j
                   PROVE  triggers'[u][j].at >= triggers'[u][i].until
      BY <2>8
    <3>2. i \in 1..n
      BY <2>10, <3>1
    <3>3. CASE j = n + 1
      BY <2>2, <2>7, <2>8, <2>9, <2>11, <3>2, <3>3
    <3>4. CASE j \in 1..n
      BY <2>2, <2>7, <2>8, <3>1, <3>2, <3>4 DEF CooldownInv, CooldownsAreKept, u
    <3>. QED BY <2>10, <3>3, <3>4
  <2>14. \A v \in Users \ {u} : triggers'[v] = triggers[v] /\ cooldown'[v] = cooldown[v]
    BY <2>3, <2>4 DEF CooldownInv, TypeOK
  <2>15. CooldownIsLatest'
    BY <2>12, <2>14 DEF CooldownInv, CooldownIsLatest
  <2>16. CooldownsAreKept'
    BY <2>13, <2>14 DEF CooldownInv, CooldownsAreKept
  <2>. QED BY <1>1, <2>15, <2>16 DEF CooldownInv
<1>. QED BY <1>2, <1>3

\* However transactions overlap, and on either backend, two triggers of the
\* limiter for one user are a cooldown apart.
THEOREM CooldownsKept == Spec => []CooldownsAreKept
<1>1. Init => CooldownInv
  BY TypeInit DEF Init, CooldownInv, CooldownIsLatest, CooldownsAreKept
<1>2. CooldownInv => CooldownsAreKept
  BY DEF CooldownInv
<1>. QED BY <1>1, <1>2, CooldownStep, PTL DEF Spec

-----------------------------------------------------------------------------
(* Ladder: strikes.  What makes StrikesAreNumbered inductive: violations holds the  *)
(* length of the history, and a transaction that read the strikes without   *)
(* a lock still sees that length, because on SQLite it is alone.            *)

OneAtATime == Serialized => \A v, w \in Workers : Open(v) /\ Open(w) => v = w

ReadersAreMarked == \A w \in Workers : tx[w].pc = "strike" => Serialized \/ loose[tx[w].user]

StrikesAreCounted ==
  \A u \in Users : ~loose[u] => violations[u].strikes = Len(struck[u])

ReadingsAreFresh ==
  \A w \in Workers : tx[w].pc = "strike" /\ ~loose[tx[w].user]
                        => tx[w].count = violations[tx[w].user].strikes

LadderInv ==
  OneAtATime /\ ReadersAreMarked /\ StrikesAreCounted /\ ReadingsAreFresh /\ StrikesAreNumbered

StrikeInv == TypeOK /\ LadderInv

\* A transaction that ends without a strike.
LEMMA EndKeeps ==
  ASSUME StrikeInv, NEW w \in Workers, tx' = [tx EXCEPT ![w] = Idle],
         UNCHANGED <<violations, struck, loose>>
  PROVE  LadderInv'
<1>1. \A v \in Workers : tx'[v] = IF v = w THEN Idle ELSE tx[v]
  BY DEF StrikeInv, TypeOK
<1>2. \A v \in Workers : (tx'[v].pc = "strike" \/ Open(v)') => tx'[v] = tx[v]
  BY <1>1 DEF Open, Idle
<1>. QED BY <1>1, <1>2 DEF StrikeInv, LadderInv, OneAtATime, ReadersAreMarked, StrikesAreCounted,
            ReadingsAreFresh, StrikesAreNumbered, Open

\* A transaction that ends with a strike, numbered after the last one unless
\* its user is loose.
LEMMA StrikeKeeps ==
  ASSUME StrikeInv, NEW w \in Workers, tx[w] \in Transaction, NEW n \in Nat,
         ~loose[tx[w].user] => n = Len(struck[tx[w].user]),
         WriteStrike(tx[w], n + 1), tx' = [tx EXCEPT ![w] = Idle], loose' = loose
  PROVE  LadderInv'
<1>. DEFINE u == tx[w].user
<1>1. u \in Users /\ struck[u] \in Seq(Nat)
  BY DEF Transaction, StrikeInv, TypeOK
<1>2. \A v \in Workers : tx'[v] = IF v = w THEN Idle ELSE tx[v]
  BY DEF StrikeInv, TypeOK
<1>3. \A v \in Workers : (tx'[v].pc = "strike" \/ Open(v)') => v # w /\ tx'[v] = tx[v] /\ Open(v)
  BY <1>2 DEF Open, Idle
<1>4. Open(w)
  BY DEF Open, Idle, Transaction
<1>5. \A v \in Users \ {u} : violations'[v] = violations[v] /\ struck'[v] = struck[v]
  BY <1>1 DEF WriteStrike, StrikeInv, TypeOK
<1>6. struck'[u] = Append(struck[u], n + 1) /\ violations'[u].strikes = n + 1
  BY <1>1 DEF WriteStrike, StrikeInv, TypeOK
<1>. HIDE DEF u
<1>7. OneAtATime'
  BY <1>3 DEF StrikeInv, LadderInv, OneAtATime
<1>8. ReadersAreMarked'
  BY <1>3 DEF StrikeInv, LadderInv, ReadersAreMarked
<1>9. StrikesAreCounted'
  <2>1. ~loose[u] => violations'[u].strikes = Len(struck'[u])
    BY <1>1, <1>6, Appended DEF u
  <2>. QED BY <1>5, <2>1 DEF StrikeInv, LadderInv, StrikesAreCounted
<1>10. ReadingsAreFresh'
  <2>1. SUFFICES ASSUME NEW v \in Workers, tx'[v].pc = "strike", ~loose[tx'[v].user]
                 PROVE  tx'[v].count = violations'[tx'[v].user].strikes
    BY DEF ReadingsAreFresh
  <2>2. v # w /\ tx'[v] = tx[v] /\ Open(v)
    BY <1>3, <2>1
  <2>3. Serialized
    BY <2>1, <2>2 DEF StrikeInv, LadderInv, ReadersAreMarked
  <2>. QED BY <1>4, <2>2, <2>3 DEF StrikeInv, LadderInv, OneAtATime
<1>11. StrikesAreNumbered'
  <2>1. \A i \in DOMAIN struck'[u] : ~loose[u] => struck'[u][i] = i
    <3>1. SUFFICES ASSUME NEW i \in 1..(Len(struck[u]) + 1), ~loose[u]
                   PROVE  struck'[u][i] = i
      BY <1>1, <1>6, Appended
    <3>2. CASE i = Len(struck[u]) + 1
      BY <1>1, <1>6, <3>1, <3>2, Appended DEF u
    <3>3. CASE i \in 1..Len(struck[u])
      BY <1>1, <1>6, <3>1, <3>3, Appended DEF StrikeInv, LadderInv, StrikesAreNumbered
    <3>4. Len(struck[u]) \in Nat
      BY <1>1
    <3>. QED BY <3>2, <3>3, <3>4
  <2>. QED BY <1>5, <2>1 DEF StrikeInv, LadderInv, StrikesAreNumbered
<1>. QED BY <1>7, <1>8, <1>9, <1>10, <1>11 DEF LadderInv

LEMMA StrikeStep ==
  ASSUME StrikeInv, [Next]_vars
  PROVE  StrikeInv'
<1>. SUFFICES LadderInv'
  BY TypeStep DEF StrikeInv
<1>1. CASE UNCHANGED <<tx, violations, struck, loose>>
  BY <1>1 DEF StrikeInv, LadderInv, OneAtATime, ReadersAreMarked, StrikesAreCounted,
       ReadingsAreFresh, StrikesAreNumbered, Open
<1>2. ASSUME NEW w \in Workers, NEW u \in Users, NEW ip \in Ips,
             NEW punishable \in BOOLEAN, NEW tracked \in BOOLEAN,
             Begin(w, u, ip, punishable, tracked)
      PROVE  LadderInv'
  <2>1. \A v \in Workers : v # w => tx'[v] = tx[v]
    BY <1>2 DEF Begin, StrikeInv, TypeOK
  <2>2. tx'[w].pc = "plan"
    BY <1>2 DEF Begin, StrikeInv, TypeOK
  <2>3. Serialized => \A v \in Workers : ~Open(v)
    BY <1>2 DEF Begin
  <2>4. UNCHANGED <<violations, struck, loose>>
    BY <1>2 DEF Begin, historyVars
  <2>5. OneAtATime'
    BY <2>1, <2>3 DEF OneAtATime, Open
  <2>6. ReadersAreMarked' /\ ReadingsAreFresh'
    BY <2>1, <2>2, <2>4 DEF StrikeInv, LadderInv, ReadersAreMarked, ReadingsAreFresh
  <2>. QED BY <2>4, <2>5, <2>6 DEF StrikeInv, LadderInv, StrikesAreCounted, StrikesAreNumbered
<1>3. ASSUME NEW w \in Workers,
             SuppressByUsage(w) \/ RefuseIgnored(w) \/ Warn(w) \/ Refuse(w) \/ Abort(w)
      PROVE  LadderInv'
  <2>1. tx' = [tx EXCEPT ![w] = Idle] /\ UNCHANGED <<violations, struck, loose>>
    BY <1>3 DEF SuppressByUsage, RefuseIgnored, Warn, Refuse, Abort, Commit, historyVars
  <2>. QED BY <2>1, EndKeeps
<1>4. ASSUME NEW w \in Workers, ReadWindow(w)
      PROVE  LadderInv'
  <2>1. tx[w] \in Transaction
    BY <1>4, OpenIsTransaction DEF ReadWindow, StrikeInv
  <2>2. \A v \in Workers : v # w => tx'[v] = tx[v]
    BY <1>4 DEF ReadWindow, StrikeInv, TypeOK
  <2>3. tx'[w].pc = "count" /\ Open(w)
    BY <1>4, <2>1 DEF ReadWindow, StrikeInv, TypeOK, Transaction, Open, Idle
  <2>4. UNCHANGED <<violations, struck, loose>>
    BY <1>4 DEF ReadWindow, historyVars
  <2>5. OneAtATime'
    BY <2>2, <2>3 DEF StrikeInv, LadderInv, OneAtATime, Open
  <2>6. ReadersAreMarked' /\ ReadingsAreFresh'
    BY <2>2, <2>3, <2>4 DEF StrikeInv, LadderInv, ReadersAreMarked, ReadingsAreFresh
  <2>. QED BY <2>4, <2>5, <2>6 DEF StrikeInv, LadderInv, StrikesAreCounted, StrikesAreNumbered
<1>5. ASSUME NEW w \in Workers, Admit(w)
      PROVE  LadderInv'
  <2>1. tx[w] \in Transaction /\ tx' = [tx EXCEPT ![w] = Idle] /\ loose' = loose
    BY <1>5, OpenIsTransaction DEF Admit, Commit, StrikeInv
  <2>2. CASE ~Enforced(tx[w])
    BY <1>5, <2>1, <2>2, EndKeeps DEF Admit
  <2>3. CASE Enforced(tx[w])
    <3>. DEFINE n == violations[tx[w].user].strikes
    <3>1. tx[w].user \in Users
      BY <2>1 DEF Transaction
    <3>2. n \in Nat /\ (~loose[tx[w].user] => n = Len(struck[tx[w].user]))
      BY <3>1 DEF StrikeInv, LadderInv, StrikesAreCounted, TypeOK
    <3>3. WriteStrike(tx[w], n + 1)
      BY <1>5, <2>3 DEF Admit, NextStrike
    <3>. HIDE DEF n
    <3>. QED BY <2>1, <3>2, <3>3, StrikeKeeps
  <2>. QED BY <2>2, <2>3
<1>6. ASSUME NEW w \in Workers, ReadStrikes(w)
      PROVE  LadderInv'
  <2>. DEFINE u == tx[w].user
  <2>1. tx[w] \in Transaction
    BY <1>6, OpenIsTransaction DEF ReadStrikes, StrikeInv
  <2>2. u \in Users
    BY <2>1 DEF Transaction
  <2>3. \A v \in Workers : v # w => tx'[v] = tx[v]
    BY <1>6 DEF ReadStrikes, StrikeInv, TypeOK
  <2>4. tx'[w].pc = "strike" /\ tx'[w].user = u /\ tx'[w].count = violations[u].strikes /\ Open(w)
    BY <1>6, <2>1 DEF ReadStrikes, StrikeInv, TypeOK, Transaction, Open, Idle
  <2>5. loose' = [loose EXCEPT ![u] = loose[u] \/ ~Serialized] /\ UNCHANGED <<violations, struck>>
    BY <1>6, <2>1 DEF ReadStrikes, historyVars, Transaction
  <2>6. \A v \in Users : loose[v] => loose'[v]
    BY <2>2, <2>5 DEF StrikeInv, TypeOK
  <2>7. Serialized \/ loose'[u]
    BY <2>2, <2>5 DEF StrikeInv, TypeOK
  <2>. HIDE DEF u
  <2>8. OneAtATime'
    BY <2>3, <2>4 DEF StrikeInv, LadderInv, OneAtATime, Open
  <2>9. \A v \in Workers : v # w /\ tx[v].pc = "strike" => tx[v].user \in Users
    BY OpenIsTransaction DEF StrikeInv, Transaction
  <2>10. ReadersAreMarked'
    BY <2>3, <2>4, <2>6, <2>7, <2>9 DEF StrikeInv, LadderInv, ReadersAreMarked
  <2>11. ReadingsAreFresh'
    BY <2>3, <2>4, <2>5, <2>6, <2>9 DEF StrikeInv, LadderInv, ReadingsAreFresh
  <2>. QED BY <2>5, <2>6, <2>8, <2>10, <2>11 DEF StrikeInv, LadderInv, StrikesAreCounted, StrikesAreNumbered
<1>7. ASSUME NEW w \in Workers, Strike(w)
      PROVE  LadderInv'
  <2>1. tx[w] \in Transaction /\ tx' = [tx EXCEPT ![w] = Idle] /\ loose' = loose
    BY <1>7, OpenIsTransaction DEF Strike, Commit, StrikeInv
  <2>2. tx[w].user \in Users /\ tx[w].count \in Nat
    BY <2>1 DEF Transaction
  <2>3. ~loose[tx[w].user] => tx[w].count = Len(struck[tx[w].user])
    BY <1>7, <2>2 DEF Strike, StrikeInv, LadderInv, StrikesAreCounted, ReadingsAreFresh
  <2>4. WriteStrike(tx[w], tx[w].count + 1)
    BY <1>7 DEF Strike, NextStrike
  <2>. QED BY <2>1, <2>2, <2>3, <2>4, StrikeKeeps
<1>8. CASE UNCHANGED vars \/ Tick \/ \E s \in SettingsInUse : ChangeSettings(s)
  BY <1>1, <1>8 DEF vars, Tick, ChangeSettings, historyVars
<1>. QED BY <1>2, <1>3, <1>4, <1>5, <1>6, <1>7, <1>8 DEF Next

\* A user's strikes are numbered without gaps or repetitions, for any number
\* of workers: on SQLite always, on PostgreSQL while the limiter is on.
THEOREM StrikesNumbered == Spec => []StrikesAreNumbered
<1>1. Init => StrikeInv
  <2>. SUFFICES ASSUME Init PROVE LadderInv
    BY TypeInit DEF StrikeInv
  <2>1. \A w \in Workers : ~Open(w) /\ tx[w].pc = "idle"
    BY DEF Init, Open, Idle
  <2>. QED BY <2>1 DEF Init, LadderInv, OneAtATime, ReadersAreMarked, StrikesAreCounted,
              ReadingsAreFresh, StrikesAreNumbered
<1>2. StrikeInv => StrikesAreNumbered
  BY DEF StrikeInv, LadderInv
<1>. QED BY <1>1, <1>2, StrikeStep, PTL DEF Spec

-----------------------------------------------------------------------------
(* Ladder: triggers.  What makes TriggersAreEarned hold: a window never holds more  *)
(* than was counted since it started, nor does a transaction that read it.  *)

\* The events a user's limiter counted at or after a time.
Since(seq, from) == {k \in DOMAIN seq : seq[k] >= from}

LEMMA SinceFinite ==
  ASSUME NEW seq \in Seq(Nat), NEW from \in Int
  PROVE  IsFiniteSet(Since(seq, from)) /\ Cardinality(Since(seq, from)) \in Nat
<1>1. IsFiniteSet(1..Len(seq))
  BY FS_Interval
<1>2. Since(seq, from) \in SUBSET (1..Len(seq))
  BY DEF Since
<1>. QED BY <1>1, <1>2, FS_Subset, FS_CardinalityType

\* One more event is one more since every time that is not later.
LEMMA SinceAppend ==
  ASSUME NEW seq \in Seq(Nat), NEW from \in Int, NEW at \in Nat
  PROVE  /\ Cardinality(Since(seq, from)) <= Cardinality(Since(Append(seq, at), from))
         /\ at >= from => Cardinality(Since(Append(seq, at), from)) = Cardinality(Since(seq, from)) + 1
<1>. DEFINE n == Len(seq) + 1
<1>1. IsFiniteSet(Since(seq, from)) /\ Cardinality(Since(seq, from)) \in Nat
  BY SinceFinite
<1>2. n \notin Since(seq, from)
  BY DEF Since
<1>3. CASE at >= from
  <2>1. Since(Append(seq, at), from) = Since(seq, from) \cup {n}
    BY <1>3, Appended DEF Since
  <2>2. Cardinality(Since(seq, from) \cup {n}) = Cardinality(Since(seq, from)) + 1
    BY <1>1, <1>2, FS_AddElement
  <2>. QED BY <1>1, <2>1, <2>2
<1>4. CASE ~(at >= from)
  <2>1. Since(Append(seq, at), from) = Since(seq, from)
    BY <1>4, Appended DEF Since
  <2>. QED BY <1>1, <1>4, <2>1
<1>. QED BY <1>3, <1>4

\* The later the time, the fewer events since then.
LEMMA SinceLater ==
  ASSUME NEW seq \in Seq(Nat), NEW from \in Int, NEW later \in Int, from <= later
  PROVE  Cardinality(Since(seq, later)) <= Cardinality(Since(seq, from))
<1>1. Since(seq, later) \in SUBSET Since(seq, from)
  BY DEF Since
<1>. QED BY <1>1, SinceFinite, FS_Subset

WindowIsCounted(u) ==
  /\ window[u].started <= now
  /\ window[u].count <= Cardinality(Since(counted[u], window[u].started))

ReadingIsCounted(w) ==
  LET x == tx[w] IN
  x.pc = "count" =>
    /\ x.started <= x.at /\ x.at <= now /\ x.at - x.started <= WindowSeconds
    /\ x.count <= Cardinality(Since(counted[x.user], x.started)) + 1

CountInv ==
  /\ TypeOK
  /\ \A u \in Users : WindowIsCounted(u)
  /\ \A w \in Workers : ReadingIsCounted(w)

\* Steps that count nothing and read no window.
LEMMA QuietCounts ==
  ASSUME CountInv, UNCHANGED <<window, counted>>, now' \in Nat, now <= now',
         \A w \in Workers : tx'[w].pc = "count" => tx'[w] = tx[w]
  PROVE  /\ \A u \in Users : WindowIsCounted(u)'
         /\ \A w \in Workers : ReadingIsCounted(w)'
<1>1. ASSUME NEW u \in Users PROVE WindowIsCounted(u)'
  <2>1. window[u].started \in Int /\ window[u].started <= now /\ now \in Nat
    BY DEF CountInv, TypeOK, WindowIsCounted
  <2>2. window[u].started <= now'
    BY <2>1
  <2>. QED BY <2>2 DEF CountInv, WindowIsCounted
<1>2. ASSUME NEW w \in Workers PROVE ReadingIsCounted(w)'
  <2>1. SUFFICES ASSUME tx'[w].pc = "count" PROVE ReadingIsCounted(w)'
    BY DEF ReadingIsCounted
  <2>2. tx'[w] = tx[w] /\ tx[w] \in Transaction
    BY <2>1, OpenIsTransaction DEF CountInv
  <2>3. tx[w].at \in Nat /\ now \in Nat /\ tx[w].at <= now
    BY <2>1, <2>2 DEF CountInv, TypeOK, ReadingIsCounted, Transaction
  <2>4. tx[w].at <= now'
    BY <2>3
  <2>. QED BY <2>1, <2>2, <2>4 DEF CountInv, ReadingIsCounted
<1>. QED BY <1>1, <1>2

\* A transaction that counts its event and ends.
LEMMA CountingKeeps ==
  ASSUME CountInv, NEW w \in Workers, tx[w].pc = "count", CountEvent(tx[w]),
         tx' = [tx EXCEPT ![w] = Idle], now' = now
  PROVE  /\ \A u \in Users : WindowIsCounted(u)'
         /\ \A v \in Workers : ReadingIsCounted(v)'
         /\ tx[w].count <= Cardinality(Since(counted'[tx[w].user], tx[w].started))
<1>. DEFINE x == tx[w]
            u == x.user
<1>1. x \in Transaction
  BY OpenIsTransaction DEF CountInv
<1>2. u \in Users /\ x.at \in Nat /\ x.started \in Int /\ x.count \in Nat
  BY <1>1 DEF Transaction
<1>3. counted[u] \in Seq(Nat) /\ now \in Nat
  BY <1>2 DEF CountInv, TypeOK
<1>4. /\ x.started <= x.at /\ x.at <= now
      /\ x.count <= Cardinality(Since(counted[u], x.started)) + 1
  BY DEF CountInv, ReadingIsCounted
<1>5. /\ counted'[u] = Append(counted[u], x.at)
      /\ window'[u].count = x.count /\ window'[u].started = x.started
      /\ \A v \in Users \ {u} : counted'[v] = counted[v] /\ window'[v] = window[v]
  BY <1>2 DEF CountEvent, CountInv, TypeOK
<1>6. \A from \in Int : Cardinality(Since(counted[u], from)) \in Nat
                        /\ Cardinality(Since(counted'[u], from)) \in Nat
  <2>1. counted'[u] \in Seq(Nat)
    BY <1>2, <1>3, <1>5
  <2>. QED BY <1>3, <2>1, SinceFinite
<1>7. \A from \in Int : Cardinality(Since(counted[u], from)) <= Cardinality(Since(counted'[u], from))
  BY <1>2, <1>3, <1>5, SinceAppend
<1>8. Cardinality(Since(counted'[u], x.started)) = Cardinality(Since(counted[u], x.started)) + 1
  BY <1>2, <1>3, <1>4, <1>5, SinceAppend
<1>9. x.count <= Cardinality(Since(counted'[u], x.started))
  BY <1>4, <1>8
<1>10. \A v \in Workers : v # w => tx'[v] = tx[v]
  BY DEF CountInv, TypeOK
<1>11. tx'[w].pc # "count"
  BY DEF CountInv, TypeOK, Idle
<1>. HIDE DEF u, x
<1>12. ASSUME NEW v \in Users PROVE WindowIsCounted(v)'
  <2>1. CASE v = u
    <3>1. window'[u].started <= now'
      BY <1>2, <1>3, <1>4, <1>5
    <3>. QED BY <1>5, <1>9, <2>1, <3>1 DEF WindowIsCounted
  <2>2. CASE v # u
    BY <1>5, <2>2 DEF CountInv, WindowIsCounted
  <2>. QED BY <2>1, <2>2
<1>13. ASSUME NEW v \in Workers PROVE ReadingIsCounted(v)'
  <2>1. SUFFICES ASSUME tx'[v].pc = "count" PROVE ReadingIsCounted(v)'
    BY DEF ReadingIsCounted
  <2>2. v # w /\ tx'[v] = tx[v] /\ tx[v] \in Transaction
    <3>1. v # w /\ tx'[v] = tx[v]
      BY <1>10, <1>11, <2>1
    <3>. QED BY <2>1, <3>1, OpenIsTransaction DEF CountInv
  <2>3. tx[v].user \in Users /\ tx[v].started \in Int /\ tx[v].count \in Nat
    BY <2>2 DEF Transaction
  <2>. DEFINE old == Cardinality(Since(counted[tx[v].user], tx[v].started))
              new == Cardinality(Since(counted'[tx[v].user], tx[v].started))
  <2>4. old <= new /\ old \in Nat /\ new \in Nat
    <3>1. CASE tx[v].user = u
      BY <1>6, <1>7, <2>3, <3>1
    <3>2. CASE tx[v].user # u
      <4>1. counted'[tx[v].user] = counted[tx[v].user] /\ counted[tx[v].user] \in Seq(Nat)
        BY <1>5, <2>3, <3>2 DEF CountInv, TypeOK
      <4>. QED BY SMTT(30), <2>3, <4>1, SinceFinite
    <3>. QED BY <3>1, <3>2
  <2>5. tx[v].count <= old + 1
    BY <2>1, <2>2 DEF CountInv, ReadingIsCounted
  <2>6. tx[v].count <= new + 1
    <3>. HIDE DEF old, new
    <3>. QED BY <2>3, <2>4, <2>5
  <2>. QED BY <2>1, <2>2, <2>6 DEF CountInv, ReadingIsCounted
<1>. QED BY <1>9, <1>12, <1>13 DEF u, x

LEMMA CountStep ==
  ASSUME CountInv, [Next]_vars
  PROVE  CountInv'
<1>. SUFFICES /\ \A u \in Users : WindowIsCounted(u)'
              /\ \A v \in Workers : ReadingIsCounted(v)'
  BY TypeStep DEF CountInv
<1>1. now \in Nat
  BY DEF CountInv, TypeOK
<1>2. ASSUME NEW w \in Workers, NEW u \in Users, NEW ip \in Ips,
             NEW punishable \in BOOLEAN, NEW tracked \in BOOLEAN,
             Begin(w, u, ip, punishable, tracked)
      PROVE  /\ \A v \in Users : WindowIsCounted(v)'
             /\ \A v \in Workers : ReadingIsCounted(v)'
  <2>1. \A v \in Workers : tx'[v].pc = "count" => tx'[v] = tx[v]
    BY <1>2 DEF Begin, CountInv, TypeOK
  <2>. QED BY <1>1, <1>2, <2>1, QuietCounts DEF Begin, limiterVars, historyVars
<1>3. ASSUME NEW w \in Workers,
             SuppressByUsage(w) \/ RefuseIgnored(w) \/ Warn(w) \/ Strike(w) \/ Abort(w)
      PROVE  /\ \A v \in Users : WindowIsCounted(v)'
             /\ \A v \in Workers : ReadingIsCounted(v)'
  <2>1. tx' = [tx EXCEPT ![w] = Idle] /\ UNCHANGED <<now, window, counted>>
    BY <1>3 DEF SuppressByUsage, RefuseIgnored, Warn, Strike, Abort, Commit, limiterVars, historyVars
  <2>2. \A v \in Workers : tx'[v].pc = "count" => tx'[v] = tx[v]
    BY <2>1 DEF CountInv, TypeOK, Idle
  <2>. QED BY <1>1, <2>1, <2>2, QuietCounts
<1>4. ASSUME NEW w \in Workers, ReadWindow(w)
      PROVE  /\ \A v \in Users : WindowIsCounted(v)'
             /\ \A v \in Workers : ReadingIsCounted(v)'
  <2>. DEFINE u == tx[w].user
              sofar == CountedSoFar(window[u], now)
  <2>1. tx[w] \in Transaction
    BY <1>4, OpenIsTransaction DEF ReadWindow, CountInv
  <2>2. u \in Users /\ counted[u] \in Seq(Nat) /\ window[u] \in [count : Nat, started : Int]
    BY <2>1 DEF Transaction, CountInv, TypeOK
  <2>3. sofar \in [count : Nat, started : Int]
    BY <1>1, <2>2, CountedSoFarType
  <2>4. /\ sofar.started <= now /\ now - sofar.started <= WindowSeconds
        /\ sofar.count <= Cardinality(Since(counted[u], sofar.started))
    <3>1. CASE sofar = window[u] /\ now - window[u].started <= WindowSeconds
      BY <2>2, <3>1 DEF CountInv, WindowIsCounted
    <3>2. CASE sofar = [count |-> 0, started |-> now]
      <4>1. Cardinality(Since(counted[u], now)) \in Nat
        <5>1. now \in Int
          BY <1>1
        <5>. QED BY <2>2, <5>1, SinceFinite
      <4>2. sofar.count = 0 /\ sofar.started = now
        BY <3>2
      <4>. HIDE DEF sofar
      <4>. QED BY <1>1, <4>1, <4>2, LadderAssumption
    <3>. QED BY <3>1, <3>2 DEF CountedSoFar
  <2>. HIDE DEF sofar
  <2>5. tx' = [tx EXCEPT ![w] = [tx[w] EXCEPT !.pc = "count", !.settings = settings, !.at = now,
                                    !.count = sofar.count + 1, !.started = sofar.started]]
        /\ UNCHANGED <<now, window, counted>>
    BY <1>4 DEF ReadWindow, sofar, CountInv, TypeOK, limiterVars, historyVars
  <2>6. /\ tx'[w].at = now /\ tx'[w].count = sofar.count + 1 /\ tx'[w].started = sofar.started
        /\ tx'[w].user = u
        /\ \A v \in Workers : v # w => tx'[v] = tx[v]
    BY <2>1, <2>5 DEF CountInv, TypeOK, Transaction
  <2>. HIDE DEF u
  <2>7. \A v \in Users : WindowIsCounted(v)'
    BY <2>5 DEF CountInv, WindowIsCounted
  <2>8. ReadingIsCounted(w)'
    <3>1. Cardinality(Since(counted[u], sofar.started)) \in Nat
      BY <2>2, <2>3, SinceFinite
    <3>2. sofar.count + 1 <= Cardinality(Since(counted[u], sofar.started)) + 1
      BY <2>3, <2>4, <3>1
    <3>. QED BY <1>1, <2>4, <2>5, <2>6, <3>2 DEF ReadingIsCounted
  <2>9. \A v \in Workers : v # w => ReadingIsCounted(v)'
    BY <2>5, <2>6 DEF CountInv, ReadingIsCounted
  <2>. QED BY <2>7, <2>8, <2>9
<1>5. ASSUME NEW w \in Workers, Refuse(w) \/ Admit(w)
      PROVE  /\ \A v \in Users : WindowIsCounted(v)'
             /\ \A v \in Workers : ReadingIsCounted(v)'
  <2>1. tx[w].pc = "count" /\ CountEvent(tx[w]) /\ tx' = [tx EXCEPT ![w] = Idle] /\ now' = now
    BY <1>5 DEF Refuse, Admit, Commit
  <2>. QED BY <2>1, CountingKeeps
<1>6. ASSUME NEW w \in Workers, ReadStrikes(w)
      PROVE  /\ \A v \in Users : WindowIsCounted(v)'
             /\ \A v \in Workers : ReadingIsCounted(v)'
  <2>1. tx[w] \in Transaction
    BY <1>6, OpenIsTransaction DEF ReadStrikes, CountInv
  <2>2. tx'[w].pc = "strike" /\ \A v \in Workers : v # w => tx'[v] = tx[v]
    BY <1>6, <2>1 DEF ReadStrikes, CountInv, TypeOK, Transaction
  <2>. QED BY <1>1, <1>6, <2>2, QuietCounts DEF ReadStrikes, limiterVars, historyVars
<1>7. CASE UNCHANGED vars \/ Tick \/ \E s \in SettingsInUse : ChangeSettings(s)
  <2>1. UNCHANGED <<window, counted, tx>> /\ now' \in Nat /\ now <= now'
    BY <1>1, <1>7 DEF vars, Tick, ChangeSettings, limiterVars, historyVars
  <2>. QED BY <2>1, QuietCounts
<1>. QED BY <1>2, <1>3, <1>4, <1>5, <1>6, <1>7 DEF Next

\* However the transactions of one user overlap on PostgreSQL, the limiter
\* triggers only on Threshold events that it counted within one window: an
\* old reading that overwrites a newer window can lose counts, never add one.
THEOREM TriggersEarned == Spec => TriggersAreEarned
<1>1. Init => CountInv
  <2>. SUFFICES ASSUME Init PROVE /\ \A u \in Users : WindowIsCounted(u)
                                  /\ \A w \in Workers : ReadingIsCounted(w)
    BY TypeInit DEF CountInv
  <2>1. ASSUME NEW u \in Users PROVE WindowIsCounted(u)
    <3>1. window[u].count = 0 /\ window[u].started = -1 /\ now = 0 /\ counted[u] = <<>>
      BY DEF Init, NoWindow, None
    <3>2. Cardinality(Since(counted[u], -1)) \in Nat
      <4>1. counted[u] \in Seq(Nat) /\ -1 \in Int
        BY <3>1
      <4>. QED BY <4>1, SinceFinite
    <3>. QED BY <3>1, <3>2 DEF WindowIsCounted
  <2>2. \A w \in Workers : ReadingIsCounted(w)
    BY DEF Init, ReadingIsCounted, Idle
  <2>. QED BY <2>1, <2>2
<1>2. ASSUME CountInv, [Next]_vars, NEW u \in Users, Len(triggers'[u]) > Len(triggers[u])
      PROVE  LET at == triggers'[u][Len(triggers'[u])].at IN
             Cardinality({k \in DOMAIN counted'[u] : counted'[u][k] >= at - WindowSeconds}) >= Threshold
  <2>1. triggers[u] \in Seq([at : Nat, until : Nat]) /\ Len(triggers[u]) \in Nat
    BY <1>2 DEF CountInv, TypeOK
  <2>2. triggers' # triggers
    BY <1>2, <2>1
  <2>3. PICK w \in Workers : Admit(w)
    BY <1>2, <2>2, OnlyAdmitTriggers
  <2>. DEFINE x == tx[w]
  <2>4. /\ x.pc = "count" /\ x.count >= Threshold /\ CountEvent(x) /\ Trigger(x)
        /\ tx' = [tx EXCEPT ![w] = Idle] /\ now' = now
    BY <2>3 DEF Admit, Commit
  <2>5. x \in Transaction
    BY <1>2, <2>4, OpenIsTransaction DEF CountInv
  <2>6. x.user \in Users /\ x.at \in Nat /\ x.started \in Int /\ x.count \in Nat
    BY <2>5 DEF Transaction
  <2>7. u = x.user
    <3>1. \A v \in Users \ {x.user} : triggers'[v] = triggers[v]
      BY <1>2, <2>4 DEF Trigger, CountInv, TypeOK
    <3>. QED BY <1>2, <2>1, <3>1
  <2>8. triggers'[u][Len(triggers'[u])].at = x.at
    <3>. DEFINE trigger == [at |-> x.at, until |-> x.at + CooldownSeconds]
                Rows == [at : Nat, until : Nat]
    <3>1. trigger \in Rows
      BY <2>6, LadderAssumption
    <3>2. triggers'[u] = Append(triggers[u], trigger)
      BY <1>2, <2>4, <2>6, <2>7 DEF Trigger, CountInv, TypeOK
    <3>3. trigger.at = x.at
      OBVIOUS
    <3>. HIDE DEF trigger, Rows, x
    <3>4. triggers[u] \in Seq(Rows)
      BY <2>1 DEF Rows
    <3>. QED BY <3>1, <3>2, <3>3, <3>4, Appended
  <2>9. x.count <= Cardinality(Since(counted'[u], x.started))
    BY <1>2, <2>4, <2>7, CountingKeeps
  <2>10. x.at - WindowSeconds <= x.started
    <3>1. x.at - x.started <= WindowSeconds
      BY <1>2, <2>4 DEF CountInv, ReadingIsCounted
    <3>. QED BY <2>6, <3>1, LadderAssumption, SMTT(30)
  <2>11. /\ counted'[u] \in Seq(Nat)
         /\ x.at - WindowSeconds \in Int /\ x.started \in Int
    <3>1. TypeOK'
      BY <1>2, TypeStep DEF CountInv
    <3>2. counted'[u] \in Seq(Nat)
      BY <1>2, <3>1 DEF TypeOK
    <3>. QED BY <2>6, <3>2, LadderAssumption
  <2>12. Cardinality(Since(counted'[u], x.started)) <= Cardinality(Since(counted'[u], x.at - WindowSeconds))
    BY <2>10, <2>11, SinceLater
  <2>13. /\ Cardinality(Since(counted'[u], x.started)) \in Nat
         /\ Cardinality(Since(counted'[u], x.at - WindowSeconds)) \in Nat
    BY <2>11, SinceFinite
  <2>14. Threshold \in Nat
    BY LadderAssumption DEF Threshold
  <2>. HIDE DEF x
  <2>15. Cardinality(Since(counted'[u], x.at - WindowSeconds)) >= Threshold
    BY <2>4, <2>6, <2>9, <2>12, <2>13, <2>14
  <2>. QED BY <2>8, <2>15 DEF Since
<1>3. CountInv /\ [Next]_vars =>
        [\A u \in Users : Len(triggers'[u]) > Len(triggers[u]) =>
           LET at == triggers'[u][Len(triggers'[u])].at IN
           Cardinality({k \in DOMAIN counted'[u] : counted'[u][k] >= at - WindowSeconds})
             >= Threshold]_vars
  BY <1>2
<1>. QED BY <1>1, <1>3, CountStep, PTL DEF Spec, TriggersAreEarned

-----------------------------------------------------------------------------
(* CaseFiles: the inductive invariant *)

Profile == [at : Nat, covers : SUBSET Nat]

Request ==
  {NoRequest}
    \cup [step : {"record"}, case : Nat, at : Nat]
    \cup [step : {"profile"}, case : Nat, event : Nat]
    \cup [step : {"write"}, case : Nat, event : Nat, profile : Profile]
    \cup [step : {"check", "build"}, case : Nat, read : Case]
    \cup [step : {"persist"}, case : Nat, profile : Profile]

CaseTypes ==
  /\ clock \in Nat
  /\ log \in Seq(Event)
  /\ cases \in Seq(Case)
  /\ profiles \in Seq(Profile) /\ Len(profiles) = Len(cases)
  /\ agent \in [Agents -> Request]
  /\ migrated \in BOOLEAN
  /\ faults \in Nat

\* Nothing is dated later than now.
DatedBefore ==
  /\ \A e \in DOMAIN log : log[e].at <= clock
  /\ \A c \in DOMAIN cases : cases[c].updated <= clock /\ cases[c].lastRepeat <= clock

\* What an agent has read is of the case it works on.
Remembered(a) ==
  LET x == agent[a] IN
  /\ x.step # "idle" => x.case \in DOMAIN cases
  /\ x.step = "record" => x.at <= clock
  /\ x.step \in {"check", "build"} =>
       x.read.scope = cases[x.case].scope /\ x.read.updated <= clock
  /\ x.step \in {"profile", "write"} =>
       x.event \in DOMAIN log /\ log[x.event].scope = cases[x.case].scope

CaseInv == CaseTypes /\ DatedBefore /\ \A a \in Agents : Remembered(a)

\* At that time, an event that profile p of a case of scope s leaves out is
\* dated no earlier than the profile, which is not of the future.
LeavesOutLater(list, at, p, s) ==
  /\ p.at <= at
  /\ \A e \in Sightings(list, s) \ p.covers : list[e].recheck \/ list[e].at >= p.at

ProfileInv ==
  /\ \A c \in DOMAIN cases : LeavesOutLater(log, clock, profiles[c], cases[c].scope)
  /\ \A a \in Agents : agent[a].step \in {"write", "persist"} =>
       LeavesOutLater(log, clock, agent[a].profile, cases[agent[a].case].scope)

\* Before the backfill the counts are the repeats of the older version.
NotCountedYet ==
  /\ \A a \in Agents : agent[a].step = "idle"
  /\ Len(log) = Len(cases)
  /\ \A c \in DOMAIN cases :
       /\ log[c].scope = cases[c].scope /\ log[c].counted = cases[c].repeats
       /\ cases[c].repeats >= 1 /\ cases[c].hits = 0

\* A recheck counts a hit when it writes, for an event of its own.
ToBeCounted(a) == agent[a].step \in {"profile", "write"}
CountedOnce ==
  /\ \A a \in Agents : ToBeCounted(a) => log[agent[a].event].counted = 0
  /\ \A a, b \in Agents : ToBeCounted(a) /\ ToBeCounted(b) /\ a # b =>
       agent[a].event # agent[b].event

HitInv == HitsAddUp /\ (~migrated => NotCountedYet) /\ CountedOnce

-----------------------------------------------------------------------------
\* A bounded set of numbers has a greatest one.
LEMMA GreatestNatural ==
  ASSUME NEW T, T \subseteq Nat, T # {}, NEW b \in Nat, \A x \in T : x <= b
  PROVE  \E n \in T : \A m \in T : m <= n
<1>. DEFINE U == {b - x : x \in T}
<1>1. U \subseteq Nat /\ U # {}
  <2>1. \A x \in T : b - x \in Nat
    OBVIOUS
  <2>. QED BY <2>1
<1>2. PICK u \in U : \A m \in U : u <= m
  <2>. HIDE DEF U
  <2>. QED BY <1>1, LeastNatural
<1>3. PICK n \in T : u = b - n
  OBVIOUS
<1>4. ASSUME NEW m \in T PROVE m <= n
  <2>1. b - n <= b - m
    <3>1. b - m \in U
      OBVIOUS
    <3>. HIDE DEF U
    <3>. QED BY <1>2, <1>3, <3>1
  <2>2. n \in Nat /\ m \in Nat
    OBVIOUS
  <2>. QED BY <2>1, <2>2
<1>. QED BY <1>4

LEMMA MaxIsGreatest ==
  ASSUME NEW T, T \subseteq Nat, T # {}, NEW b \in Nat, \A x \in T : x <= b
  PROVE  Max(T) \in T /\ \A m \in T : m <= Max(T)
<1>1. PICK n \in T : \A m \in T : m <= n
  BY GreatestNatural
<1>2. \A m \in T : n >= m
  BY <1>1
<1>3. Max(T) \in T /\ \A m \in T : Max(T) >= m
  <2>1. \E x \in T : \A y \in T : x >= y
    BY <1>2
  <2>. QED BY <2>1, Zenon DEF Max
<1>4. ASSUME NEW m \in T PROVE m <= Max(T)
  <2>1. m \in Nat /\ Max(T) \in Nat /\ Max(T) >= m
    BY <1>3
  <2>. QED BY <2>1
<1>. QED BY <1>3, <1>4

LEMMA MinIsLeast ==
  ASSUME NEW T, T \subseteq Nat, T # {}
  PROVE  Min(T) \in T
<1>1. PICK n \in T : \A m \in T : n <= m
  BY LeastNatural
<1>. QED BY <1>1, Zenon DEF Min

LEMMA CaseTyped ==
  ASSUME CaseTypes, NEW c \in DOMAIN cases
  PROVE  /\ c \in 1..Len(cases) /\ cases[c] \in Case
         /\ profiles[c] \in Profile /\ c \in DOMAIN profiles
<1>1. cases \in Seq(Case) /\ profiles \in Seq(Profile) /\ Len(profiles) = Len(cases)
  BY DEF CaseTypes
<1>2. c \in 1..Len(cases) /\ DOMAIN profiles = 1..Len(cases)
  BY <1>1
<1>. QED BY <1>1, <1>2

LEMMA EventTyped ==
  ASSUME CaseTypes, NEW e \in DOMAIN log
  PROVE  e \in 1..Len(log) /\ log[e] \in Event
<1>1. log \in Seq(Event)
  BY DEF CaseTypes
<1>. QED BY <1>1

\* Of the cases of a set there is a last updated, and a newest of these.
LastOf(D) ==
  CHOOSE c \in D : \A d \in D :
    \/ cases[c].updated > cases[d].updated
    \/ cases[c].updated = cases[d].updated /\ c >= d

LEMMA LastOfIsMember ==
  ASSUME CaseTypes, DatedBefore, NEW D, D \subseteq DOMAIN cases, D # {}
  PROVE  LastOf(D) \in D
<1>. DEFINE T == {cases[c].updated : c \in D}
<1>1. \A c \in D : c \in Nat /\ c <= Len(cases) /\ cases[c].updated \in Nat /\ cases[c].updated <= clock
  <2>1. ASSUME NEW c \in D
        PROVE  c \in Nat /\ c <= Len(cases) /\ cases[c].updated \in Nat /\ cases[c].updated <= clock
    <3>1. c \in DOMAIN cases
      OBVIOUS
    <3>. QED BY <3>1, CaseTyped DEF DatedBefore, Case
  <2>. QED BY <2>1
<1>2. Len(cases) \in Nat /\ clock \in Nat
  BY DEF CaseTypes
<1>3. PICK u \in T : \A v \in T : v <= u
  <2>1. T \subseteq Nat /\ T # {} /\ \A x \in T : x <= clock
    BY <1>1
  <2>. HIDE DEF T
  <2>. QED BY <1>2, <2>1, GreatestNatural
<1>. DEFINE U == {c \in D : cases[c].updated = u}
<1>4. PICK c \in U : \A d \in U : d <= c
  <2>1. U \subseteq Nat /\ U # {} /\ \A x \in U : x <= Len(cases)
    BY <1>1
  <2>. HIDE DEF U
  <2>. QED BY <1>2, <2>1, GreatestNatural
<1>5. ASSUME NEW d \in D
      PROVE  \/ cases[c].updated > cases[d].updated
             \/ cases[c].updated = cases[d].updated /\ c >= d
  <2>1. cases[d].updated <= u /\ cases[c].updated = u /\ c \in D
    BY <1>3
  <2>2. cases[d].updated = u => d <= c
    BY <1>4
  <2>3. c \in Nat /\ d \in Nat /\ cases[d].updated \in Nat /\ u \in Nat
    BY <1>1, <2>1
  <2>. QED BY <2>1, <2>2, <2>3
<1>6. c \in D
  OBVIOUS
<1>. QED BY <1>5, <1>6 DEF LastOf

LEMMA CurrentIsLive ==
  ASSUME CaseTypes, DatedBefore, NEW s, Live(s) # {}
  PROVE  Current(s) \in Live(s)
<1>1. Current(s) = LastOf(Live(s))
  BY DEF Current, LastOf
<1>2. Live(s) \subseteq DOMAIN cases
  BY DEF Live
<1>. QED BY <1>1, <1>2, LastOfIsMember

LEMMA SurvivorIsDuplicate ==
  ASSUME CaseTypes, DatedBefore, NEW s, Duplicates(s) # {}
  PROVE  Survivor(s) \in Duplicates(s)
<1>1. Survivor(s) = LastOf(Duplicates(s))
  BY DEF Survivor, LastOf
<1>2. Duplicates(s) \subseteq DOMAIN cases
  BY DEF Duplicates
<1>. QED BY <1>1, <1>2, LastOfIsMember

-----------------------------------------------------------------------------
\* What every step does: events and cases are added, never taken away, and
\* keep their scope; an event that is added is one of a recheck, or of now.
Grows ==
  /\ clock <= clock'
  /\ Len(log) <= Len(log') /\ Len(cases) <= Len(cases')
  /\ \A c \in DOMAIN cases : cases'[c].scope = cases[c].scope
  /\ \A e \in DOMAIN log :
       log'[e].scope = log[e].scope /\ log'[e].at = log[e].at /\ log'[e].recheck = log[e].recheck
  /\ \A e \in DOMAIN log' \ DOMAIN log : log'[e].recheck \/ log'[e].at >= clock

LEMMA RequestTyped ==
  ASSUME CaseTypes, NEW a \in Agents
  PROVE  /\ agent[a].step = "idle" => agent[a] = NoRequest
         /\ agent[a].step # "idle" => agent[a].case \in Nat
         /\ agent[a].step = "record" => agent[a].at \in Nat
         /\ agent[a].step \in {"profile", "write"} => agent[a].event \in Nat
         /\ agent[a].step \in {"write", "persist"} => agent[a].profile \in Profile
         /\ agent[a].step \in {"check", "build"} => agent[a].read \in Case
<1>1. agent[a] \in Request
  BY DEF CaseTypes
<1>. QED BY <1>1 DEF Request, NoRequest

LEMMA AgentMoves ==
  ASSUME CaseTypes, NEW a \in Agents, NEW r \in Request, agent' = [agent EXCEPT ![a] = r]
  PROVE  /\ agent' \in [Agents -> Request] /\ agent'[a] = r
         /\ \A b \in Agents \ {a} : agent'[b] = agent[b]
  BY DEF CaseTypes

\* What an agent remembers stays true.
LEMMA StillRemembered ==
  ASSUME CaseTypes, CaseTypes', Grows, NEW a \in Agents, Remembered(a), agent'[a] = agent[a]
  PROVE  Remembered(a)'
<1>. DEFINE x == agent[a]
<1>1. /\ log \in Seq(Event) /\ log' \in Seq(Event) /\ cases \in Seq(Case) /\ cases' \in Seq(Case)
      /\ clock \in Nat /\ clock' \in Nat
  BY DEF CaseTypes
<1>2. DOMAIN cases \subseteq DOMAIN cases' /\ DOMAIN log \subseteq DOMAIN log'
  BY <1>1 DEF Grows
<1>3. x.step # "idle" => x.case \in DOMAIN cases /\ cases'[x.case].scope = cases[x.case].scope
  BY DEF Remembered, Grows
<1>4. x.step = "record" => x.at <= clock'
  <2>1. x.step = "record" => x.at \in Nat /\ x.at <= clock
    BY RequestTyped DEF Remembered
  <2>. QED BY <1>1, <2>1 DEF Grows
<1>5. x.step \in {"check", "build"} => x.read.scope = cases'[x.case].scope /\ x.read.updated <= clock'
  <2>1. x.step \in {"check", "build"} => x.read.updated \in Nat /\ x.read.updated <= clock
    BY RequestTyped DEF Remembered, Case
  <2>. QED BY <1>1, <1>3, <2>1 DEF Grows, Remembered
<1>6. x.step \in {"profile", "write"} => x.event \in DOMAIN log /\ log'[x.event].scope = cases'[x.case].scope
  BY <1>3 DEF Grows, Remembered
<1>. QED BY <1>2, <1>3, <1>4, <1>5, <1>6 DEF Remembered

\* Where the cases and the log stay, nothing is disturbed.
LEMMA QuietGrows ==
  ASSUME CaseTypes, log' = log, cases' = cases, clock' = clock
  PROVE  Grows /\ (DatedBefore => DatedBefore')
  BY DEF CaseTypes, Grows, DatedBefore

LEMMA BuiltIsProfile ==
  ASSUME NEW list \in Seq(Event), NEW s, NEW at \in Nat
  PROVE  Built(list, s, at) \in Profile
<1>1. Sightings(list, s) \subseteq Nat
  <2>1. DOMAIN list \subseteq Nat
    OBVIOUS
  <2>. QED BY <2>1 DEF Sightings
<1>. QED BY <1>1 DEF Built, Profile

\* What an event adds to the log.
LEMMA EventIsAdded ==
  ASSUME CaseTypes, DatedBefore, NEW new \in Event, new.at <= clock, new.recheck \/ new.at = clock,
         log' = Append(log, new)
  PROVE  /\ log' \in Seq(Event) /\ Len(log') = Len(log) + 1 /\ Len(log) \in Nat
         /\ log'[Len(log) + 1] = new
         /\ DOMAIN log' = DOMAIN log \cup {Len(log) + 1} /\ Len(log) + 1 \notin DOMAIN log
         /\ \A e \in DOMAIN log : log'[e] = log[e]
         /\ \A e \in DOMAIN log' : log'[e].at <= clock
         /\ \A e \in DOMAIN log' \ DOMAIN log : log'[e].recheck \/ log'[e].at >= clock
<1>1. log \in Seq(Event) /\ clock \in Nat
  BY DEF CaseTypes
<1>2. /\ log' \in Seq(Event) /\ Len(log') = Len(log) + 1 /\ Len(log) \in Nat
      /\ log'[Len(log) + 1] = new
      /\ DOMAIN log' = DOMAIN log \cup {Len(log) + 1} /\ Len(log) + 1 \notin DOMAIN log
      /\ \A e \in DOMAIN log : log'[e] = log[e]
  BY <1>1
<1>. QED BY <1>1, <1>2 DEF DatedBefore

LEMMA LogStep ==
  ASSUME CaseInv, NEW s \in Scopes, Log(s)
  PROVE  CaseInv' /\ Grows
<1>. DEFINE new == [scope |-> s, at |-> clock, recheck |-> FALSE, counted |-> 0]
<1>0. CaseTypes /\ DatedBefore
  BY DEF CaseInv
<1>1. clock \in Nat /\ new \in Event /\ new.at = clock
  BY <1>0 DEF CaseTypes, Event
<1>2. log' = Append(log, new) /\ UNCHANGED <<clock, cases, profiles, agent, migrated, faults>>
  BY DEF Log
<1>. HIDE DEF new
<1>3. clock <= clock /\ Len(cases) \in Nat
  BY <1>0, <1>1 DEF CaseTypes
<1>4. CaseTypes'
  BY <1>0, <1>1, <1>2, <1>3, EventIsAdded DEF CaseTypes
<1>5. Grows
  <2>1. \A c \in DOMAIN cases : cases'[c].scope = cases[c].scope
    BY <1>2
  <2>. QED BY <1>0, <1>1, <1>2, <1>3, <2>1, EventIsAdded DEF Grows
<1>6. DatedBefore'
  BY <1>0, <1>1, <1>2, <1>3, EventIsAdded DEF DatedBefore
<1>7. \A a \in Agents : Remembered(a)'
  BY <1>0, <1>2, <1>4, <1>5, StillRemembered DEF CaseInv
<1>. QED BY <1>4, <1>5, <1>6, <1>7 DEF CaseInv

LEMMA ReopenedIsCase ==
  ASSUME NEW c \in Case, NEW e \in Nat, NEW at \in Nat, c.lastRepeat <= at
  PROVE  /\ Reopened(c, e, at) \in Case
         /\ Reopened(c, e, at).scope = c.scope /\ Reopened(c, e, at).hits = c.hits + 1
         /\ Reopened(c, e, at).updated <= at /\ Reopened(c, e, at).lastRepeat <= at
<1>. DEFINE repeats == IF Repeated(c, at) THEN c.repeats + 1 ELSE c.repeats
            last == IF Repeated(c, at) THEN at ELSE c.lastRepeat
            hits == c.hits + 1
<1>1. repeats \in Nat /\ last \in Nat /\ last <= at /\ hits \in Nat
  BY DEF Case
<1>2. Reopened(c, e, at) =
        [c EXCEPT !.status = "OPEN", !.latest = e, !.updated = at, !.hits = hits,
                  !.repeats = repeats, !.lastRepeat = last]
  BY DEF Reopened, Case
<1>. HIDE DEF repeats, last, hits
<1>3. Reopened(c, e, at) \in Case
  <2>1. e \in Nat /\ at \in Nat
    OBVIOUS
  <2>2. c \in Case
    OBVIOUS
  <2>. QED BY ONLY <1>1, <1>2, <2>1, <2>2 DEF Case
<1>4. /\ Reopened(c, e, at).scope = c.scope /\ Reopened(c, e, at).hits = hits
      /\ Reopened(c, e, at).updated = at /\ Reopened(c, e, at).lastRepeat = last
  BY <1>2 DEF Case
<1>. QED BY <1>1, <1>3, <1>4 DEF hits

\* What filing an event does to the case of its scope.
LEMMA FiledCase ==
  ASSUME CaseInv, NEW s \in Scopes, File(s), Live(s) # {}
  PROVE  /\ Current(s) \in DOMAIN cases /\ cases[Current(s)].scope = s
         /\ cases' = [cases EXCEPT ![Current(s)] = Reopened(cases[Current(s)], Len(log) + 1, clock)]
         /\ profiles' = [profiles EXCEPT ![Current(s)] =
                           Built(log', s, clock)]
<1>1. Current(s) \in Live(s)
  BY CurrentIsLive DEF CaseInv
<1>. QED BY <1>1 DEF File, Live

LEMMA OpenedCase ==
  ASSUME CaseInv, NEW s \in Scopes, File(s), Live(s) = {}
  PROVE  /\ cases' = Append(cases, Opened(s, Len(log) + 1, clock))
         /\ profiles' = Append(profiles, Built(log', s, clock))
  BY DEF File

LEMMA FileStep ==
  ASSUME CaseInv, NEW s \in Scopes, File(s)
  PROVE  CaseInv' /\ Grows
<1>. DEFINE new == [scope |-> s, at |-> clock, recheck |-> FALSE, counted |-> 1]
            n == Len(log) + 1
<1>0. CaseTypes /\ DatedBefore
  BY DEF CaseInv
<1>1. clock \in Nat /\ new \in Event /\ new.at = clock
  BY <1>0 DEF CaseTypes, Event
<1>2. log' = Append(log, new) /\ UNCHANGED <<clock, agent, migrated, faults>>
  BY DEF File
<1>. HIDE DEF new
<1>3. /\ clock <= clock /\ cases \in Seq(Case) /\ profiles \in Seq(Profile) /\ Len(profiles) = Len(cases)
      /\ Len(cases) \in Nat
  BY <1>0, <1>1 DEF CaseTypes
<1>4. log' \in Seq(Event) /\ n \in Nat
  BY <1>0, <1>1, <1>2, <1>3, EventIsAdded
<1>5. Built(log', s, clock) \in Profile
  BY <1>1, <1>4, BuiltIsProfile
<1>6. /\ cases' \in Seq(Case) /\ profiles' \in Seq(Profile) /\ Len(profiles') = Len(cases')
      /\ Len(cases) <= Len(cases')
      /\ \A c \in DOMAIN cases : cases'[c].scope = cases[c].scope
      /\ \A c \in DOMAIN cases' : cases'[c].updated <= clock /\ cases'[c].lastRepeat <= clock
  <2>1. CASE Live(s) # {}
    <3>. DEFINE k == Current(s)
                r == Reopened(cases[k], n, clock)
    <3>1. /\ k \in DOMAIN cases /\ cases[k].scope = s
          /\ cases' = [cases EXCEPT ![k] = r]
          /\ profiles' = [profiles EXCEPT ![k] = Built(log', s, clock)]
      BY <2>1, FiledCase
    <3>2. r \in Case /\ r.scope = s /\ r.updated <= clock /\ r.lastRepeat <= clock
      <4>1. cases[k] \in Case /\ cases[k].lastRepeat <= clock
        BY <1>0, <3>1, CaseTyped DEF DatedBefore
      <4>. QED BY <1>1, <1>4, <3>1, <4>1, ReopenedIsCase
    <3>3. \A c \in DOMAIN cases : cases[c].updated <= clock /\ cases[c].lastRepeat <= clock
      BY <1>0 DEF DatedBefore
    <3>. HIDE DEF k, r
    <3>4. DOMAIN cases' = DOMAIN cases /\ \A c \in DOMAIN cases : cases'[c] = IF c = k THEN r ELSE cases[c]
      BY <1>3, <3>1
    <3>5. cases' \in Seq(Case) /\ profiles' \in Seq(Profile) /\ Len(profiles') = Len(cases')
          /\ Len(cases) <= Len(cases')
      BY <1>3, <1>5, <3>1, <3>2
    <3>. QED BY <3>1, <3>2, <3>3, <3>4, <3>5
  <2>2. CASE Live(s) = {}
    <3>. DEFINE r == Opened(s, n, clock)
    <3>1. /\ cases' = Append(cases, r)
          /\ profiles' = Append(profiles, Built(log', s, clock))
      BY <2>2, OpenedCase
    <3>2. r \in Case /\ r.updated <= clock /\ r.lastRepeat <= clock
      BY <1>1, <1>3, <1>4 DEF Opened, Case
    <3>. HIDE DEF r
    <3>. QED BY <1>0, <1>3, <1>5, <3>1, <3>2 DEF DatedBefore
  <2>. QED BY <2>1, <2>2
<1>7. CaseTypes'
  BY <1>0, <1>2, <1>4, <1>6 DEF CaseTypes
<1>8. Grows
  BY <1>0, <1>1, <1>2, <1>3, <1>6, EventIsAdded DEF Grows
<1>9. DatedBefore'
  BY <1>0, <1>1, <1>2, <1>3, <1>6, EventIsAdded DEF DatedBefore
<1>10. \A a \in Agents : Remembered(a)'
  BY <1>0, <1>2, <1>7, <1>8, StillRemembered DEF CaseInv
<1>. QED BY <1>7, <1>8, <1>9, <1>10 DEF CaseInv

LEMMA ReplacedInSequence ==
  ASSUME NEW S, NEW q \in Seq(S), NEW i \in DOMAIN q, NEW r \in S
  PROVE  [q EXCEPT ![i] = r] \in Seq(S) /\ Len([q EXCEPT ![i] = r]) = Len(q)
  OBVIOUS

\* The steps of an agent that leave the cases and the log alone.
LEMMA AgentStep ==
  ASSUME CaseInv, NEW a \in Agents, NEW r \in Request, agent' = [agent EXCEPT ![a] = r],
         UNCHANGED <<clock, log, cases, migrated>>,
         profiles' \in Seq(Profile), Len(profiles') = Len(profiles), faults' \in Nat,
         agent'[a] = r => Remembered(a)'
  PROVE  CaseInv' /\ Grows
<1>0. CaseTypes /\ DatedBefore /\ \A b \in Agents : Remembered(b)
  BY DEF CaseInv
<1>1. /\ agent' \in [Agents -> Request] /\ agent'[a] = r
      /\ \A b \in Agents \ {a} : agent'[b] = agent[b]
  BY <1>0, AgentMoves
<1>2. CaseTypes'
  BY <1>0, <1>1 DEF CaseTypes
<1>3. Grows /\ DatedBefore'
  BY <1>0, QuietGrows
<1>4. \A b \in Agents : Remembered(b)'
  BY <1>0, <1>1, <1>2, <1>3, StillRemembered
<1>. QED BY <1>2, <1>3, <1>4 DEF CaseInv

LEMMA RestingRemembers ==
  ASSUME NEW a \in Agents, agent'[a] = NoRequest
  PROVE  Remembered(a)'
  BY DEF Remembered, NoRequest

LEMMA RecheckStartStep ==
  ASSUME CaseInv, NEW a \in Agents, NEW c \in DOMAIN cases, RecheckStart(a, c)
  PROVE  CaseInv' /\ Grows
<1>. DEFINE r == [step |-> "record", case |-> c, at |-> clock]
<1>1. CaseTypes /\ clock \in Nat /\ c \in Nat /\ clock <= clock
  BY CaseTyped DEF CaseInv, CaseTypes
<1>2. r \in Request /\ agent' = [agent EXCEPT ![a] = r]
      /\ UNCHANGED <<clock, log, cases, profiles, migrated, faults>>
  BY <1>1 DEF RecheckStart, Request
<1>3. agent'[a] = r => Remembered(a)'
  BY <1>1, <1>2 DEF Remembered
<1>. HIDE DEF r
<1>. QED BY <1>1, <1>2, <1>3, AgentStep DEF CaseTypes

LEMMA ViewReadStep ==
  ASSUME CaseInv, NEW a \in Agents, NEW c \in DOMAIN cases, ViewRead(a, c)
  PROVE  CaseInv' /\ Grows
<1>. DEFINE r == [step |-> "check", case |-> c, read |-> cases[c]]
<1>1. CaseTypes /\ DatedBefore /\ cases[c] \in Case /\ c \in Nat
  BY CaseTyped DEF CaseInv
<1>2. r \in Request /\ agent' = [agent EXCEPT ![a] = r]
      /\ UNCHANGED <<clock, log, cases, profiles, migrated, faults>>
  BY <1>1 DEF ViewRead, Request
<1>3. agent'[a] = r => Remembered(a)'
  BY <1>1, <1>2 DEF Remembered, DatedBefore
<1>. HIDE DEF r
<1>. QED BY <1>1, <1>2, <1>3, AgentStep DEF CaseTypes

LEMMA RecheckRecordStep ==
  ASSUME CaseInv, NEW a \in Agents, RecheckRecord(a)
  PROVE  CaseInv' /\ Grows
<1>. DEFINE x == agent[a]
            new == [scope |-> cases[x.case].scope, at |-> x.at, recheck |-> TRUE, counted |-> 0]
            r == [step |-> "profile", case |-> x.case, event |-> Len(log) + 1]
<1>0. CaseTypes /\ DatedBefore /\ \A b \in Agents : Remembered(b)
  BY DEF CaseInv
<1>1. x.case \in DOMAIN cases /\ x.case \in Nat /\ x.at \in Nat /\ x.at <= clock
  BY <1>0, RequestTyped DEF RecheckRecord, Remembered
<1>2. new \in Event /\ new.scope = cases[x.case].scope
      /\ new.at <= clock /\ new.recheck
  BY <1>0, <1>1, CaseTyped DEF Event, Case
<1>3. log' = Append(log, new) /\ agent' = [agent EXCEPT ![a] = r]
      /\ UNCHANGED <<clock, cases, profiles, migrated, faults>>
  BY DEF RecheckRecord
<1>. HIDE DEF new
<1>4. /\ log' \in Seq(Event) /\ Len(log') = Len(log) + 1 /\ Len(log) \in Nat
      /\ log'[Len(log) + 1] = new
      /\ DOMAIN log' = DOMAIN log \cup {Len(log) + 1} /\ Len(log) + 1 \notin DOMAIN log
      /\ \A e \in DOMAIN log : log'[e] = log[e]
      /\ \A e \in DOMAIN log' : log'[e].at <= clock
      /\ \A e \in DOMAIN log' \ DOMAIN log : log'[e].recheck \/ log'[e].at >= clock
  BY <1>0, <1>2, <1>3, EventIsAdded
<1>5. r \in Request
  BY <1>1, <1>4 DEF Request
<1>6. /\ agent' \in [Agents -> Request] /\ agent'[a] = r
      /\ \A b \in Agents \ {a} : agent'[b] = agent[b]
  <2>. HIDE DEF r
  <2>. QED BY <1>0, <1>3, <1>5, AgentMoves
<1>7. CaseTypes'
  BY <1>0, <1>3, <1>4, <1>6 DEF CaseTypes
<1>8. Grows
  <2>1. \A c \in DOMAIN cases : cases'[c].scope = cases[c].scope
    BY <1>3
  <2>2. clock \in Nat /\ Len(cases) \in Nat
    BY <1>0 DEF CaseTypes
  <2>. QED BY <1>3, <1>4, <2>1, <2>2 DEF Grows
<1>9. DatedBefore'
  BY <1>0, <1>3, <1>4 DEF DatedBefore
<1>10. ASSUME NEW b \in Agents PROVE Remembered(b)'
  <2>1. CASE b = a
    BY <1>1, <1>2, <1>3, <1>4, <1>6, <2>1 DEF Remembered
  <2>2. CASE b # a
    BY <1>0, <1>6, <1>7, <1>8, <2>2, StillRemembered
  <2>. QED BY <2>1, <2>2
<1>. QED BY <1>7, <1>8, <1>9, <1>10 DEF CaseInv

LEMMA RecheckProfileStep ==
  ASSUME CaseInv, NEW a \in Agents, RecheckProfile(a)
  PROVE  CaseInv' /\ Grows
<1>. DEFINE x == agent[a]
            p == Built(log, log[x.event].scope, log[x.event].at)
            r == [step |-> "write", case |-> x.case, event |-> x.event, profile |-> p]
<1>0. CaseTypes /\ DatedBefore /\ Remembered(a) /\ x.step = "profile"
  BY DEF CaseInv, RecheckProfile
<1>1. /\ x.case \in DOMAIN cases /\ x.case \in Nat /\ x.event \in DOMAIN log /\ x.event \in Nat
      /\ log[x.event].scope = cases[x.case].scope
  BY <1>0, RequestTyped DEF Remembered
<1>2. p \in Profile
  <2>1. log \in Seq(Event) /\ log[x.event].at \in Nat
    BY <1>0, <1>1, EventTyped DEF Event, CaseTypes
  <2>. QED BY <2>1, BuiltIsProfile
<1>. HIDE DEF p
<1>3. r \in Request /\ agent' = [agent EXCEPT ![a] = r]
      /\ UNCHANGED <<clock, log, cases, profiles, migrated, faults>>
  BY <1>1, <1>2 DEF RecheckProfile, Request, p
<1>4. agent'[a] = r => Remembered(a)'
  BY <1>1, <1>3 DEF Remembered
<1>. HIDE DEF r
<1>. QED BY <1>0, <1>3, <1>4, AgentStep DEF CaseTypes

LEMMA ViewCheckStep ==
  ASSUME CaseInv, NEW a \in Agents, ViewCheck(a)
  PROVE  CaseInv' /\ Grows
<1>. DEFINE x == agent[a]
            r == IF Stale(x.read, profiles[x.case], log)
                 THEN [step |-> "build", case |-> x.case, read |-> x.read] ELSE NoRequest
<1>0. CaseTypes /\ DatedBefore /\ Remembered(a) /\ x.step = "check"
  BY DEF CaseInv, ViewCheck
<1>1. /\ x.case \in DOMAIN cases /\ x.case \in Nat /\ x.read \in Case
      /\ x.read.scope = cases[x.case].scope /\ x.read.updated <= clock
  BY <1>0, RequestTyped DEF Remembered
<1>3. r \in Request /\ agent' = [agent EXCEPT ![a] = r]
      /\ UNCHANGED <<clock, log, cases, profiles, migrated, faults>>
  BY <1>1 DEF ViewCheck, Request
<1>4. agent'[a] = r => Remembered(a)'
  BY <1>1, <1>3 DEF Remembered, NoRequest
<1>. HIDE DEF r
<1>. QED BY <1>0, <1>3, <1>4, AgentStep DEF CaseTypes

LEMMA ViewBuildStep ==
  ASSUME CaseInv, NEW a \in Agents, ViewBuild(a)
  PROVE  CaseInv' /\ Grows
<1>. DEFINE x == agent[a]
            p == Built(log, x.read.scope, x.read.updated)
            r == [step |-> "persist", case |-> x.case, profile |-> p]
<1>0. CaseTypes /\ DatedBefore /\ Remembered(a) /\ x.step = "build"
  BY DEF CaseInv, ViewBuild
<1>1. x.case \in DOMAIN cases /\ x.case \in Nat /\ x.read \in Case
  BY <1>0, RequestTyped DEF Remembered
<1>2. p \in Profile
  <2>1. log \in Seq(Event) /\ x.read.updated \in Nat
    BY <1>0, <1>1 DEF CaseTypes, Case
  <2>. QED BY <2>1, BuiltIsProfile
<1>. HIDE DEF p
<1>3. r \in Request /\ agent' = [agent EXCEPT ![a] = r]
      /\ UNCHANGED <<clock, log, cases, profiles, migrated, faults>>
  BY <1>1, <1>2 DEF ViewBuild, Request, p
<1>4. agent'[a] = r => Remembered(a)'
  BY <1>1, <1>3 DEF Remembered
<1>. HIDE DEF r
<1>. QED BY <1>0, <1>3, <1>4, AgentStep DEF CaseTypes

LEMMA ViewPersistStep ==
  ASSUME CaseInv, NEW a \in Agents, ViewPersist(a)
  PROVE  CaseInv' /\ Grows
<1>0. CaseTypes /\ Remembered(a) /\ agent[a].step = "persist"
  BY DEF CaseInv, ViewPersist
<1>1. agent[a].case \in DOMAIN cases /\ agent[a].profile \in Profile
  BY <1>0, RequestTyped DEF Remembered
<1>2. profiles' \in Seq(Profile) /\ Len(profiles') = Len(profiles)
  <2>0. agent[a].case \in DOMAIN profiles
    BY <1>0, <1>1, CaseTyped
  <2>1. profiles' = [profiles EXCEPT ![agent[a].case] = agent[a].profile]
    BY DEF ViewPersist
  <2>2. profiles \in Seq(Profile)
    BY <1>0 DEF CaseTypes
  <2>. QED BY <1>1, <2>0, <2>1, <2>2, ReplacedInSequence
<1>3. /\ agent' = [agent EXCEPT ![a] = NoRequest] /\ NoRequest \in Request
      /\ UNCHANGED <<clock, log, cases, migrated, faults>>
  BY DEF ViewPersist, Request
<1>. QED BY <1>0, <1>2, <1>3, AgentStep, RestingRemembers DEF CaseTypes

LEMMA GiveUpStep ==
  ASSUME CaseInv, NEW a \in Agents, GiveUp(a)
  PROVE  CaseInv' /\ Grows
<1>1. /\ agent' = [agent EXCEPT ![a] = NoRequest] /\ NoRequest \in Request
      /\ UNCHANGED <<clock, log, cases, profiles, migrated>> /\ faults' = faults + 1
  BY DEF GiveUp, Request
<1>2. faults' \in Nat /\ profiles' \in Seq(Profile) /\ Len(profiles') = Len(profiles)
  BY <1>1 DEF CaseInv, CaseTypes
<1>. QED BY <1>1, <1>2, AgentStep, RestingRemembers

\* One case takes other values.
LEMMA CaseChanges ==
  ASSUME CaseTypes, DatedBefore, NEW c \in DOMAIN cases, NEW r \in Case, cases' = [cases EXCEPT ![c] = r],
         clock' = clock, r.scope = cases[c].scope, r.updated <= clock, r.lastRepeat <= clock
  PROVE  /\ cases' \in Seq(Case) /\ Len(cases') = Len(cases) /\ DOMAIN cases' = DOMAIN cases
         /\ cases'[c] = r /\ \A d \in DOMAIN cases \ {c} : cases'[d] = cases[d]
         /\ \A d \in DOMAIN cases : cases'[d].scope = cases[d].scope
         /\ \A d \in DOMAIN cases' : cases'[d].updated <= clock /\ cases'[d].lastRepeat <= clock
<1>1. cases \in Seq(Case)
  BY DEF CaseTypes
<1>2. /\ cases' \in Seq(Case) /\ Len(cases') = Len(cases) /\ DOMAIN cases' = DOMAIN cases
      /\ \A d \in DOMAIN cases : cases'[d] = IF d = c THEN r ELSE cases[d]
  BY <1>1
<1>. QED BY <1>2 DEF DatedBefore

Recheckable(c, e, at, status) ==
  c \in Case /\ e \in Nat /\ at \in Nat /\ status \in {"OPEN", "RESOLVED"}

LEMMA RecheckedIsCase ==
  ASSUME NEW c, NEW e, NEW at, NEW status, Recheckable(c, e, at, status)
  PROVE  /\ Rechecked(c, e, at, status) \in Case
         /\ Rechecked(c, e, at, status).scope = c.scope
         /\ Rechecked(c, e, at, status).updated = at
         /\ Rechecked(c, e, at, status).lastRepeat = c.lastRepeat
         /\ Rechecked(c, e, at, status).hits = c.hits + 1
<1>. DEFINE hits == c.hits + 1
            r == Rechecked(c, e, at, status)
<1>. USE DEF Recheckable
<1>1. hits \in Nat
  BY DEF Case
<1>2. r = [c EXCEPT !.status = status, !.latest = e, !.updated = at, !.hits = hits]
  BY DEF Rechecked, Case
<1>. HIDE DEF hits, r
<1>3. r \in Case /\ r.scope = c.scope /\ r.updated = at /\ r.lastRepeat = c.lastRepeat /\ r.hits = hits
  BY <1>1, <1>2 DEF Case
<1>. QED BY <1>3 DEF hits, r

LEMMA RecheckWriteStep ==
  ASSUME CaseInv, NEW a \in Agents, RecheckWrite(a)
  PROVE  CaseInv' /\ Grows
<1>. DEFINE c == agent[a].case
            e == agent[a].event
<1>0. CaseTypes /\ DatedBefore /\ (\A b \in Agents : Remembered(b)) /\ agent[a].step = "write"
  BY DEF CaseInv, RecheckWrite
<1>1. c \in DOMAIN cases /\ e \in DOMAIN log /\ e \in Nat /\ agent[a].profile \in Profile
  BY <1>0, RequestTyped DEF Remembered
<1>2. PICK status \in {"OPEN", "RESOLVED"} :
        cases' = [cases EXCEPT ![c] = Rechecked(cases[c], e, log[e].at, status)]
  BY DEF RecheckWrite
<1>3. /\ profiles' = [profiles EXCEPT ![c] = agent[a].profile]
      /\ log' = [log EXCEPT ![e].counted = 1]
      /\ agent' = [agent EXCEPT ![a] = NoRequest]
      /\ UNCHANGED <<clock, migrated, faults>>
  BY DEF RecheckWrite
<1>4. cases[c] \in Case /\ log[e] \in Event /\ log[e].at <= clock /\ cases[c].lastRepeat <= clock
  BY <1>0, <1>1, CaseTyped, EventTyped DEF DatedBefore
<1>. HIDE DEF c, e
<1>. DEFINE r == Rechecked(cases[c], e, log[e].at, status)
            v == [log[e] EXCEPT !.counted = 1]
<1>5. r \in Case /\ r.scope = cases[c].scope /\ r.updated = log[e].at /\ r.lastRepeat = cases[c].lastRepeat
  <2>. DEFINE k == cases[c]
              at == log[e].at
  <2>1. Recheckable(k, e, at, status)
    BY <1>1, <1>2, <1>4 DEF Event, Recheckable
  <2>. HIDE DEF k, at
  <2>2. /\ Rechecked(k, e, at, status) \in Case /\ Rechecked(k, e, at, status).scope = k.scope
        /\ Rechecked(k, e, at, status).updated = at
        /\ Rechecked(k, e, at, status).lastRepeat = k.lastRepeat
    BY ONLY <2>1, RecheckedIsCase
  <2>3. r = Rechecked(k, e, at, status) /\ k = cases[c] /\ at = log[e].at
    BY DEF k, at
  <2>. HIDE DEF r
  <2>. QED BY ONLY <2>2, <2>3
<1>6. cases' = [cases EXCEPT ![c] = r]
  BY <1>1, <1>2
<1>7. v \in Event /\ v.scope = log[e].scope /\ v.at = log[e].at /\ v.recheck = log[e].recheck
  BY <1>4 DEF Event
<1>8. log' = [log EXCEPT ![e] = v]
  BY <1>3
<1>. HIDE DEF r, v
<1>9. /\ cases' \in Seq(Case) /\ Len(cases') = Len(cases) /\ DOMAIN cases' = DOMAIN cases
      /\ \A d \in DOMAIN cases : cases'[d].scope = cases[d].scope
      /\ \A d \in DOMAIN cases' : cases'[d].updated <= clock /\ cases'[d].lastRepeat <= clock
  BY <1>0, <1>1, <1>3, <1>4, <1>5, <1>6, CaseChanges
<1>10. /\ log' \in Seq(Event) /\ Len(log') = Len(log) /\ DOMAIN log' = DOMAIN log
       /\ \A d \in DOMAIN log : log'[d] = IF d = e THEN v ELSE log[d]
  BY <1>0, <1>1, <1>7, <1>8 DEF CaseTypes
<1>11. profiles' \in Seq(Profile) /\ Len(profiles') = Len(profiles) /\ profiles \in Seq(Profile)
  <2>1. c \in DOMAIN profiles /\ profiles \in Seq(Profile)
    BY <1>0, <1>1, CaseTyped DEF CaseTypes
  <2>. QED BY <1>1, <1>3, <2>1, ReplacedInSequence
<1>12. NoRequest \in Request
  BY DEF Request
<1>13. /\ agent' \in [Agents -> Request] /\ agent'[a] = NoRequest
       /\ \A b \in Agents \ {a} : agent'[b] = agent[b]
  BY <1>0, <1>3, <1>12, AgentMoves
<1>14. CaseTypes'
  BY <1>0, <1>3, <1>9, <1>10, <1>11, <1>13 DEF CaseTypes
<1>15. Grows
  <2>1. clock \in Nat /\ Len(cases) \in Nat /\ Len(log) \in Nat
    BY <1>0 DEF CaseTypes
  <2>. QED BY <1>3, <1>7, <1>9, <1>10, <2>1 DEF Grows
<1>16. DatedBefore'
  BY <1>0, <1>3, <1>7, <1>9, <1>10 DEF DatedBefore
<1>17. \A b \in Agents : Remembered(b)'
  BY <1>0, <1>13, <1>14, <1>15, StillRemembered, RestingRemembers
<1>. QED BY <1>14, <1>15, <1>16, <1>17 DEF CaseInv

LEMMA ResolveStep ==
  ASSUME CaseInv, NEW c \in DOMAIN cases, Resolve(c)
  PROVE  CaseInv' /\ Grows
<1>. DEFINE r == [cases[c] EXCEPT !.status = "RESOLVED", !.updated = clock]
<1>0. CaseTypes /\ DatedBefore /\ clock \in Nat /\ clock <= clock
  BY DEF CaseInv, CaseTypes
<1>1. cases[c] \in Case /\ cases[c].lastRepeat <= clock
  BY <1>0, CaseTyped DEF DatedBefore
<1>2. r \in Case /\ r.scope = cases[c].scope /\ r.updated = clock /\ r.lastRepeat = cases[c].lastRepeat
  BY <1>0, <1>1 DEF Case
<1>3. cases' = [cases EXCEPT ![c] = r] /\ UNCHANGED <<clock, log, profiles, agent, migrated, faults>>
  BY DEF Resolve
<1>. HIDE DEF r
<1>4. /\ cases' \in Seq(Case) /\ Len(cases') = Len(cases) /\ DOMAIN cases' = DOMAIN cases
      /\ \A d \in DOMAIN cases : cases'[d].scope = cases[d].scope
      /\ \A d \in DOMAIN cases' : cases'[d].updated <= clock /\ cases'[d].lastRepeat <= clock
  BY <1>0, <1>1, <1>2, <1>3, CaseChanges
<1>5. CaseTypes'
  BY <1>0, <1>3, <1>4 DEF CaseTypes
<1>6. Grows
  <2>1. Len(cases) \in Nat /\ Len(log) \in Nat
    BY <1>0 DEF CaseTypes
  <2>2. \A d \in DOMAIN log : log'[d] = log[d]
    BY <1>3
  <2>. QED BY <1>0, <1>3, <1>4, <2>1, <2>2 DEF Grows
<1>7. DatedBefore'
  BY <1>0, <1>3, <1>4 DEF DatedBefore
<1>8. \A b \in Agents : Remembered(b)'
  BY <1>0, <1>3, <1>5, <1>6, StillRemembered DEF CaseInv
<1>. QED BY <1>5, <1>6, <1>7, <1>8 DEF CaseInv

-----------------------------------------------------------------------------
(* CaseFiles: the backfill *)

LEMMA BackfilledCase ==
  ASSUME CaseTypes, NEW c \in DOMAIN cases
  PROVE  /\ Backfilled[c] \in Case
         /\ Backfilled[c].scope = cases[c].scope /\ Backfilled[c].updated = cases[c].updated
         /\ Backfilled[c].lastRepeat = cases[c].lastRepeat
         /\ cases[c].hits = 0 /\ cases[c].repeats >= 1 => Backfilled[c].hits = cases[c].repeats
<1>. DEFINE k == cases[c]
            T == {k.hits, k.repeats, 1}
            h == Max(T)
<1>1. k \in Case /\ k.hits \in Nat /\ k.repeats \in Nat
  BY CaseTyped DEF Case
<1>2. h \in Nat /\ (k.hits = 0 /\ k.repeats >= 1 => h = k.repeats)
  <2>. DEFINE b == k.hits + k.repeats + 1
  <2>1. T \subseteq Nat /\ T # {} /\ b \in Nat /\ \A x \in T : x <= b
    BY <1>1
  <2>2. h \in T /\ \A x \in T : x <= h
    <3>. HIDE DEF T, b
    <3>. QED BY <2>1, MaxIsGreatest
  <2>3. h \in Nat /\ k.repeats <= h /\ (h = k.hits \/ h = k.repeats \/ h = 1)
    <3>. HIDE DEF h
    <3>. QED BY <1>1, <2>2
  <2>. HIDE DEF h
  <2>. QED BY <1>1, <2>3
<1>3. Backfilled[c] = [k EXCEPT !.hits = h]
  BY DEF Backfilled
<1>. HIDE DEF k, h
<1>4. /\ [k EXCEPT !.hits = h] \in Case /\ [k EXCEPT !.hits = h].hits = h
      /\ [k EXCEPT !.hits = h].scope = k.scope /\ [k EXCEPT !.hits = h].updated = k.updated
      /\ [k EXCEPT !.hits = h].lastRepeat = k.lastRepeat
  BY <1>1, <1>2 DEF Case
<1>. QED BY <1>2, <1>3, <1>4 DEF k

LEMMA DuplicatesFinite ==
  ASSUME CaseTypes, NEW s
  PROVE  IsFiniteSet(Duplicates(s)) /\ Duplicates(s) \subseteq DOMAIN cases
<1>1. Len(cases) \in Nat /\ DOMAIN cases = 1..Len(cases)
  BY DEF CaseTypes
<1>2. IsFiniteSet(1..Len(cases))
  BY <1>1, FS_Interval
<1>3. Duplicates(s) \subseteq 1..Len(cases)
  BY <1>1 DEF Duplicates
<1>. QED BY <1>1, <1>2, <1>3, FS_Subset

\* A case that stays, one that is merged into another, and that other one.
LEMMA CollapsedCases ==
  ASSUME CaseTypes, NEW c \in DOMAIN cases
  PROVE  LET B == Backfilled
             D == Duplicates(cases[c].scope)
             kept == c \notin D \/ Cardinality(D) < 2
             last == c = Survivor(cases[c].scope)
         IN /\ kept => Collapsed(B, c) = B[c]
            /\ ~kept /\ ~last =>
                 Collapsed(B, c) = [B[c] EXCEPT !.status = "MERGED",
                                      !.updated = B[Survivor(cases[c].scope)].updated, !.hits = 0]
            /\ ~kept /\ last =>
                 Collapsed(B, c) = [B[c] EXCEPT !.repeats = Sum([d \in D |-> B[d].repeats], D),
                                      !.hits = Sum([d \in D |-> B[d].hits], D),
                                      !.opened = Min({B[d].opened : d \in D}),
                                      !.lastRepeat = Max({B[d].lastRepeat : d \in D})]
<1>1. Backfilled[c].scope = cases[c].scope
  BY BackfilledCase
<1>. QED BY <1>1 DEF Collapsed, Sum

LEMMA CollapsedTyped ==
  ASSUME CaseTypes, DatedBefore, NEW c \in DOMAIN cases
  PROVE  /\ Collapsed(Backfilled, c) \in Case
         /\ Collapsed(Backfilled, c).scope = cases[c].scope
         /\ Collapsed(Backfilled, c).updated <= clock /\ Collapsed(Backfilled, c).lastRepeat <= clock
<1>. DEFINE B == Backfilled
            s == cases[c].scope
            D == Duplicates(s)
            kept == c \notin D \/ Cardinality(D) < 2
<1>1. \A d \in DOMAIN cases :
        /\ B[d] \in Case /\ B[d].scope = cases[d].scope /\ B[d].updated <= clock /\ B[d].lastRepeat <= clock
  BY BackfilledCase DEF DatedBefore
<1>2. IsFiniteSet(D) /\ D \subseteq DOMAIN cases
  BY DuplicatesFinite
<1>3. CASE kept
  BY <1>1, <1>3, CollapsedCases
<1>4. CASE ~kept /\ c # Survivor(s)
  <2>1. Survivor(s) \in DOMAIN cases
    BY <1>2, <1>4, SurvivorIsDuplicate
  <2>. DEFINE u == B[Survivor(s)].updated
  <2>2. u \in Nat /\ u <= clock
    BY <1>1, <2>1 DEF Case
  <2>3. Collapsed(B, c) = [B[c] EXCEPT !.status = "MERGED", !.updated = u, !.hits = 0]
    BY <1>4, CollapsedCases
  <2>. HIDE DEF u
  <2>4. B[c] \in Case /\ B[c].scope = s /\ B[c].lastRepeat <= clock
    BY <1>1
  <2>. DEFINE k == B[c]
              r == Collapsed(B, c)
  <2>5. k \in Case /\ r = [k EXCEPT !.status = "MERGED", !.updated = u, !.hits = 0]
    BY <2>3, <2>4
  <2>6. r \in Case /\ r.scope = k.scope /\ r.updated = u /\ r.lastRepeat = k.lastRepeat
    <3>. HIDE DEF k, r
    <3>. QED BY <2>2, <2>5 DEF Case
  <2>. QED BY <2>2, <2>4, <2>6
<1>5. CASE ~kept /\ c = Survivor(s)
  <2>. DEFINE R == Sum([d \in D |-> B[d].repeats], D)
              H == Sum([d \in D |-> B[d].hits], D)
              T == {B[d].opened : d \in D}
              U == {B[d].lastRepeat : d \in D}
              o == Min(T)
              l == Max(U)
  <2>1. R \in Nat /\ H \in Nat
    <3>. DEFINE f == [d \in D |-> B[d].repeats]
                g == [d \in D |-> B[d].hits]
    <3>1. (\A d \in D : f[d] \in Nat) /\ (\A d \in D : g[d] \in Nat)
      BY <1>1, <1>2 DEF Case
    <3>. HIDE DEF f, g, D
    <3>. QED BY <1>2, <3>1, SumIsNatural DEF f, g
  <2>2. o \in Nat
    <3>1. T \subseteq Nat /\ T # {}
      <4>1. c \in D
        BY <1>5
      <4>2. \A d \in D : B[d].opened \in Nat
        BY <1>1, <1>2 DEF Case
      <4>. HIDE DEF D, B
      <4>. QED BY <4>1, <4>2
    <3>. HIDE DEF T
    <3>. QED BY <3>1, MinIsLeast
  <2>3. l \in Nat /\ l <= clock
    <3>1. U \subseteq Nat /\ U # {} /\ clock \in Nat /\ \A x \in U : x <= clock
      <4>1. c \in D /\ clock \in Nat
        BY <1>5 DEF CaseTypes
      <4>2. \A d \in D : B[d].lastRepeat \in Nat /\ B[d].lastRepeat <= clock
        BY <1>1, <1>2 DEF Case
      <4>. HIDE DEF D, B
      <4>. QED BY <4>1, <4>2
    <3>. HIDE DEF U
    <3>. QED BY <3>1, MaxIsGreatest
  <2>4. Collapsed(B, c) = [B[c] EXCEPT !.repeats = R, !.hits = H, !.opened = o, !.lastRepeat = l]
    BY <1>5, CollapsedCases
  <2>. HIDE DEF R, H, o, l
  <2>5. B[c] \in Case /\ B[c].scope = s /\ B[c].updated <= clock
    BY <1>1
  <2>. DEFINE k == B[c]
              r == Collapsed(B, c)
  <2>6. k \in Case /\ r = [k EXCEPT !.repeats = R, !.hits = H, !.opened = o, !.lastRepeat = l]
    BY <2>4, <2>5
  <2>7. r \in Case /\ r.scope = k.scope /\ r.updated = k.updated /\ r.lastRepeat = l
    <3>. HIDE DEF k, r
    <3>. QED BY <2>1, <2>2, <2>3, <2>6 DEF Case
  <2>. QED BY <2>3, <2>5, <2>7
<1>. QED BY <1>3, <1>4, <1>5

LEMMA MigrateStep ==
  ASSUME CaseInv, Migrate
  PROVE  CaseInv' /\ Grows
<1>0. CaseTypes /\ DatedBefore /\ \A a \in Agents : Remembered(a)
  BY DEF CaseInv
<1>1. /\ cases' = [c \in DOMAIN cases |-> Collapsed(Backfilled, c)]
      /\ profiles' = [c \in DOMAIN cases |-> NoProfile]
      /\ migrated' = TRUE /\ UNCHANGED <<clock, log, agent, faults>>
  BY DEF Migrate
<1>2. DOMAIN cases = 1..Len(cases) /\ Len(cases) \in Nat /\ Len(log) \in Nat /\ clock \in Nat
  BY <1>0 DEF CaseTypes
<1>3. \A c \in DOMAIN cases :
        /\ cases'[c] \in Case /\ cases'[c].scope = cases[c].scope
        /\ cases'[c].updated <= clock /\ cases'[c].lastRepeat <= clock
  <2>1. \A c \in DOMAIN cases : cases'[c] = Collapsed(Backfilled, c)
    BY <1>1
  <2>. QED BY <1>0, <2>1, CollapsedTyped
<1>4. NoProfile \in Profile
  BY DEF NoProfile, Profile
<1>5. /\ cases' \in Seq(Case) /\ Len(cases') = Len(cases) /\ DOMAIN cases' = DOMAIN cases
      /\ profiles' \in Seq(Profile) /\ Len(profiles') = Len(cases)
  <2>1. cases' \in [1..Len(cases) -> Case] /\ profiles' \in [1..Len(cases) -> Profile]
    BY <1>1, <1>2, <1>3, <1>4
  <2>. QED BY <1>2, <2>1
<1>6. CaseTypes'
  BY <1>0, <1>1, <1>5 DEF CaseTypes
<1>7. Grows
  <2>1. \A d \in DOMAIN log : log'[d] = log[d]
    BY <1>1
  <2>. QED BY <1>1, <1>2, <1>3, <1>5, <2>1 DEF Grows
<1>8. DatedBefore'
  BY <1>0, <1>1, <1>3, <1>5 DEF DatedBefore
<1>9. \A a \in Agents : Remembered(a)'
  BY <1>0, <1>1, <1>6, <1>7, StillRemembered
<1>. QED BY <1>6, <1>7, <1>8, <1>9 DEF CaseInv

LEMMA SecondPassesStep ==
  ASSUME CaseInv, SecondPasses
  PROVE  CaseInv' /\ Grows
<1>0. CaseTypes /\ DatedBefore /\ \A a \in Agents : Remembered(a)
  BY DEF CaseInv
<1>1. clock' = clock + 1 /\ UNCHANGED <<log, cases, profiles, agent, migrated, faults>>
  BY DEF SecondPasses
<1>2. clock \in Nat /\ Len(log) \in Nat /\ Len(cases) \in Nat
  BY <1>0 DEF CaseTypes
<1>3. CaseTypes'
  BY <1>0, <1>1, <1>2 DEF CaseTypes
<1>4. Grows
  BY <1>1, <1>2 DEF Grows
<1>5. DatedBefore'
  <2>1. ASSUME NEW e \in DOMAIN log PROVE log[e].at <= clock + 1
    <3>1. log[e].at \in Nat /\ log[e].at <= clock
      BY <1>0, EventTyped DEF DatedBefore, Event
    <3>. QED BY <1>2, <3>1
  <2>2. ASSUME NEW c \in DOMAIN cases
        PROVE  cases[c].updated <= clock + 1 /\ cases[c].lastRepeat <= clock + 1
    <3>1. /\ cases[c].updated \in Nat /\ cases[c].updated <= clock
          /\ cases[c].lastRepeat \in Nat /\ cases[c].lastRepeat <= clock
      BY <1>0, CaseTyped DEF DatedBefore, Case
    <3>. QED BY <1>2, <3>1
  <2>. QED BY <1>1, <2>1, <2>2 DEF DatedBefore
<1>6. \A a \in Agents : Remembered(a)'
  BY <1>0, <1>1, <1>3, <1>4, StillRemembered
<1>. QED BY <1>3, <1>4, <1>5, <1>6 DEF CaseInv

LEMMA CaseIdleStep ==
  ASSUME CaseInv, UNCHANGED caseVars
  PROVE  CaseInv' /\ Grows
<1>0. CaseTypes /\ DatedBefore /\ \A a \in Agents : Remembered(a)
  BY DEF CaseInv
<1>1. UNCHANGED <<clock, log, cases, profiles, agent, migrated, faults>>
  BY DEF caseVars
<1>2. CaseTypes'
  BY <1>0, <1>1 DEF CaseTypes
<1>3. Grows /\ DatedBefore'
  BY <1>0, <1>1, QuietGrows
<1>4. \A a \in Agents : Remembered(a)'
  BY <1>0, <1>1, <1>2, <1>3, StillRemembered
<1>. QED BY <1>2, <1>3, <1>4 DEF CaseInv

LEMMA CaseStep ==
  CaseInv /\ [CaseNext]_caseVars => CaseInv' /\ Grows
<1>. SUFFICES ASSUME CaseInv, [CaseNext]_caseVars PROVE CaseInv' /\ Grows
  OBVIOUS
<1>. QED BY LogStep, FileStep, RecheckStartStep, RecheckRecordStep, RecheckProfileStep, RecheckWriteStep,
            ViewReadStep, ViewCheckStep, ViewBuildStep, ViewPersistStep, GiveUpStep, ResolveStep,
            MigrateStep, SecondPassesStep, CaseIdleStep DEF CaseNext

LEMMA FunctionIsSequence ==
  ASSUME NEW S, NEW n \in Nat, NEW f \in [1..n -> S]
  PROVE  f \in Seq(S) /\ Len(f) = n
  OBVIOUS

LEMMA CaseInitially ==
  CaseInit => CaseInv
<1>. SUFFICES ASSUME CaseInit PROVE CaseInv
  OBVIOUS
<1>1. PICK list \in Legacy :
        /\ clock \in 1..MaxSeconds
        /\ \A i \in DOMAIN list : list[i].updated <= clock
        /\ log = [i \in DOMAIN list |->
                    [scope |-> list[i].scope, at |-> list[i].updated,
                     recheck |-> FALSE, counted |-> list[i].repeats]]
        /\ cases = [i \in DOMAIN list |-> LegacyCase(list[i], i)]
        /\ profiles = [i \in DOMAIN list |-> NoProfile]
  BY DEF CaseInit
<1>2. agent = [a \in Agents |-> NoRequest] /\ migrated = FALSE /\ faults = 0
  BY DEF CaseInit
<1>. DEFINE Row == [scope : Scopes, status : {"OPEN", "RESOLVED"}, repeats : Nat \ {0},
                    opened : Nat, updated : Nat]
<1>3. DOMAIN list = 1..Len(list) /\ Len(list) \in Nat /\ \A i \in DOMAIN list : list[i] \in Row
  <2>1. list \in Seq(Row)
    BY CaseFilesAssumption
  <2>. HIDE DEF Row
  <2>. QED BY <2>1
<1>4. ASSUME NEW i \in DOMAIN list
      PROVE  /\ LegacyCase(list[i], i) \in Case
             /\ [scope |-> list[i].scope, at |-> list[i].updated,
                 recheck |-> FALSE, counted |-> list[i].repeats] \in Event
             /\ LegacyCase(list[i], i).updated = list[i].updated
             /\ LegacyCase(list[i], i).lastRepeat = list[i].updated
  <2>1. list[i] \in Row /\ i \in Nat
    BY <1>3
  <2>. QED BY <2>1 DEF LegacyCase, Case, Event
<1>5. NoProfile \in Profile /\ NoRequest \in Request
  BY DEF NoProfile, Profile, Request
<1>6. /\ log \in Seq(Event) /\ cases \in Seq(Case) /\ profiles \in Seq(Profile)
      /\ Len(log) = Len(list) /\ Len(cases) = Len(list) /\ Len(profiles) = Len(list)
  <2>1. log \in [1..Len(list) -> Event] /\ cases \in [1..Len(list) -> Case]
        /\ profiles \in [1..Len(list) -> Profile]
    BY <1>1, <1>3, <1>4, <1>5
  <2>. QED BY <1>3, <2>1, FunctionIsSequence
<1>7. CaseTypes
  <2>1. clock \in Nat
    BY <1>1, CaseFilesAssumption
  <2>. QED BY <1>2, <1>5, <1>6, <2>1 DEF CaseTypes
<1>8. DatedBefore
  BY <1>1, <1>4 DEF DatedBefore
<1>9. \A a \in Agents : Remembered(a)
  BY <1>2 DEF Remembered, NoRequest
<1>. QED BY <1>7, <1>8, <1>9 DEF CaseInv

-----------------------------------------------------------------------------
(* CaseFiles: profiles *)

LEMMA StillLater ==
  ASSUME CaseTypes, CaseTypes', Grows, NEW p \in Profile, NEW s, LeavesOutLater(log, clock, p, s)
  PROVE  LeavesOutLater(log', clock', p, s)
<1>1. p.at \in Nat /\ clock \in Nat /\ clock' \in Nat /\ clock <= clock' /\ p.at <= clock
  BY DEF CaseTypes, Profile, Grows, LeavesOutLater
<1>2. p.at <= clock'
  BY <1>1
<1>3. ASSUME NEW e \in Sightings(log', s) \ p.covers
      PROVE  log'[e].recheck \/ log'[e].at >= p.at
  <2>1. e \in DOMAIN log' /\ log'[e].at \in Nat /\ DeviceOf[log'[e].scope] = DeviceOf[s]
    <3>1. e \in DOMAIN log' /\ DeviceOf[log'[e].scope] = DeviceOf[s]
      BY DEF Sightings
    <3>2. log' \in Seq(Event)
      BY DEF CaseTypes
    <3>3. log'[e] \in Event
      BY <3>1, <3>2
    <3>. QED BY <3>1, <3>3 DEF Event
  <2>2. CASE e \in DOMAIN log
    BY <2>1, <2>2 DEF Grows, LeavesOutLater, Sightings
  <2>3. CASE e \notin DOMAIN log
    <3>1. log'[e].recheck \/ log'[e].at >= clock
      BY <2>1, <2>3 DEF Grows
    <3>. QED BY <1>1, <2>1, <3>1
  <2>. QED BY <2>2, <2>3
<1>. QED BY <1>2, <1>3 DEF LeavesOutLater

\* A profile that was just built leaves nothing out.
LEMMA BuiltLeavesNothingOut ==
  ASSUME NEW list, NEW s, NEW r, NEW at, NEW later, at <= later, DeviceOf[r] = DeviceOf[s]
  PROVE  LeavesOutLater(list, later, Built(list, r, at), s)
<1>1. Built(list, r, at).covers = Sightings(list, s) /\ Built(list, r, at).at = at
  BY DEF Built, Sightings
<1>. QED BY <1>1 DEF LeavesOutLater

LEMMA NoProfileLeavesOutLater ==
  ASSUME CaseTypes, NEW s
  PROVE  LeavesOutLater(log, clock, NoProfile, s)
<1>1. \A e \in DOMAIN log : log[e].at \in Nat
  BY EventTyped DEF Event
<1>. QED BY <1>1 DEF LeavesOutLater, NoProfile, Sightings, CaseTypes

\* Profiles that stay where they are, and new ones.
LEMMA ProfilesStay ==
  ASSUME CaseInv, CaseInv', Grows, ProfileInv,
         \A c \in DOMAIN cases' : \/ c \in DOMAIN cases /\ profiles'[c] = profiles[c]
                                  \/ LeavesOutLater(log', clock', profiles'[c], cases'[c].scope),
         \A a \in Agents : agent'[a].step \in {"write", "persist"} =>
           \/ agent'[a] = agent[a]
           \/ LeavesOutLater(log', clock', agent'[a].profile, cases'[agent'[a].case].scope)
  PROVE  ProfileInv'
<1>0. CaseTypes /\ CaseTypes' /\ \A a \in Agents : Remembered(a)
  BY DEF CaseInv
<1>1. ASSUME NEW c \in DOMAIN cases'
      PROVE  LeavesOutLater(log', clock', profiles'[c], cases'[c].scope)
  <2>1. CASE c \in DOMAIN cases /\ profiles'[c] = profiles[c]
    <3>1. profiles[c] \in Profile /\ LeavesOutLater(log, clock, profiles[c], cases[c].scope)
      BY <1>0, <2>1, CaseTyped DEF ProfileInv
    <3>2. cases'[c].scope = cases[c].scope
      BY <2>1 DEF Grows
    <3>. QED BY <1>0, <2>1, <3>1, <3>2, StillLater
  <2>. QED BY <2>1
<1>2. ASSUME NEW a \in Agents, agent'[a].step \in {"write", "persist"}
      PROVE  LeavesOutLater(log', clock', agent'[a].profile, cases'[agent'[a].case].scope)
  <2>1. CASE agent'[a] = agent[a]
    <3>1. /\ agent[a].profile \in Profile /\ agent[a].case \in DOMAIN cases
          /\ LeavesOutLater(log, clock, agent[a].profile, cases[agent[a].case].scope)
      BY <1>0, <1>2, <2>1, RequestTyped DEF ProfileInv, Remembered
    <3>2. cases'[agent[a].case].scope = cases[agent[a].case].scope
      BY <3>1 DEF Grows
    <3>. QED BY <1>0, <2>1, <3>1, <3>2, StillLater
  <2>. QED BY <1>2, <2>1
<1>. QED BY <1>1, <1>2 DEF ProfileInv

\* An agent that moves on; what it carries then, if it is a profile, is right.
LEMMA OneAgentMoves ==
  ASSUME CaseTypes, NEW a \in Agents, NEW r, agent' = [agent EXCEPT ![a] = r],
         NEW P, r.step \in {"write", "persist"} => P
  PROVE  \A b \in Agents : agent'[b].step \in {"write", "persist"} => agent'[b] = agent[b] \/ (b = a /\ agent'[b] = r /\ P)
  BY DEF CaseTypes

LEMMA ProfileQuiet ==
  ASSUME CaseInv, CaseInv', Grows, ProfileInv, profiles' = profiles, Len(cases') = Len(cases),
         NEW a \in Agents, NEW r, agent' = [agent EXCEPT ![a] = r], r.step \notin {"write", "persist"}
  PROVE  ProfileInv'
<1>1. DOMAIN cases' = DOMAIN cases
  BY DEF CaseInv, CaseTypes
<1>2. \A b \in Agents : agent'[b].step \in {"write", "persist"} => agent'[b] = agent[b]
  BY DEF CaseInv, CaseTypes
<1>. QED BY <1>1, <1>2, ProfilesStay

LEMMA FileProfiles ==
  ASSUME CaseInv, CaseInv', Grows, ProfileInv, NEW s \in Scopes, File(s)
  PROVE  ProfileInv'
<1>0. CaseTypes /\ clock \in Nat /\ clock' = clock /\ agent' = agent /\ clock <= clock
  BY DEF CaseInv, CaseTypes, File
<1>1. LeavesOutLater(log', clock', Built(log', s, clock), s)
  BY <1>0, BuiltLeavesNothingOut
<1>2. ASSUME NEW c \in DOMAIN cases'
      PROVE  \/ c \in DOMAIN cases /\ profiles'[c] = profiles[c]
             \/ LeavesOutLater(log', clock', profiles'[c], cases'[c].scope)
  <2>1. CASE Live(s) # {}
    <3>. DEFINE k == Current(s)
                r == Reopened(cases[k], Len(log) + 1, clock)
    <3>1. /\ k \in DOMAIN cases /\ cases[k].scope = s
          /\ cases' = [cases EXCEPT ![k] = r]
          /\ profiles' = [profiles EXCEPT ![k] = Built(log', s, clock)]
      BY <2>1, FiledCase
    <3>2. c \in DOMAIN cases /\ k \in DOMAIN profiles
      BY <1>0, <3>1, CaseTyped DEF CaseTypes
    <3>. HIDE DEF k, r
    <3>3. CASE c = k
      <4>1. cases'[c].scope = s
        BY <3>1, <3>2, <3>3 DEF Grows
      <4>2. profiles'[c] = Built(log', s, clock)
        BY <3>1, <3>2, <3>3
      <4>. QED BY <1>1, <4>1, <4>2
    <3>4. CASE c # k
      <4>1. profiles'[c] = profiles[c]
        BY <3>1, <3>4
      <4>. QED BY <3>2, <4>1
    <3>. QED BY <3>3, <3>4
  <2>2. CASE Live(s) = {}
    <3>. DEFINE r == Opened(s, Len(log) + 1, clock)
    <3>1. /\ cases' = Append(cases, r)
          /\ profiles' = Append(profiles, Built(log', s, clock))
      BY <2>2, OpenedCase
    <3>2. r.scope = s /\ cases \in Seq(Case) /\ profiles \in Seq(Profile) /\ Len(profiles) = Len(cases)
      BY <1>0 DEF Opened, CaseTypes
    <3>. HIDE DEF r
    <3>3. CASE c \in DOMAIN cases
      <4>1. profiles'[c] = profiles[c]
        BY <3>1, <3>2, <3>3
      <4>. QED BY <3>3, <4>1
    <3>4. CASE c \notin DOMAIN cases
      <4>1. c = Len(cases) + 1
        BY <3>1, <3>2, <3>4
      <4>2. cases'[c] = r /\ profiles'[c] = Built(log', s, clock)
        BY <3>1, <3>2, <4>1
      <4>. QED BY <1>1, <3>2, <4>2
    <3>. QED BY <3>3, <3>4
  <2>. QED BY <2>1, <2>2
<1>. QED BY <1>0, <1>2, ProfilesStay

LEMMA AgentProfiles ==
  ASSUME CaseInv, CaseInv', Grows, ProfileInv, NEW a \in Agents,
         \/ RecheckRecord(a) \/ ViewCheck(a) \/ GiveUp(a)
         \/ \E c \in DOMAIN cases : ViewRead(a, c) \/ RecheckStart(a, c)
  PROVE  ProfileInv'
<1>1. CASE RecheckRecord(a)
  BY <1>1, ProfileQuiet DEF RecheckRecord
<1>2. CASE ViewCheck(a)
  BY <1>2, ProfileQuiet DEF ViewCheck, NoRequest
<1>3. CASE GiveUp(a)
  BY <1>3, ProfileQuiet DEF GiveUp, NoRequest
<1>4. ASSUME NEW c \in DOMAIN cases, ViewRead(a, c) PROVE ProfileInv'
  BY <1>4, ProfileQuiet DEF ViewRead
<1>5. ASSUME NEW c \in DOMAIN cases, RecheckStart(a, c) PROVE ProfileInv'
  BY <1>5, ProfileQuiet DEF RecheckStart
<1>. QED BY <1>1, <1>2, <1>3, <1>4, <1>5

LEMMA RecheckProfileProfiles ==
  ASSUME CaseInv, CaseInv', Grows, ProfileInv, NEW a \in Agents, RecheckProfile(a)
  PROVE  ProfileInv'
<1>. DEFINE x == agent[a]
            p == Built(log, log[x.event].scope, log[x.event].at)
            r == [step |-> "write", case |-> x.case, event |-> x.event, profile |-> p]
<1>1. CaseTypes /\ DatedBefore /\ Remembered(a) /\ x.step = "profile"
  BY DEF CaseInv, RecheckProfile
<1>2. x.event \in DOMAIN log /\ log[x.event].scope = cases[x.case].scope /\ log[x.event].at <= clock
  BY <1>1 DEF Remembered, DatedBefore
<1>3. LeavesOutLater(log, clock, p, cases[x.case].scope)
  BY <1>2, BuiltLeavesNothingOut
<1>4. agent' = [agent EXCEPT ![a] = r] /\ UNCHANGED <<clock, log, cases, profiles>>
  BY DEF RecheckProfile
<1>5. r.case = x.case /\ r.profile = p
  OBVIOUS
<1>. HIDE DEF r, p
<1>6. \A b \in Agents : agent'[b] = agent[b] \/ agent'[b] = r
  BY <1>1, <1>4 DEF CaseTypes
<1>. QED BY <1>3, <1>4, <1>5, <1>6, ProfilesStay

LEMMA ViewBuildProfiles ==
  ASSUME CaseInv, CaseInv', Grows, ProfileInv, NEW a \in Agents, ViewBuild(a)
  PROVE  ProfileInv'
<1>. DEFINE x == agent[a]
            p == Built(log, x.read.scope, x.read.updated)
            r == [step |-> "persist", case |-> x.case, profile |-> p]
<1>1. CaseTypes /\ Remembered(a) /\ x.step = "build"
  BY DEF CaseInv, ViewBuild
<1>2. x.read.scope = cases[x.case].scope /\ x.read.updated <= clock
  BY <1>1 DEF Remembered
<1>3. LeavesOutLater(log, clock, p, cases[x.case].scope)
  BY <1>2, BuiltLeavesNothingOut
<1>4. agent' = [agent EXCEPT ![a] = r] /\ UNCHANGED <<clock, log, cases, profiles>>
  BY DEF ViewBuild
<1>5. r.case = x.case /\ r.profile = p
  OBVIOUS
<1>. HIDE DEF r, p
<1>6. \A b \in Agents : agent'[b] = agent[b] \/ agent'[b] = r
  BY <1>1, <1>4 DEF CaseTypes
<1>. QED BY <1>3, <1>4, <1>5, <1>6, ProfilesStay

\* A profile an agent carries is stored as the one of its case.
LEMMA StoredProfiles ==
  ASSUME CaseInv, CaseInv', Grows, ProfileInv, NEW a \in Agents, RecheckWrite(a) \/ ViewPersist(a)
  PROVE  ProfileInv'
<1>. DEFINE c == agent[a].case
            p == agent[a].profile
<1>1. CaseTypes /\ CaseTypes' /\ Remembered(a) /\ agent[a].step \in {"write", "persist"}
  BY DEF CaseInv, RecheckWrite, ViewPersist
<1>2. c \in DOMAIN cases /\ p \in Profile /\ LeavesOutLater(log, clock, p, cases[c].scope)
  BY <1>1, RequestTyped DEF Remembered, ProfileInv
<1>3. profiles' = [profiles EXCEPT ![c] = p] /\ agent' = [agent EXCEPT ![a] = NoRequest]
  BY DEF RecheckWrite, ViewPersist
<1>4. DOMAIN cases' = DOMAIN cases
  <2>1. profiles \in Seq(Profile) /\ Len(profiles) = Len(cases) /\ DOMAIN cases = 1..Len(cases)
    BY <1>1 DEF CaseTypes
  <2>2. Len(profiles') = Len(profiles)
    BY <1>1, <1>2, <1>3, <2>1, CaseTyped, ReplacedInSequence
  <2>3. Len(profiles') = Len(cases') /\ DOMAIN cases' = 1..Len(cases')
    BY <1>1 DEF CaseTypes
  <2>. QED BY <2>1, <2>2, <2>3
<1>. HIDE DEF c, p
<1>5. LeavesOutLater(log', clock', p, cases[c].scope)
  BY <1>1, <1>2, StillLater
<1>6. ASSUME NEW d \in DOMAIN cases'
      PROVE  \/ d \in DOMAIN cases /\ profiles'[d] = profiles[d]
             \/ LeavesOutLater(log', clock', profiles'[d], cases'[d].scope)
  <2>1. CASE d = c
    <3>1. profiles'[d] = p
      BY <1>1, <1>2, <1>3, <2>1, CaseTyped
    <3>2. cases'[d].scope = cases[c].scope
      BY <1>2, <2>1 DEF Grows
    <3>. QED BY <1>5, <3>1, <3>2
  <2>2. CASE d # c
    BY <1>1, <1>3, <1>4, <2>2, CaseTyped
  <2>. QED BY <2>1, <2>2
<1>7. \A b \in Agents : agent'[b].step \in {"write", "persist"} => agent'[b] = agent[b]
  BY <1>1, <1>3 DEF CaseTypes, NoRequest
<1>. QED BY <1>6, <1>7, ProfilesStay

LEMMA OtherProfiles ==
  ASSUME CaseInv, CaseInv', Grows, ProfileInv,
         \/ SecondPasses \/ UNCHANGED caseVars
         \/ \E s \in Scopes : Log(s)
         \/ \E c \in DOMAIN cases : Resolve(c)
  PROVE  ProfileInv'
<1>1. profiles' = profiles /\ agent' = agent /\ Len(cases') = Len(cases)
  <2>1. CASE \E c \in DOMAIN cases : Resolve(c)
    BY <2>1 DEF Resolve, CaseInv, CaseTypes
  <2>2. CASE \E s \in Scopes : Log(s)
    BY <2>2 DEF Log
  <2>. QED BY <2>1, <2>2 DEF SecondPasses, caseVars
<1>2. DOMAIN cases' = DOMAIN cases
  BY <1>1 DEF CaseInv, CaseTypes
<1>. QED BY <1>1, <1>2, ProfilesStay

LEMMA MigrateProfiles ==
  ASSUME CaseInv, CaseInv', Grows, ProfileInv, Migrate
  PROVE  ProfileInv'
<1>1. /\ profiles' = [c \in DOMAIN cases |-> NoProfile] /\ agent' = agent
      /\ cases' = [c \in DOMAIN cases |-> Collapsed(Backfilled, c)]
  BY DEF Migrate
<1>2. CaseTypes'
  BY DEF CaseInv
<1>3. ASSUME NEW c \in DOMAIN cases'
      PROVE  LeavesOutLater(log', clock', profiles'[c], cases'[c].scope)
  <2>1. profiles'[c] = NoProfile
    BY <1>1
  <2>2. \A e \in DOMAIN log' : log'[e].at \in Nat
    <3>1. log' \in Seq(Event)
      BY <1>2 DEF CaseTypes
    <3>2. \A e \in DOMAIN log' : log'[e] \in Event
      BY <3>1
    <3>. QED BY <3>2 DEF Event
  <2>3. clock' \in Nat
    BY <1>2 DEF CaseTypes
  <2>. QED BY <2>1, <2>2, <2>3 DEF LeavesOutLater, NoProfile, Sightings
<1>. QED BY <1>1, <1>3, ProfilesStay

LEMMA ProfileStep ==
  ASSUME CaseInv, CaseInv', Grows, ProfileInv, [CaseNext]_caseVars
  PROVE  ProfileInv'
  BY FileProfiles, AgentProfiles, RecheckProfileProfiles, ViewBuildProfiles, StoredProfiles,
     OtherProfiles, MigrateProfiles DEF CaseNext

LEMMA ProfileInitially ==
  CaseInit => ProfileInv
<1>. SUFFICES ASSUME CaseInit PROVE ProfileInv
  OBVIOUS
<1>1. CaseTypes
  BY CaseInitially DEF CaseInv
<1>2. /\ \A c \in DOMAIN cases : profiles[c] = NoProfile
      /\ \A a \in Agents : agent[a].step = "idle"
  BY DEF CaseInit, NoRequest
<1>. QED BY <1>1, <1>2, NoProfileLeavesOutLater DEF ProfileInv

LEMMA ProfilesCurrent ==
  ASSUME CaseInv, ProfileInv
  PROVE  CurrentProfiles
<1>. SUFFICES ASSUME NEW c \in DOMAIN cases, ~Stale(cases[c], profiles[c], log),
                     NEW e \in Sightings(log, cases[c].scope) \ profiles[c].covers, ~log[e].recheck
              PROVE  log[e].at = profiles[c].at
  BY DEF CurrentProfiles
<1>1. log[e].at >= profiles[c].at
  BY DEF ProfileInv, LeavesOutLater
<1>2. ~(log[e].at > profiles[c].at)
  BY DEF Stale, Times
<1>3. log[e].at \in Nat /\ profiles[c].at \in Nat
  BY CaseTyped, EventTyped DEF CaseInv, Event, Profile, Sightings
<1>. QED BY <1>1, <1>2, <1>3

\* A profile a page serves as current covers every event the worker logged for
\* the device, but for the events of its own second and the rechecks, whichever
\* of two overlapping builds was stored last (review_admin.py:901).
THEOREM ProfilesAreCurrent == CaseSpec => []CurrentProfiles
<1>. DEFINE I == CaseInv /\ ProfileInv
<1>1. CaseInit => I
  BY CaseInitially, ProfileInitially
<1>2. I /\ [CaseNext]_caseVars => I'
  BY CaseStep, ProfileStep
<1>3. I => CurrentProfiles
  BY ProfilesCurrent
<1>. QED BY <1>1, <1>2, <1>3, PTL DEF CaseSpec

-----------------------------------------------------------------------------
(* CaseFiles: sums over cases and sightings *)

\* Sums over the members of a set that belong to s, when one member is added
\* and when the value at one member changes.
Part(D, sc, s) == {x \in D : sc[x] = s}

Extended(f, g, D, n) ==
  IsFiniteSet(D) /\ n \notin D /\ (\A x \in D : g[x] = f[x] /\ f[x] \in Int) /\ g[n] \in Int

PartIsMore(f, g, D, n, sc, s) ==
  /\ sc[n] = s => Sum(g, Part(D \cup {n}, sc, s)) = Sum(f, Part(D, sc, s)) + g[n]
  /\ sc[n] # s => Sum(g, Part(D \cup {n}, sc, s)) = Sum(f, Part(D, sc, s))

LEMMA PartGrows ==
  ASSUME NEW D, NEW n, NEW sc, NEW s, NEW f, NEW g, Extended(f, g, D, n)
  PROVE  PartIsMore(f, g, D, n, sc, s)
<1>. DEFINE P == Part(D, sc, s)
            Q == Part(D \cup {n}, sc, s)
<1>. USE DEF Extended, PartIsMore
<1>1. IsFiniteSet(P) /\ n \notin P /\ \A x \in P : g[x] = f[x] /\ f[x] \in Int
  BY FS_Subset DEF Part
<1>2. sc[n] = s => Q = P \cup {n}
  BY DEF Part
<1>3. sc[n] # s => Q = P
  BY DEF Part
<1>. HIDE DEF P, Q
<1>4. Sum(f, P) \in Int
  BY <1>1, SumIsInteger
<1>5. CASE sc[n] = s
  <2>1. Sum(g, P \cup {n}) = g[n] + Sum(f, P)
    BY <1>1, SumGrows
  <2>2. Sum(g, Q) = Sum(g, P \cup {n})
    BY <1>2, <1>5
  <2>3. g[n] \in Int
    OBVIOUS
  <2>4. Sum(g, Q) = Sum(f, P) + g[n]
    BY ONLY <1>4, <2>1, <2>2, <2>3
  <2>. QED BY <1>5, <2>4 DEF P, Q
<1>6. CASE sc[n] # s
  <2>1. Sum(g, P) = Sum(f, P)
    BY <1>1, SumAgrees
  <2>2. Sum(g, Q) = Sum(f, P)
    BY <1>3, <1>6, <2>1
  <2>. QED BY <1>6, <2>2 DEF P, Q
<1>. QED BY <1>5, <1>6

LEMMA PartChanges ==
  ASSUME NEW D, NEW n, NEW sc, NEW s, NEW f, NEW g, Adjusted(f, g, D, n)
  PROVE  Sum(g, Part(D, sc, s)) = Sum(f, Part(D, sc, s)) + (IF sc[n] = s THEN g[n] - f[n] ELSE 0)
<1>. DEFINE P == Part(D, sc, s)
<1>0. g[n] \in Int
  BY DEF Adjusted
<1>1. IsFiniteSet(P) /\ (\A x \in P : x # n => g[x] = f[x]) /\ \A x \in P : f[x] \in Int
  BY FS_Subset DEF Part, Adjusted
<1>2. sc[n] = s <=> n \in P
  BY DEF Part, Adjusted
<1>. HIDE DEF P
<1>3. Sum(f, P) \in Int
  BY <1>1, SumIsInteger
<1>4. CASE sc[n] = s
  <2>1. Sum(g, P) = Sum(f, P) + (g[n] - f[n])
    <3>1. Adjusted(f, g, P, n)
      BY <1>1, <1>2, <1>4, <1>0 DEF Adjusted
    <3>. QED BY ONLY <3>1, SumChanges
  <2>. QED BY <1>4, <2>1 DEF P
<1>5. CASE sc[n] # s
  <2>1. \A x \in P : g[x] = f[x]
    BY <1>1, <1>2, <1>5
  <2>2. Sum(g, P) = Sum(f, P) + 0
    BY <1>1, <1>3, <2>1, SumAgrees
  <2>. QED BY <1>5, <2>2 DEF P
<1>. QED BY <1>4, <1>5

OfScope(list, s) == {i \in DOMAIN list : list[i].scope = s}

TotalHits(s) == Sum(Hits, OfScope(cases, s))
TotalCounts(s) == Sum(Counts, OfScope(log, s))

Balanced == \A s \in Scopes : TotalHits(s) = TotalCounts(s)

LEMMA HitsBalance == HitsAddUp <=> (migrated => Balanced)
  BY DEF HitsAddUp, Balanced, TotalHits, TotalCounts, OfScope, Sum

LEMMA TotalsTyped ==
  ASSUME CaseTypes, NEW s
  PROVE  /\ IsFiniteSet(DOMAIN cases) /\ IsFiniteSet(DOMAIN log)
         /\ IsFiniteSet(OfScope(cases, s)) /\ IsFiniteSet(OfScope(log, s))
         /\ \A c \in DOMAIN cases : Hits[c] = cases[c].hits /\ Hits[c] \in Nat
         /\ \A e \in DOMAIN log : Counts[e] = log[e].counted /\ Counts[e] \in Nat
         /\ TotalHits(s) \in Nat /\ TotalCounts(s) \in Nat
<1>1. IsFiniteSet(DOMAIN cases) /\ IsFiniteSet(DOMAIN log)
  <2>1. Len(cases) \in Nat /\ DOMAIN cases = 1..Len(cases) /\ Len(log) \in Nat /\ DOMAIN log = 1..Len(log)
    BY DEF CaseTypes
  <2>. QED BY <2>1, FS_Interval
<1>2. IsFiniteSet(OfScope(cases, s)) /\ IsFiniteSet(OfScope(log, s))
  BY <1>1, FS_Subset DEF OfScope
<1>3. \A c \in DOMAIN cases : Hits[c] = cases[c].hits /\ Hits[c] \in Nat
  BY CaseTyped DEF Hits, Case
<1>4. \A e \in DOMAIN log : Counts[e] = log[e].counted /\ Counts[e] \in Nat
  BY EventTyped DEF Counts, Event
<1>5. TotalHits(s) \in Nat /\ TotalCounts(s) \in Nat
  <2>1. (\A c \in OfScope(cases, s) : Hits[c] \in Nat) /\ (\A e \in OfScope(log, s) : Counts[e] \in Nat)
    BY <1>3, <1>4 DEF OfScope
  <2>. QED BY <1>2, <2>1, SumIsNatural DEF TotalHits, TotalCounts
<1>. QED BY <1>1, <1>2, <1>3, <1>4, <1>5

LEMMA HitsStay ==
  ASSUME CaseTypes, NEW s, DOMAIN cases' = DOMAIN cases,
         \A c \in DOMAIN cases : cases'[c].hits = cases[c].hits /\ cases'[c].scope = cases[c].scope
  PROVE  TotalHits(s)' = TotalHits(s)
<1>1. OfScope(cases', s) = OfScope(cases, s) /\ IsFiniteSet(OfScope(cases, s))
  BY TotalsTyped DEF OfScope
<1>2. \A c \in OfScope(cases, s) : Hits'[c] = Hits[c]
  BY DEF Hits, OfScope
<1>3. Sum(Hits', OfScope(cases, s)) = Sum(Hits, OfScope(cases, s))
  BY <1>1, <1>2, SumAgrees
<1>. QED BY <1>1, <1>3 DEF TotalHits

LEMMA HitsAdded ==
  ASSUME CaseTypes, NEW s, NEW r \in Case, cases' = Append(cases, r)
  PROVE  TotalHits(s)' = TotalHits(s) + (IF r.scope = s THEN r.hits ELSE 0)
<1>. DEFINE D == DOMAIN cases
            n == Len(cases) + 1
            sc == [c \in DOMAIN cases' |-> cases'[c].scope]
            f == Hits
            g == Hits'
<1>1. /\ DOMAIN cases' = D \cup {n} /\ n \notin D /\ cases'[n] = r
      /\ \A c \in D : cases'[c] = cases[c]
  BY DEF CaseTypes
<1>2. \A x \in D : g[x] = f[x] /\ f[x] \in Int
  BY <1>1, TotalsTyped DEF Hits
<1>3. g[n] = r.hits /\ r.hits \in Int /\ IsFiniteSet(D)
  BY <1>1, TotalsTyped DEF Hits, Case
<1>4. /\ OfScope(cases', s) = Part(D \cup {n}, sc, s) /\ sc[n] = r.scope
      /\ OfScope(cases, s) = Part(D, sc, s)
  BY <1>1 DEF OfScope, Part
<1>5. TotalHits(s)' = Sum(g, OfScope(cases', s)) /\ TotalHits(s) = Sum(f, OfScope(cases, s))
  BY DEF TotalHits
<1>. HIDE DEF f, g, D, n, sc
<1>6. /\ sc[n] = s => Sum(g, Part(D \cup {n}, sc, s)) = Sum(f, Part(D, sc, s)) + g[n]
      /\ sc[n] # s => Sum(g, Part(D \cup {n}, sc, s)) = Sum(f, Part(D, sc, s))
  <2>1. Extended(f, g, D, n)
    BY <1>1, <1>2, <1>3 DEF Extended
  <2>2. PartIsMore(f, g, D, n, sc, s)
    BY ONLY <2>1, PartGrows
  <2>. QED BY ONLY <2>2 DEF PartIsMore
<1>7. Sum(f, Part(D, sc, s)) \in Int
  BY <1>4, <1>5, TotalsTyped
<1>. QED BY <1>3, <1>4, <1>5, <1>6, <1>7

LEMMA HitsChange ==
  ASSUME CaseTypes, NEW s, NEW k \in DOMAIN cases, NEW r \in Case, cases' = [cases EXCEPT ![k] = r],
         r.scope = cases[k].scope
  PROVE  TotalHits(s)' = TotalHits(s) + (IF r.scope = s THEN r.hits - cases[k].hits ELSE 0)
<1>. DEFINE D == DOMAIN cases
            sc == [c \in DOMAIN cases |-> cases[c].scope]
            f == Hits
            g == Hits'
<1>1. /\ DOMAIN cases' = D /\ cases'[k] = r
      /\ \A c \in D \ {k} : cases'[c] = cases[c]
  BY DEF CaseTypes
<1>2. (\A x \in D \ {k} : g[x] = f[x]) /\ \A x \in D : f[x] \in Int
  BY <1>1, TotalsTyped DEF Hits
<1>3. g[k] = r.hits /\ r.hits \in Int /\ IsFiniteSet(D) /\ k \in D /\ f[k] = cases[k].hits
  BY <1>1, TotalsTyped DEF Hits, Case
<1>4. /\ OfScope(cases', s) = Part(D, sc, s) /\ sc[k] = r.scope
      /\ OfScope(cases, s) = Part(D, sc, s)
  BY <1>1 DEF OfScope, Part
<1>5. TotalHits(s)' = Sum(g, OfScope(cases', s)) /\ TotalHits(s) = Sum(f, OfScope(cases, s))
  BY DEF TotalHits
<1>. HIDE DEF f, g, D, sc
<1>6. Sum(g, Part(D, sc, s)) = Sum(f, Part(D, sc, s)) + (IF sc[k] = s THEN g[k] - f[k] ELSE 0)
  <2>1. Adjusted(f, g, D, k)
    BY <1>1, <1>2, <1>3 DEF Adjusted
  <2>. QED BY ONLY <2>1, PartChanges
<1>. QED BY <1>3, <1>4, <1>5, <1>6

LEMMA CountsStay ==
  ASSUME CaseTypes, NEW s, log' = log
  PROVE  TotalCounts(s)' = TotalCounts(s)
  BY DEF TotalCounts, Counts

LEMMA CountsAdded ==
  ASSUME CaseTypes, NEW s, NEW r \in Event, log' = Append(log, r)
  PROVE  TotalCounts(s)' = TotalCounts(s) + (IF r.scope = s THEN r.counted ELSE 0)
<1>. DEFINE D == DOMAIN log
            n == Len(log) + 1
            sc == [c \in DOMAIN log' |-> log'[c].scope]
            f == Counts
            g == Counts'
<1>1. /\ DOMAIN log' = D \cup {n} /\ n \notin D /\ log'[n] = r
      /\ \A c \in D : log'[c] = log[c]
  BY DEF CaseTypes
<1>2. \A x \in D : g[x] = f[x] /\ f[x] \in Int
  BY <1>1, TotalsTyped DEF Counts
<1>3. g[n] = r.counted /\ r.counted \in Int /\ IsFiniteSet(D)
  BY <1>1, TotalsTyped DEF Counts, Event
<1>4. /\ OfScope(log', s) = Part(D \cup {n}, sc, s) /\ sc[n] = r.scope
      /\ OfScope(log, s) = Part(D, sc, s)
  BY <1>1 DEF OfScope, Part
<1>5. TotalCounts(s)' = Sum(g, OfScope(log', s)) /\ TotalCounts(s) = Sum(f, OfScope(log, s))
  BY DEF TotalCounts
<1>. HIDE DEF f, g, D, n, sc
<1>6. /\ sc[n] = s => Sum(g, Part(D \cup {n}, sc, s)) = Sum(f, Part(D, sc, s)) + g[n]
      /\ sc[n] # s => Sum(g, Part(D \cup {n}, sc, s)) = Sum(f, Part(D, sc, s))
  <2>1. Extended(f, g, D, n)
    BY <1>1, <1>2, <1>3 DEF Extended
  <2>2. PartIsMore(f, g, D, n, sc, s)
    BY ONLY <2>1, PartGrows
  <2>. QED BY ONLY <2>2 DEF PartIsMore
<1>7. Sum(f, Part(D, sc, s)) \in Int
  BY <1>4, <1>5, TotalsTyped
<1>. QED BY <1>3, <1>4, <1>5, <1>6, <1>7

LEMMA CountsChange ==
  ASSUME CaseTypes, NEW s, NEW k \in DOMAIN log, NEW r \in Event, log' = [log EXCEPT ![k] = r],
         r.scope = log[k].scope
  PROVE  TotalCounts(s)' = TotalCounts(s) + (IF r.scope = s THEN r.counted - log[k].counted ELSE 0)
<1>. DEFINE D == DOMAIN log
            sc == [c \in DOMAIN log |-> log[c].scope]
            f == Counts
            g == Counts'
<1>1. /\ DOMAIN log' = D /\ log'[k] = r
      /\ \A c \in D \ {k} : log'[c] = log[c]
  BY DEF CaseTypes
<1>2. (\A x \in D \ {k} : g[x] = f[x]) /\ \A x \in D : f[x] \in Int
  BY <1>1, TotalsTyped DEF Counts
<1>3. g[k] = r.counted /\ r.counted \in Int /\ IsFiniteSet(D) /\ k \in D /\ f[k] = log[k].counted
  BY <1>1, TotalsTyped DEF Counts, Event
<1>4. /\ OfScope(log', s) = Part(D, sc, s) /\ sc[k] = r.scope
      /\ OfScope(log, s) = Part(D, sc, s)
  BY <1>1 DEF OfScope, Part
<1>5. TotalCounts(s)' = Sum(g, OfScope(log', s)) /\ TotalCounts(s) = Sum(f, OfScope(log, s))
  BY DEF TotalCounts
<1>. HIDE DEF f, g, D, sc
<1>6. Sum(g, Part(D, sc, s)) = Sum(f, Part(D, sc, s)) + (IF sc[k] = s THEN g[k] - f[k] ELSE 0)
  <2>1. Adjusted(f, g, D, k)
    BY <1>1, <1>2, <1>3 DEF Adjusted
  <2>. QED BY ONLY <2>1, PartChanges
<1>. QED BY <1>3, <1>4, <1>5, <1>6

-----------------------------------------------------------------------------
(* CaseFiles: the hits of cases *)

\* The events agents still owe a hit stay apart when none of them takes a new
\* one and what is counted of theirs stays.
LEMMA OnceStays ==
  ASSUME CaseInv, CountedOnce,
         \A b \in Agents : ToBeCounted(b)' =>
           /\ ToBeCounted(b) /\ agent'[b].event = agent[b].event
           /\ log'[agent[b].event].counted = log[agent[b].event].counted
  PROVE  CountedOnce'
  BY DEF CountedOnce

LEMMA AgentsEvent ==
  ASSUME CaseInv, NEW b \in Agents, ToBeCounted(b)
  PROVE  agent[b].event \in DOMAIN log
  BY DEF ToBeCounted, CaseInv, Remembered

\* An agent that moves on without an event to count.
LEMMA OnceMoves ==
  ASSUME CaseInv, CountedOnce, NEW a \in Agents, NEW r, agent' = [agent EXCEPT ![a] = r],
         r.step \notin {"profile", "write"}, log' = log
  PROVE  CountedOnce'
<1>1. \A b \in Agents : agent'[b] = IF b = a THEN r ELSE agent[b]
  BY DEF CaseInv, CaseTypes
<1>2. \A b \in Agents : ToBeCounted(b)' => ToBeCounted(b) /\ agent'[b] = agent[b]
  BY <1>1 DEF ToBeCounted
<1>. QED BY <1>2, OnceStays

LEMMA QuietHits ==
  ASSUME CaseInv, HitInv, migrated, migrated' = migrated, log' = log, CountedOnce',
         DOMAIN cases' = DOMAIN cases,
         \A c \in DOMAIN cases : cases'[c].hits = cases[c].hits /\ cases'[c].scope = cases[c].scope
  PROVE  HitInv'
<1>1. CaseTypes /\ Balanced
  BY HitsBalance DEF CaseInv, HitInv
<1>2. \A s \in Scopes : TotalHits(s)' = TotalHits(s) /\ TotalCounts(s)' = TotalCounts(s)
  BY <1>1, HitsStay, CountsStay
<1>3. Balanced'
  BY <1>1, <1>2 DEF Balanced
<1>4. HitsAddUp'
  BY <1>3, HitsBalance, PTL
<1>. QED BY <1>4 DEF HitInv

LEMMA BalancedHits ==
  ASSUME HitInv, migrated, migrated' = migrated, Balanced', CountedOnce'
  PROVE  HitInv'
<1>1. HitsAddUp'
  BY HitsBalance, PTL
<1>. QED BY <1>1 DEF HitInv

\* Nobody is at work before the backfill.
LEMMA AtWork ==
  ASSUME HitInv, NEW a \in Agents, agent[a].step # "idle"
  PROVE  migrated
  BY DEF HitInv, NotCountedYet

LEMMA LogHits ==
  ASSUME CaseInv, HitInv, NEW s \in Scopes, Log(s)
  PROVE  HitInv'
<1>. DEFINE new == [scope |-> s, at |-> clock, recheck |-> FALSE, counted |-> 0]
<1>0. CaseTypes /\ DatedBefore /\ migrated /\ Balanced
  BY HitsBalance DEF CaseInv, HitInv, Log
<1>1. new \in Event /\ new.counted = 0
  BY <1>0 DEF CaseTypes, Event
<1>2. log' = Append(log, new) /\ UNCHANGED <<cases, agent, migrated>>
  BY DEF Log
<1>. HIDE DEF new
<1>3. \A e \in DOMAIN log : log'[e] = log[e]
  BY <1>0, <1>1, <1>2 DEF CaseTypes
<1>4. CountedOnce'
  <2>1. \A b \in Agents : ToBeCounted(b)' => ToBeCounted(b)
    BY <1>2 DEF ToBeCounted
  <2>. QED BY <1>2, <1>3, <2>1, AgentsEvent, OnceStays DEF HitInv
<1>5. ASSUME NEW t \in Scopes PROVE TotalHits(t)' = TotalCounts(t)'
  <2>1. TotalCounts(t)' = TotalCounts(t) + (IF new.scope = t THEN new.counted ELSE 0)
    BY <1>0, <1>1, <1>2, CountsAdded
  <2>2. TotalHits(t)' = TotalHits(t) /\ TotalHits(t) = TotalCounts(t) /\ TotalCounts(t) \in Nat
    BY <1>0, <1>2, HitsStay, TotalsTyped DEF Balanced
  <2>. QED BY <1>1, <2>1, <2>2
<1>6. Balanced'
  BY <1>5 DEF Balanced
<1>. QED BY <1>0, <1>2, <1>4, <1>6, BalancedHits

LEMMA FileHits ==
  ASSUME CaseInv, HitInv, NEW s \in Scopes, File(s)
  PROVE  HitInv'
<1>. DEFINE new == [scope |-> s, at |-> clock, recheck |-> FALSE, counted |-> 1]
            n == Len(log) + 1
<1>0. CaseTypes /\ DatedBefore /\ migrated /\ Balanced
  BY HitsBalance DEF CaseInv, HitInv, File
<1>1. new \in Event /\ new.counted = 1 /\ new.scope = s /\ clock \in Nat /\ n \in Nat
  BY <1>0 DEF CaseTypes, Event
<1>2. log' = Append(log, new) /\ UNCHANGED <<agent, migrated>>
  BY DEF File
<1>. HIDE DEF new, n
<1>3. \A e \in DOMAIN log : log'[e] = log[e]
  BY <1>0, <1>1, <1>2 DEF CaseTypes
<1>4. CountedOnce'
  <2>1. \A b \in Agents : ToBeCounted(b)' => ToBeCounted(b)
    BY <1>2 DEF ToBeCounted
  <2>. QED BY <1>2, <1>3, <2>1, AgentsEvent, OnceStays DEF HitInv
<1>5. ASSUME NEW t \in Scopes
      PROVE  /\ t = s => TotalHits(t)' = TotalHits(t) + 1
             /\ t # s => TotalHits(t)' = TotalHits(t)
  <2>0. TotalHits(t) \in Nat
    BY <1>0, TotalsTyped
  <2>1. CASE Live(s) # {}
    <3>. DEFINE k == Current(s)
                r == Reopened(cases[k], n, clock)
    <3>1. k \in DOMAIN cases /\ cases[k].scope = s /\ cases' = [cases EXCEPT ![k] = r]
      BY <2>1, FiledCase DEF n
    <3>2. cases[k] \in Case /\ cases[k].lastRepeat <= clock
      BY <1>0, <3>1, CaseTyped DEF DatedBefore
    <3>3. r \in Case /\ r.scope = s /\ r.hits = cases[k].hits + 1 /\ cases[k].hits \in Nat
      <4>1. cases[k].hits \in Nat
        BY <3>2 DEF Case
      <4>. QED BY <1>1, <3>1, <3>2, <4>1, ReopenedIsCase
    <3>. HIDE DEF k, r
    <3>4. TotalHits(t)' = TotalHits(t) + (IF r.scope = t THEN r.hits - cases[k].hits ELSE 0)
      BY <1>0, <3>1, <3>3, HitsChange
    <3>. QED BY <2>0, <3>3, <3>4
  <2>2. CASE Live(s) = {}
    <3>. DEFINE r == Opened(s, n, clock)
    <3>1. cases' = Append(cases, r)
      BY <2>2, OpenedCase DEF n
    <3>2. r \in Case /\ r.scope = s /\ r.hits = 1
      BY <1>1 DEF Opened, Case
    <3>. HIDE DEF r
    <3>3. TotalHits(t)' = TotalHits(t) + (IF r.scope = t THEN r.hits ELSE 0)
      BY <1>0, <3>1, <3>2, HitsAdded
    <3>. QED BY <2>0, <3>2, <3>3
  <2>. QED BY <2>1, <2>2
<1>6. ASSUME NEW t \in Scopes PROVE TotalHits(t)' = TotalCounts(t)'
  <2>1. TotalCounts(t)' = TotalCounts(t) + (IF new.scope = t THEN new.counted ELSE 0)
    BY <1>0, <1>1, <1>2, CountsAdded
  <2>2. TotalHits(t) = TotalCounts(t) /\ TotalCounts(t) \in Nat
    BY <1>0, TotalsTyped DEF Balanced
  <2>. QED BY <1>1, <1>5, <2>1, <2>2
<1>7. Balanced'
  BY <1>6 DEF Balanced
<1>. QED BY <1>0, <1>2, <1>4, <1>7, BalancedHits

LEMMA RecheckRecordHits ==
  ASSUME CaseInv, HitInv, NEW a \in Agents, RecheckRecord(a)
  PROVE  HitInv'
<1>. DEFINE x == agent[a]
            new == [scope |-> cases[x.case].scope, at |-> x.at, recheck |-> TRUE, counted |-> 0]
            n == Len(log) + 1
            r == [step |-> "profile", case |-> x.case, event |-> n]
<1>0. CaseTypes /\ DatedBefore /\ \A b \in Agents : Remembered(b)
  BY DEF CaseInv
<1>1. migrated /\ Balanced
  <2>1. agent[a].step # "idle"
    BY DEF RecheckRecord
  <2>. QED BY <2>1, AtWork, HitsBalance DEF HitInv
<1>2. new \in Event /\ new.counted = 0
  <2>1. x.case \in DOMAIN cases /\ x.at \in Nat
    BY <1>0, RequestTyped DEF RecheckRecord, Remembered
  <2>. QED BY <1>0, <2>1, CaseTyped DEF Event, Case
<1>3. log' = Append(log, new) /\ agent' = [agent EXCEPT ![a] = r] /\ UNCHANGED <<cases, migrated>>
  BY DEF RecheckRecord
<1>. HIDE DEF new
<1>4. (\A e \in DOMAIN log : log'[e] = log[e]) /\ n \notin DOMAIN log /\ log'[n] = new
  BY <1>0, <1>2, <1>3 DEF CaseTypes
<1>. HIDE DEF n
<1>5. \A b \in Agents : agent'[b] = IF b = a THEN r ELSE agent[b]
  BY <1>0, <1>3 DEF CaseTypes
<1>6. CountedOnce'
  <2>1. agent'[a].event = n
    BY <1>5
  <2>2. ASSUME NEW b \in Agents, b # a, ToBeCounted(b)'
        PROVE  ToBeCounted(b) /\ agent'[b].event = agent[b].event /\ agent[b].event \in DOMAIN log
    <3>1. ToBeCounted(b) /\ agent'[b] = agent[b]
      BY <1>5, <2>2 DEF ToBeCounted
    <3>. QED BY <3>1, AgentsEvent
  <2>3. \A b \in Agents : ToBeCounted(b)' => log'[agent'[b].event].counted = 0
    BY <1>2, <1>4, <2>1, <2>2 DEF HitInv, CountedOnce
  <2>4. \A b, c \in Agents : ToBeCounted(b)' /\ ToBeCounted(c)' /\ b # c =>
          agent'[b].event # agent'[c].event
    BY <1>4, <2>1, <2>2 DEF HitInv, CountedOnce
  <2>. QED BY <2>3, <2>4 DEF CountedOnce
<1>7. ASSUME NEW t \in Scopes PROVE TotalHits(t)' = TotalCounts(t)'
  <2>1. TotalCounts(t)' = TotalCounts(t) + (IF new.scope = t THEN new.counted ELSE 0)
    BY <1>0, <1>2, <1>3, CountsAdded
  <2>2. TotalHits(t)' = TotalHits(t) /\ TotalHits(t) = TotalCounts(t) /\ TotalCounts(t) \in Nat
    BY <1>0, <1>1, <1>3, HitsStay, TotalsTyped DEF Balanced
  <2>. QED BY <1>2, <2>1, <2>2
<1>8. Balanced'
  BY <1>7 DEF Balanced
<1>. QED BY <1>1, <1>3, <1>6, <1>8, BalancedHits

LEMMA RecheckWriteHits ==
  ASSUME CaseInv, HitInv, NEW a \in Agents, RecheckWrite(a)
  PROVE  HitInv'
<1>. DEFINE c == agent[a].case
            e == agent[a].event
            v == [log[e] EXCEPT !.counted = 1]
<1>0. CaseTypes /\ Remembered(a) /\ agent[a].step = "write" /\ ToBeCounted(a) /\ CountedOnce
  BY DEF CaseInv, HitInv, RecheckWrite, ToBeCounted
<1>1. migrated /\ Balanced
  BY <1>0, AtWork, HitsBalance DEF HitInv
<1>2. /\ c \in DOMAIN cases /\ e \in DOMAIN log /\ e \in Nat /\ log[e].scope = cases[c].scope
      /\ cases[c] \in Case /\ log[e] \in Event /\ log[e].counted = 0
  <2>1. c \in DOMAIN cases /\ e \in DOMAIN log /\ log[e].scope = cases[c].scope
    BY <1>0 DEF Remembered
  <2>. QED BY <1>0, <2>1, CaseTyped, EventTyped, RequestTyped DEF CountedOnce
<1>3. PICK status \in {"OPEN", "RESOLVED"} :
        cases' = [cases EXCEPT ![c] = Rechecked(cases[c], e, log[e].at, status)]
  BY DEF RecheckWrite
<1>4. log' = [log EXCEPT ![e] = v] /\ agent' = [agent EXCEPT ![a] = NoRequest] /\ UNCHANGED migrated
  BY DEF RecheckWrite
<1>5. v \in Event /\ v.scope = log[e].scope /\ v.counted = 1
  BY <1>2 DEF Event
<1>. DEFINE r == Rechecked(cases[c], e, log[e].at, status)
<1>6. r \in Case /\ r.scope = cases[c].scope /\ r.hits = cases[c].hits + 1 /\ cases[c].hits \in Nat
  <2>1. log[e].at \in Nat /\ cases[c].hits \in Nat
    BY <1>2 DEF Event, Case
  <2>. DEFINE k == cases[c]
              at == log[e].at
  <2>2. Recheckable(k, e, at, status)
    BY <1>2, <1>3, <2>1 DEF Recheckable
  <2>. HIDE DEF c, e, k, at
  <2>3. /\ Rechecked(k, e, at, status) \in Case /\ Rechecked(k, e, at, status).scope = k.scope
        /\ Rechecked(k, e, at, status).hits = k.hits + 1
    BY ONLY <2>2, RecheckedIsCase
  <2>4. r = Rechecked(k, e, at, status)
    BY DEF k, at
  <2>5. k = cases[c] /\ cases[c].hits \in Nat
    BY <2>1 DEF k
  <2>. HIDE DEF r
  <2>. QED BY ONLY <2>3, <2>4, <2>5
<1>7. CountedOnce'
  <2>1. ASSUME NEW b \in Agents, ToBeCounted(b)'
        PROVE  /\ ToBeCounted(b) /\ agent'[b].event = agent[b].event
               /\ log'[agent[b].event].counted = log[agent[b].event].counted
    <3>1. b # a /\ agent'[b] = agent[b] /\ ToBeCounted(b)
      BY <1>0, <1>4, <2>1 DEF ToBeCounted, NoRequest, CaseTypes
    <3>2. agent[b].event # e /\ agent[b].event \in DOMAIN log
      BY <1>0, <3>1, AgentsEvent DEF CountedOnce
    <3>3. log'[agent[b].event] = log[agent[b].event]
      BY <1>0, <1>2, <1>4, <3>2 DEF CaseTypes
    <3>. QED BY <3>1, <3>3
  <2>. QED BY <1>0, <2>1, OnceStays
<1>. HIDE DEF c, e, v, r
<1>8. ASSUME NEW t \in Scopes PROVE TotalHits(t)' = TotalCounts(t)'
  <2>1. TotalHits(t)' = TotalHits(t) + (IF r.scope = t THEN r.hits - cases[c].hits ELSE 0)
    BY <1>0, <1>2, <1>3, <1>6, HitsChange DEF r
  <2>2. TotalCounts(t)' = TotalCounts(t) + (IF v.scope = t THEN v.counted - log[e].counted ELSE 0)
    BY <1>0, <1>2, <1>4, <1>5, CountsChange
  <2>3. TotalHits(t) = TotalCounts(t) /\ TotalCounts(t) \in Nat
    BY <1>0, <1>1, TotalsTyped DEF Balanced
  <2>. QED BY <1>2, <1>5, <1>6, <2>1, <2>2, <2>3
<1>9. Balanced'
  BY <1>8 DEF Balanced
<1>. QED BY <1>1, <1>4, <1>7, <1>9, BalancedHits

LEMMA AgentHits ==
  ASSUME CaseInv, HitInv, NEW a \in Agents, NEW r, agent' = [agent EXCEPT ![a] = r],
         r.step \notin {"profile", "write"}, migrated, UNCHANGED <<log, cases, migrated>>
  PROVE  HitInv'
<1>1. CountedOnce'
  BY OnceMoves DEF HitInv
<1>. QED BY <1>1, QuietHits

LEMMA PageHits ==
  ASSUME CaseInv, HitInv, NEW a \in Agents,
         \/ \E c \in DOMAIN cases : ViewRead(a, c) \/ RecheckStart(a, c)
         \/ ViewCheck(a) \/ ViewBuild(a) \/ ViewPersist(a) \/ GiveUp(a)
  PROVE  HitInv'
<1>1. \E r : agent' = [agent EXCEPT ![a] = r] /\ r.step \notin {"profile", "write"}
  <2>1. CASE \E c \in DOMAIN cases : ViewRead(a, c) \/ RecheckStart(a, c)
    <3>1. PICK c \in DOMAIN cases : ViewRead(a, c) \/ RecheckStart(a, c)
      BY <2>1
    <3>. DEFINE r == [step |-> "check", case |-> c, read |-> cases[c]]
                q == [step |-> "record", case |-> c, at |-> clock]
    <3>2. agent' = [agent EXCEPT ![a] = r] \/ agent' = [agent EXCEPT ![a] = q]
      BY <3>1 DEF ViewRead, RecheckStart
    <3>3. r.step \notin {"profile", "write"} /\ q.step \notin {"profile", "write"}
      OBVIOUS
    <3>. HIDE DEF r, q
    <3>. QED BY <3>2, <3>3
  <2>2. CASE ViewCheck(a)
    <3>. DEFINE r == IF Stale(agent[a].read, profiles[agent[a].case], log)
                     THEN [step |-> "build", case |-> agent[a].case, read |-> agent[a].read]
                     ELSE NoRequest
    <3>1. agent' = [agent EXCEPT ![a] = r]
      BY <2>2 DEF ViewCheck
    <3>2. r.step \notin {"profile", "write"}
      BY DEF NoRequest
    <3>. QED BY <3>1, <3>2
  <2>3. CASE ViewBuild(a)
    <3>. DEFINE r == [step |-> "persist", case |-> agent[a].case,
                      profile |-> Built(log, agent[a].read.scope, agent[a].read.updated)]
    <3>1. agent' = [agent EXCEPT ![a] = r]
      BY <2>3 DEF ViewBuild
    <3>2. r.step \notin {"profile", "write"}
      OBVIOUS
    <3>. HIDE DEF r
    <3>. QED BY <3>1, <3>2
  <2>4. CASE ViewPersist(a) \/ GiveUp(a)
    BY <2>4 DEF ViewPersist, GiveUp, NoRequest
  <2>. QED BY <2>1, <2>2, <2>3, <2>4
<1>2. migrated
  <2>1. CASE \E c \in DOMAIN cases : ViewRead(a, c) \/ RecheckStart(a, c)
    BY <2>1 DEF ViewRead, RecheckStart
  <2>2. CASE ViewCheck(a) \/ ViewBuild(a) \/ ViewPersist(a)
    BY <2>2, AtWork DEF ViewCheck, ViewBuild, ViewPersist
  <2>3. CASE GiveUp(a)
    BY <2>3, AtWork, RequestTyped DEF GiveUp, CaseInv
  <2>. QED BY <2>1, <2>2, <2>3
<1>3. UNCHANGED <<log, cases, migrated>>
  BY DEF ViewRead, RecheckStart, ViewCheck, ViewBuild, ViewPersist, GiveUp
<1>. QED BY <1>1, <1>2, <1>3, AgentHits

\* The event of the recheck is the same before and after the profile is built.
LEMMA RecheckProfileHits ==
  ASSUME CaseInv, HitInv, NEW a \in Agents, RecheckProfile(a)
  PROVE  HitInv'
<1>1. ToBeCounted(a) /\ migrated /\ CountedOnce
  BY AtWork DEF RecheckProfile, ToBeCounted, HitInv
<1>2. UNCHANGED <<log, cases, migrated>>
      /\ (\A b \in Agents \ {a} : agent'[b] = agent[b]) /\ agent'[a].event = agent[a].event
  BY DEF RecheckProfile, CaseInv, CaseTypes
<1>3. CountedOnce'
  <2>1. \A b \in Agents : ToBeCounted(b)' => ToBeCounted(b) /\ agent'[b].event = agent[b].event
    BY <1>1, <1>2 DEF ToBeCounted
  <2>. QED BY <1>1, <1>2, <2>1, OnceStays
<1>. QED BY <1>1, <1>2, <1>3, QuietHits

LEMMA ResolveHits ==
  ASSUME CaseInv, HitInv, NEW c \in DOMAIN cases, Resolve(c)
  PROVE  HitInv'
<1>1. migrated /\ UNCHANGED <<log, agent, migrated>>
  BY DEF Resolve
<1>2. /\ DOMAIN cases' = DOMAIN cases
      /\ \A d \in DOMAIN cases : cases'[d].hits = cases[d].hits /\ cases'[d].scope = cases[d].scope
  <2>1. cases[c] \in Case
    BY CaseTyped DEF CaseInv
  <2>. DEFINE r == [cases[c] EXCEPT !.status = "RESOLVED", !.updated = clock]
  <2>2. r.hits = cases[c].hits /\ r.scope = cases[c].scope
    BY <2>1 DEF Case
  <2>3. cases' = [cases EXCEPT ![c] = r]
    BY DEF Resolve
  <2>. HIDE DEF r
  <2>. QED BY <2>2, <2>3 DEF CaseInv, CaseTypes
<1>3. CountedOnce'
  BY <1>1 DEF HitInv, CountedOnce, ToBeCounted
<1>. QED BY <1>1, <1>2, <1>3, QuietHits

LEMMA StillHits ==
  ASSUME CaseInv, HitInv, SecondPasses \/ UNCHANGED caseVars
  PROVE  HitInv'
<1>1. UNCHANGED <<log, cases, agent, migrated>>
  BY DEF SecondPasses, caseVars
<1>2. CountedOnce'
  BY <1>1 DEF HitInv, CountedOnce, ToBeCounted
<1>3. NotCountedYet => NotCountedYet'
  BY <1>1 DEF NotCountedYet
<1>4. HitsAddUp'
  BY <1>1 DEF HitInv, HitsAddUp, Hits, Counts
<1>. QED BY <1>1, <1>2, <1>3, <1>4 DEF HitInv

\* The backfill: every case has the hits of its repeats, and the cases of one
\* scope that become one keep their sum.
Kept(s) == Cardinality(Duplicates(s)) < 2

LEMMA MigrateHits ==
  ASSUME CaseInv, HitInv, Migrate
  PROVE  HitInv'
<1>0. CaseTypes /\ DatedBefore /\ ~migrated /\ NotCountedYet /\ CountedOnce
  BY DEF CaseInv, HitInv, Migrate
<1>. DEFINE B == [c \in DOMAIN cases |-> Backfilled[c].hits]
            N == [c \in DOMAIN cases |-> Collapsed(Backfilled, c).hits]
<1>1. UNCHANGED <<log, agent>> /\ migrated' /\ DOMAIN cases' = DOMAIN cases /\ Hits' = N
      /\ \A c \in DOMAIN cases : cases'[c].scope = cases[c].scope
  <2>1. cases' = [c \in DOMAIN cases |-> Collapsed(Backfilled, c)]
    BY DEF Migrate
  <2>2. \A c \in DOMAIN cases : cases'[c].scope = cases[c].scope
    BY <1>0, <2>1, CollapsedTyped
  <2>. QED BY <2>1, <2>2 DEF Migrate, Hits
<1>2. \A c \in DOMAIN cases : B[c] \in Nat /\ B[c] = cases[c].repeats
  <2>1. ASSUME NEW c \in DOMAIN cases PROVE B[c] \in Nat /\ B[c] = cases[c].repeats
    <3>1. cases[c].hits = 0 /\ cases[c].repeats >= 1
      BY <1>0 DEF NotCountedYet
    <3>2. cases[c] \in Case
      BY <1>0, CaseTyped
    <3>. QED BY <1>0, <3>1, <3>2, BackfilledCase DEF Case
  <2>. QED BY <2>1
<1>3. \A c \in DOMAIN cases : N[c] \in Nat
  <2>1. \A c \in DOMAIN cases : Collapsed(Backfilled, c) \in Case
    BY <1>0, CollapsedTyped
  <2>. QED BY <2>1 DEF Case
<1>4. ASSUME NEW s \in Scopes PROVE Sum(B, OfScope(cases, s)) = TotalCounts(s)
  <2>. DEFINE O == OfScope(cases, s)
  <2>1. O = OfScope(log, s) /\ IsFiniteSet(O)
    <3>1. DOMAIN log = DOMAIN cases
      BY <1>0 DEF NotCountedYet, CaseTypes
    <3>. QED BY <1>0, <3>1, TotalsTyped DEF NotCountedYet, OfScope
  <2>2. \A c \in O : B[c] = Counts[c]
    <3>1. ASSUME NEW c \in O PROVE B[c] = Counts[c]
      <4>1. c \in DOMAIN cases /\ c \in DOMAIN log
        BY <2>1 DEF OfScope
      <4>. QED BY <1>0, <1>2, <4>1 DEF NotCountedYet, Counts
    <3>. QED BY <3>1
  <2>. HIDE DEF O, B
  <2>3. Sum(B, O) = Sum(Counts, O)
    BY <2>1, <2>2, SumAgrees
  <2>. QED BY <2>1, <2>3 DEF TotalCounts, O
<1>5. ASSUME NEW s \in Scopes PROVE Sum(N, OfScope(cases, s)) = Sum(B, OfScope(cases, s))
  <2>. DEFINE O == OfScope(cases, s)
              D == Duplicates(s)
  <2>1. /\ IsFiniteSet(O) /\ O \subseteq DOMAIN cases /\ D \subseteq O /\ IsFiniteSet(D) /\ IsFiniteSet(O \ D)
        /\ \A c \in O : cases[c].scope = s
    BY <1>0, TotalsTyped, FS_Subset DEF OfScope, Duplicates
  <2>2. \A c \in O : c \notin D \/ Kept(s) => N[c] = B[c]
    BY <1>0, <2>1, CollapsedCases DEF Kept
  <2>3. (\A c \in O : N[c] \in Int /\ B[c] \in Int) /\ \A c \in D : N[c] \in Int /\ B[c] \in Int
    BY <1>2, <1>3, <2>1
  <2>4. ASSUME ~Kept(s) PROVE Sum(N, D) = Sum(B, D)
    <3>. DEFINE k == Survivor(s)
                f == [d \in D |-> Backfilled[d].hits]
    <3>1. k \in D
      <4>1. D # {}
        BY <2>4, FS_EmptySet DEF Kept
      <4>. QED BY <1>0, <4>1, SurvivorIsDuplicate
    <3>2. N[k] = Sum(f, D)
      <4>1. /\ cases[k].scope = s /\ k \in DOMAIN cases /\ Backfilled[k] \in Case
            /\ Survivor(cases[k].scope) = k /\ Duplicates(cases[k].scope) = D
        BY <1>0, <2>1, <3>1, BackfilledCase
      <4>2. Collapsed(Backfilled, k) =
              [Backfilled[k] EXCEPT !.repeats = Sum([d \in D |-> Backfilled[d].repeats], D),
                 !.hits = Sum(f, D),
                 !.opened = Min({Backfilled[d].opened : d \in D}),
                 !.lastRepeat = Max({Backfilled[d].lastRepeat : d \in D})]
        BY <1>0, <2>4, <3>1, <4>1, CollapsedCases DEF Kept
      <4>. DEFINE r == Backfilled[k]
                  R == Sum([d \in D |-> Backfilled[d].repeats], D)
                  H == Sum(f, D)
                  o == Min({Backfilled[d].opened : d \in D})
                  l == Max({Backfilled[d].lastRepeat : d \in D})
                  z == Collapsed(Backfilled, k)
      <4>3. z = [r EXCEPT !.repeats = R, !.hits = H, !.opened = o, !.lastRepeat = l] /\ r \in Case
        BY <4>1, <4>2
      <4>4. z.hits = H
        <5>. HIDE DEF z, r, R, H, o, l
        <5>. QED BY <4>3 DEF Case
      <4>. QED BY <4>1, <4>4
    <3>3. \A c \in D \ {k} : N[c] = 0
      <4>1. ASSUME NEW c \in D \ {k} PROVE N[c] = 0
        <5>1. /\ cases[c].scope = s /\ c \in DOMAIN cases /\ Backfilled[c] \in Case
              /\ Survivor(cases[c].scope) = k /\ Duplicates(cases[c].scope) = D /\ c # k
          BY <1>0, <2>1, <4>1, BackfilledCase
        <5>2. Collapsed(Backfilled, c) =
                [Backfilled[c] EXCEPT !.status = "MERGED", !.updated = Backfilled[k].updated, !.hits = 0]
          BY <1>0, <2>4, <4>1, <5>1, CollapsedCases DEF Kept
        <5>. DEFINE r == Backfilled[c]
                    u == Backfilled[k].updated
                    z == Collapsed(Backfilled, c)
        <5>3. z = [r EXCEPT !.status = "MERGED", !.updated = u, !.hits = 0] /\ r \in Case
          BY <5>1, <5>2
        <5>4. z.hits = 0
          <6>. HIDE DEF z, r, u
          <6>. QED BY <5>3 DEF Case
        <5>. QED BY <5>1, <5>4
      <4>. QED BY <4>1
    <3>4. \A d \in D : f[d] = B[d]
      BY <2>1
    <3>. HIDE DEF k, f, D, N, B
    <3>5. Sum(f, D) = Sum(B, D) /\ Sum(f, D) \in Int
      BY <2>1, <2>3, <3>4, SumAgrees, SumIsInteger
    <3>6. Sum(N, D) = N[k] + Sum(N, D \ {k})
      BY <2>1, <2>3, <3>1, SumTakesOut
    <3>7. Sum(N, D \ {k}) = 0
      <4>1. IsFiniteSet(D \ {k})
        BY <2>1, FS_Subset
      <4>. QED BY <3>3, <4>1, SumOfZeros
    <3>. QED BY <3>2, <3>5, <3>6, <3>7
  <2>. HIDE DEF O, D, N, B
  <2>5. CASE Kept(s)
    <3>1. \A c \in O : N[c] = B[c]
      BY <2>2, <2>5
    <3>2. Sum(N, O) = Sum(B, O)
      BY <2>1, <3>1, SumAgrees
    <3>. QED BY <3>2 DEF O
  <2>6. CASE ~Kept(s)
    <3>1. Sum(N, O) = Sum(N, D) + Sum(N, O \ D) /\ Sum(B, O) = Sum(B, D) + Sum(B, O \ D)
      BY <2>1, <2>3, SumSplits
    <3>2. Sum(N, O \ D) = Sum(B, O \ D)
      BY <2>1, <2>2, SumAgrees
    <3>3. Sum(N, O) = Sum(B, O)
      BY <2>4, <2>6, <3>1, <3>2
    <3>. QED BY <3>3 DEF O
  <2>. QED BY <2>5, <2>6
<1>6. ASSUME NEW s \in Scopes PROVE TotalHits(s)' = TotalCounts(s)'
  <2>1. OfScope(cases', s) = OfScope(cases, s)
    BY <1>1 DEF OfScope
  <2>2. TotalHits(s)' = Sum(N, OfScope(cases, s)) /\ TotalCounts(s)' = TotalCounts(s)
    BY <1>0, <1>1, <2>1, CountsStay DEF TotalHits
  <2>. QED BY <1>4, <1>5, <2>2
<1>7. HitsAddUp'
  <2>1. Balanced'
    BY <1>6 DEF Balanced
  <2>. QED BY <2>1, HitsBalance, PTL
<1>8. CountedOnce'
  BY <1>0, <1>1 DEF CountedOnce, ToBeCounted
<1>. QED BY <1>1, <1>7, <1>8 DEF HitInv

LEMMA HitStep ==
  ASSUME CaseInv, HitInv, [CaseNext]_caseVars
  PROVE  HitInv'
  BY LogHits, FileHits, RecheckRecordHits, RecheckProfileHits, RecheckWriteHits, PageHits, ResolveHits,
     MigrateHits, StillHits DEF CaseNext

LEMMA HitInitially ==
  CaseInit => HitInv
<1>. SUFFICES ASSUME CaseInit PROVE HitInv
  OBVIOUS
<1>1. ~migrated /\ \A a \in Agents : agent[a].step = "idle"
  BY DEF CaseInit, NoRequest
<1>2. CountedOnce
  BY <1>1 DEF CountedOnce, ToBeCounted
<1>3. NotCountedYet
  <2>1. PICK list \in Legacy :
          /\ log = [i \in DOMAIN list |->
                      [scope |-> list[i].scope, at |-> list[i].updated,
                       recheck |-> FALSE, counted |-> list[i].repeats]]
          /\ cases = [i \in DOMAIN list |-> LegacyCase(list[i], i)]
    BY DEF CaseInit
  <2>. DEFINE Row == [scope : Scopes, status : {"OPEN", "RESOLVED"}, repeats : Nat \ {0},
                      opened : Nat, updated : Nat]
  <2>2. list \in Seq(Row)
    BY CaseFilesAssumption
  <2>3. \A i \in DOMAIN list : list[i].repeats >= 1
    <3>1. ASSUME NEW i \in DOMAIN list PROVE list[i] \in Row
      <4>. HIDE DEF Row
      <4>. QED BY <2>2
    <3>. QED BY <3>1
  <2>4. Len(log) = Len(cases)
    <3>1. CaseTypes
      BY CaseInitially DEF CaseInv
    <3>2. DOMAIN log = DOMAIN cases
      BY <2>1
    <3>. QED BY <3>1, <3>2 DEF CaseTypes
  <2>5. \A c \in DOMAIN cases :
          /\ log[c].scope = cases[c].scope /\ log[c].counted = cases[c].repeats
          /\ cases[c].repeats >= 1 /\ cases[c].hits = 0
    BY <2>1, <2>3 DEF LegacyCase
  <2>. QED BY <1>1, <2>4, <2>5 DEF NotCountedYet
<1>. QED BY <1>1, <1>2, <1>3 DEF HitInv, HitsAddUp

\* No sighting is lost and none counted twice by a case that is re-opened,
\* rechecked or merged (review_case_ips, review_admin.py:562).
THEOREM EveryHitIsCounted == CaseSpec => []HitsAddUp
<1>. DEFINE I == CaseInv /\ HitInv
<1>1. CaseInit => I
  BY CaseInitially, HitInitially
<1>2. I /\ [CaseNext]_caseVars => I'
  BY CaseStep, HitStep
<1>3. I => HitsAddUp
  BY DEF HitInv
<1>. QED BY <1>1, <1>2, <1>3, PTL DEF CaseSpec

-----------------------------------------------------------------------------
(* ReadModels: the pages *)

PipelineRow == [at : Nat \ {0}, count : 0..MaxDepth]

Turn ==
  [step : {"idle", "overview due", "build", "write overview", "overview", "status"}]
    \cup [step : {"count"}, at : Nat \ {0}]
    \cup [step : {"write"}, at : Nat \ {0}, count : 0..MaxDepth]
    \cup [step : {"remember"}, row : PipelineRow]

PageTypes ==
  /\ time \in Nat \ {0} /\ depth \in 0..MaxDepth
  /\ since \in [0..MaxDepth -> Nat] /\ since[depth] = 0
  /\ pipeline = NoRow \/ pipeline \in PipelineRow
  /\ good.pipeline = NoRow \/ good.pipeline \in PipelineRow
  /\ good = [pipeline |-> good.pipeline, overview |-> good.overview]
  /\ doing \in [Readers -> Turn]
  /\ reply # NoRow /\ ~reply.stale => reply.count \in 0..MaxDepth

\* A row dated then tells a count that was true then or later.
Dated(at, count) == at <= time /\ since[count] <= time - at

DatedRow(row) == row # NoRow => Dated(row.at, row.count)

Carried(a) ==
  /\ doing[a].step = "count" => doing[a].at <= time
  /\ doing[a].step = "write" => Dated(doing[a].at, doing[a].count)
  /\ doing[a].step = "remember" => DatedRow(doing[a].row)

PageInv ==
  /\ PageTypes
  /\ DatedRow(pipeline) /\ DatedRow(good.pipeline)
  /\ \A a \in Readers : Carried(a)
  /\ FreshOrMarked

Placed(q) == q = NoRow \/ q \in PipelineRow

LEMMA TurnTyped ==
  ASSUME PageTypes, NEW a \in Readers
  PROVE  /\ doing[a] \in Turn
         /\ doing[a].step = "count" => doing[a].at \in Nat \ {0}
         /\ doing[a].step = "write" => doing[a].at \in Nat \ {0} /\ doing[a].count \in 0..MaxDepth
         /\ doing[a].step = "remember" => doing[a].row \in PipelineRow
<1>1. doing[a] \in Turn
  BY DEF PageTypes
<1>. QED BY <1>1 DEF Turn

\* A step of one reader, while no time passes and the queue stays.
LEMMA TurnTaken ==
  ASSUME PageInv, NEW a \in Readers, NEW t \in Turn, doing' = [doing EXCEPT ![a] = t],
         UNCHANGED <<time, depth, since>>,
         Placed(pipeline'), DatedRow(pipeline'),
         Placed(good'.pipeline), good' = [pipeline |-> good'.pipeline, overview |-> good'.overview],
         DatedRow(good'.pipeline),
         t.step = "count" => t.at <= time,
         t.step = "write" => Dated(t.at, t.count),
         t.step = "remember" => DatedRow(t.row),
         reply' # NoRow /\ ~reply'.stale =>
           reply'.count \in 0..MaxDepth /\ since[reply'.count] <= StaleAfter
  PROVE  PageInv'
<1>1. doing' \in [Readers -> Turn] /\ doing'[a] = t /\ \A b \in Readers \ {a} : doing'[b] = doing[b]
  BY DEF PageInv, PageTypes
<1>2. PageTypes'
  BY <1>1 DEF PageInv, PageTypes, Placed
<1>3. DatedRow(pipeline)' /\ DatedRow(good.pipeline)'
  BY DEF DatedRow, Dated
<1>4. ASSUME NEW b \in Readers PROVE Carried(b)'
  <2>1. CASE b = a
    BY <1>1, <2>1 DEF Carried, Dated, DatedRow
  <2>2. CASE b # a
    BY <1>1, <2>2 DEF PageInv, Carried, Dated, DatedRow
  <2>. QED BY <2>1, <2>2
<1>5. FreshOrMarked'
  BY DEF FreshOrMarked
<1>. QED BY <1>2, <1>3, <1>4, <1>5 DEF PageInv

\* The rows and the copies stay.
LEMMA TurnOnly ==
  ASSUME PageInv, NEW a \in Readers, NEW t \in Turn, doing' = [doing EXCEPT ![a] = t],
         UNCHANGED <<time, depth, since, pipeline>>,
         good'.pipeline = good.pipeline, good' = [pipeline |-> good'.pipeline, overview |-> good'.overview],
         t.step = "count" => t.at <= time,
         t.step = "write" => Dated(t.at, t.count),
         t.step # "remember",
         reply' = reply \/ reply' = NoRow \/ reply'.stale
  PROVE  PageInv'
<1>1. /\ Placed(pipeline') /\ DatedRow(pipeline') /\ Placed(good'.pipeline) /\ DatedRow(good'.pipeline)
      /\ reply' # NoRow /\ ~reply'.stale =>
           reply'.count \in 0..MaxDepth /\ since[reply'.count] <= StaleAfter
  BY DEF PageInv, PageTypes, Placed, DatedRow, Dated, FreshOrMarked
<1>. QED BY <1>1, TurnTaken

LEMMA PlainTurn ==
  /\ \A s \in {"idle", "overview due", "build", "write overview", "overview", "status"} :
       LET t == [step |-> s] IN t \in Turn /\ t.step = s
  /\ AtRest \in Turn /\ AtRest.step = "idle"
  BY DEF Turn, AtRest

\* A count is dated as the queue changes and as time passes.
LEMMA StillDated ==
  ASSUME PageTypes, TimePasses \/ Work, NEW at \in Nat, NEW n \in 0..MaxDepth, Dated(at, n)
  PROVE  Dated(at, n)'
<1>1. time \in Nat /\ since[n] \in Nat /\ depth \in 0..MaxDepth /\ Long \in Nat
  BY ReadModelsAssumption DEF PageTypes, Long
<1>2. CASE TimePasses
  <2>1. time' = time + 1 /\ since'[n] = IF n = depth THEN 0 ELSE IF since[n] = Long THEN Long ELSE since[n] + 1
    BY <1>2 DEF TimePasses
  <2>2. since'[n] <= since[n] + 1
    BY <1>1, <2>1 DEF PageTypes
  <2>3. since'[n] \in Nat
    BY <1>1, <2>1
  <2>. QED BY <1>1, <2>1, <2>2, <2>3 DEF Dated
<1>3. CASE Work
  <2>1. time' = time /\ (since'[n] = 0 \/ since'[n] = since[n])
    BY <1>3 DEF Work, PageTypes
  <2>. QED BY <1>1, <2>1 DEF Dated
<1>. QED BY <1>2, <1>3

LEMMA QueueStep ==
  ASSUME PageInv, TimePasses \/ Work
  PROVE  PageInv'
<1>0. PageTypes /\ UNCHANGED <<pipeline, good, doing>> /\ (reply' = NoRow \/ (reply' = reply /\ Work))
  BY DEF PageInv, TimePasses, Work, rows, timers
<1>1. PageTypes'
  <2>1. time \in Nat \ {0} /\ depth \in 0..MaxDepth /\ since \in [0..MaxDepth -> Nat] /\ Long \in Nat
    BY <1>0, ReadModelsAssumption DEF PageTypes, Long
  <2>2. CASE TimePasses
    <3>1. time' \in Nat \ {0} /\ depth' = depth
      BY <2>1, <2>2 DEF TimePasses
    <3>2. since' = [n \in 0..MaxDepth |->
                  IF n = depth THEN 0 ELSE IF since[n] = Long THEN Long ELSE since[n] + 1]
      BY <2>2 DEF TimePasses
    <3>3. since' \in [0..MaxDepth -> Nat] /\ since'[depth] = 0
      BY <2>1, <3>2
    <3>4. reply' = NoRow
      BY <2>2 DEF TimePasses
    <3>. QED BY <1>0, <3>1, <3>3, <3>4 DEF PageTypes
  <2>3. CASE Work
    <3>1. time' = time /\ depth' \in 0..MaxDepth /\ since' = [since EXCEPT ![depth'] = 0] /\ reply' = reply
      BY <2>3 DEF Work
    <3>2. since' \in [0..MaxDepth -> Nat] /\ since'[depth'] = 0
      BY <2>1, <3>1
    <3>. QED BY <1>0, <2>1, <3>1, <3>2 DEF PageTypes
  <2>. QED BY <2>2, <2>3
<1>2. ASSUME NEW q, Placed(q), DatedRow(q) PROVE DatedRow(q)'
  <2>1. ASSUME q # NoRow PROVE Dated(q.at, q.count)'
    <3>1. q.at \in Nat /\ q.count \in 0..MaxDepth /\ Dated(q.at, q.count)
      BY <1>2, <2>1 DEF Placed, DatedRow, PipelineRow
    <3>. QED BY <1>0, <3>1, StillDated
  <2>. QED BY <2>1 DEF DatedRow
<1>3. DatedRow(pipeline)' /\ DatedRow(good.pipeline)'
  BY <1>0, <1>2 DEF PageInv, PageTypes, Placed
<1>4. ASSUME NEW a \in Readers PROVE Carried(a)'
  <2>1. doing'[a].step = "count" => doing'[a].at <= time'
    <3>1. doing[a].step = "count" => doing[a].at \in Nat /\ doing[a].at <= time
      BY <1>0, TurnTyped DEF PageInv, Carried
    <3>2. time \in Nat /\ (time' = time \/ time' = time + 1)
      BY <1>0 DEF PageTypes, TimePasses, Work
    <3>. QED BY <1>0, <3>1, <3>2
  <2>2. doing[a].step = "write" => Dated(doing[a].at, doing[a].count)'
    BY <1>0, TurnTyped, StillDated DEF PageInv, Carried
  <2>3. doing[a].step = "remember" => DatedRow(doing[a].row)'
    BY <1>0, <1>2, TurnTyped DEF PageInv, Carried, Placed
  <2>. QED BY <1>0, <2>1, <2>2, <2>3 DEF Carried
<1>5. FreshOrMarked'
  <2>1. CASE reply' = NoRow
    BY <2>1 DEF FreshOrMarked
  <2>2. CASE reply' = reply /\ Work
    <3>1. ASSUME reply # NoRow, ~reply.stale PROVE since'[reply.count] <= StaleAfter
      <4>1. reply.count \in 0..MaxDepth /\ since[reply.count] <= StaleAfter
        BY <1>0, <3>1 DEF PageInv, PageTypes, FreshOrMarked
      <4>2. since' = [since EXCEPT ![depth'] = 0] /\ since \in [0..MaxDepth -> Nat]
        BY <1>0, <2>2 DEF Work, PageTypes
      <4>3. since'[reply.count] = 0 \/ since'[reply.count] = since[reply.count]
        BY <4>1, <4>2
      <4>. QED BY <4>1, <4>3, ReadModelsAssumption
    <3>. QED BY <2>2, <3>1 DEF FreshOrMarked
  <2>. QED BY <1>0, <2>1, <2>2
<1>. QED BY <1>1, <1>3, <1>4, <1>5 DEF PageInv

LEMMA CountQueueStep ==
  ASSUME PageInv, NEW a \in Readers, CountQueue(a)
  PROVE  PageInv'
<1>. DEFINE t == [step |-> "write", at |-> doing[a].at, count |-> depth]
<1>1. doing' = [doing EXCEPT ![a] = t] /\ UNCHANGED <<time, depth, since, pipeline, good, reply>>
      /\ doing[a].step = "count"
  BY DEF CountQueue, Moves, rows
<1>2. PageTypes /\ doing[a].at \in Nat \ {0} /\ doing[a].at <= time /\ depth \in 0..MaxDepth /\ time \in Nat
  BY <1>1, TurnTyped DEF PageInv, PageTypes, Carried
<1>3. t \in Turn /\ t.step = "write" /\ Dated(t.at, t.count)
  <2>1. t \in Turn /\ t.step = "write" /\ t.at = doing[a].at /\ t.count = depth
    BY <1>2 DEF Turn
  <2>2. since[depth] = 0 /\ doing[a].at \in Nat
    BY <1>2 DEF PageTypes
  <2>. HIDE DEF t
  <2>. QED BY <1>2, <2>1, <2>2 DEF Dated
<1>4. good' = [pipeline |-> good'.pipeline, overview |-> good'.overview]
  BY <1>1, <1>2 DEF PageTypes
<1>. HIDE DEF t
<1>. QED BY <1>1, <1>3, <1>4, TurnOnly

LEMMA WriteStep ==
  ASSUME PageInv, NEW a \in Readers, Write(a)
  PROVE  PageInv'
<1>. DEFINE r == [at |-> doing[a].at, count |-> doing[a].count]
            t == [step |-> "remember", row |-> r]
<1>1. doing' = [doing EXCEPT ![a] = t] /\ UNCHANGED <<time, depth, since, good, reply>>
      /\ doing[a].step = "write" /\ pipeline' = r
  BY DEF Write, Moves
<1>2. /\ PageTypes /\ doing[a].at \in Nat \ {0} /\ doing[a].count \in 0..MaxDepth
      /\ Dated(doing[a].at, doing[a].count)
  BY <1>1, TurnTyped DEF PageInv, Carried
<1>3. r \in PipelineRow /\ DatedRow(r)
  BY <1>2 DEF PipelineRow, DatedRow
<1>4. t \in Turn /\ t.step = "remember" /\ t.row = r
  BY <1>3 DEF Turn
<1>5. /\ Placed(good'.pipeline) /\ good' = [pipeline |-> good'.pipeline, overview |-> good'.overview]
      /\ DatedRow(good'.pipeline)
      /\ reply' # NoRow /\ ~reply'.stale =>
           reply'.count \in 0..MaxDepth /\ since[reply'.count] <= StaleAfter
  BY <1>1 DEF PageInv, PageTypes, Placed, FreshOrMarked
<1>6. Placed(pipeline') /\ DatedRow(pipeline')
  BY <1>1, <1>3 DEF Placed
<1>. HIDE DEF t, r
<1>. QED BY <1>1, <1>3, <1>4, <1>5, <1>6, TurnTaken

\* What a page is told of a row that is right, is right.
LEMMA ToldRight ==
  ASSUME PageTypes, NEW q \in PipelineRow, DatedRow(q), NEW unread \in BOOLEAN, ~Told(q, unread).stale
  PROVE  Told(q, unread).count \in 0..MaxDepth /\ since[Told(q, unread).count] <= StaleAfter
<1>1. q.at \in Nat \ {0} /\ q.count \in 0..MaxDepth /\ time \in Nat
  BY DEF PipelineRow, PageTypes
<1>2. q # NoRow
  BY DEF PipelineRow, NoRow
<1>3. q.at <= time /\ since[q.count] <= time - q.at /\ since[q.count] \in Nat
  BY <1>1, <1>2 DEF DatedRow, Dated, PageTypes
<1>4. Told(q, unread).count = q.count /\ ~(time - q.at > StaleAfter)
  BY DEF Told
<1>. QED BY <1>1, <1>3, <1>4, ReadModelsAssumption

LEMMA RememberStep ==
  ASSUME PageInv, NEW a \in Readers, Remember(a)
  PROVE  PageInv'
<1>. DEFINE r == doing[a].row
            t == IF a = "worker" THEN [step |-> "overview due"] ELSE AtRest
<1>1. doing' = [doing EXCEPT ![a] = t] /\ UNCHANGED <<time, depth, since, pipeline>>
      /\ doing[a].step = "remember" /\ good' = [good EXCEPT !.pipeline = r]
      /\ (reply' = reply \/ reply' = Told(r, FALSE))
  BY DEF Remember, Moves
<1>2. PageTypes /\ r \in PipelineRow /\ DatedRow(r)
  BY <1>1, TurnTyped DEF PageInv, Carried
<1>3. t \in Turn /\ t.step \notin {"count", "write", "remember"}
  BY DEF Turn, AtRest
<1>4. /\ Placed(good'.pipeline) /\ good' = [pipeline |-> good'.pipeline, overview |-> good'.overview]
      /\ DatedRow(good'.pipeline)
  BY <1>1, <1>2 DEF PageTypes, Placed
<1>5. reply' # NoRow /\ ~reply'.stale =>
           reply'.count \in 0..MaxDepth /\ since[reply'.count] <= StaleAfter
  BY <1>1, <1>2, ToldRight DEF PageInv, PageTypes, FreshOrMarked
<1>6. Placed(pipeline') /\ DatedRow(pipeline')
  BY <1>1 DEF PageInv, PageTypes, Placed, DatedRow, Dated
<1>. HIDE DEF t, r
<1>. QED BY <1>1, <1>3, <1>4, <1>5, <1>6, TurnTaken

\* The steps that only move a reader, or the copy of the overview.
LEMMA MovesOnly ==
  ASSUME PageInv, NEW a \in Readers, NEW t \in Turn, Moves(a, t),
         t.step \notin {"write", "remember"}, t.step = "count" => t.at <= time,
         pipeline' = pipeline,
         good' = good \/ \E v : good' = [good EXCEPT !.overview = v],
         reply' = reply \/ reply' = NoRow \/ reply'.stale
  PROVE  PageInv'
<1>1. doing' = [doing EXCEPT ![a] = t] /\ UNCHANGED <<time, depth, since>>
  BY DEF Moves
<1>2. good'.pipeline = good.pipeline /\ good' = [pipeline |-> good'.pipeline, overview |-> good'.overview]
  BY DEF PageInv, PageTypes
<1>. QED BY <1>1, <1>2, TurnOnly

LEMMA CountingDated ==
  ASSUME PageInv
  PROVE  Counting \in Turn /\ Counting.step = "count" /\ Counting.at <= time
<1>1. time \in Nat \ {0} /\ time <= time
  BY DEF PageInv, PageTypes
<1>2. Counting \in Turn /\ Counting.step = "count" /\ Counting.at = time
  BY <1>1 DEF Counting, Turn
<1>. QED BY <1>1, <1>2

LEMMA RefreshStep ==
  ASSUME PageInv, NEW a \in Readers, RefreshDue(a)
  PROVE  PageInv'
<1>1. Counting \in Turn /\ Counting.step = "count" /\ Counting.at <= time
  BY CountingDated
<1>. QED BY <1>1, MovesOnly DEF RefreshDue, rows

LEMMA WorkerStep ==
  ASSUME PageInv, NotDue \/ OverviewDue
  PROVE  PageInv'
<1>1. \E s \in {"idle", "overview due", "build"} : Moves("worker", [step |-> s])
  BY DEF NotDue, OverviewDue, AtRest
<1>2. UNCHANGED <<pipeline, good, reply>> /\ "worker" \in Readers
  BY DEF NotDue, OverviewDue, rows, timers, Readers
<1>. QED BY <1>1, <1>2, MovesOnly, PlainTurn

LEMMA BuildStep ==
  ASSUME PageInv, NEW a \in Readers, Build(a) \/ WriteOverview(a) \/ Busy(a)
  PROVE  PageInv'
<1>1. \E s \in {"idle", "overview due", "status", "write overview"} : Moves(a, [step |-> s])
  BY DEF Build, WriteOverview, Busy, AtRest
<1>2. pipeline' = pipeline /\ reply' = reply /\ (good' = good \/ good' = [good EXCEPT !.overview = TRUE])
  BY DEF Build, WriteOverview, Busy, rows, timers
<1>. QED BY <1>1, <1>2, MovesOnly, PlainTurn

LEMMA PageReads ==
  ASSUME PageInv, OpenPage \/ ReadOverview \/ OverviewBusy \/ StatusBusy
  PROVE  PageInv'
<1>1. \E s \in {"idle", "overview", "status", "build"} : Moves("page", [step |-> s])
  BY DEF OpenPage, ReadOverview, OverviewBusy, StatusBusy, AtRest
<1>2. pipeline' = pipeline /\ (good' = good \/ good' = [good EXCEPT !.overview = @ \/ overview])
  BY DEF OpenPage, ReadOverview, OverviewBusy, StatusBusy, rows
<1>3. reply' = reply \/ reply' = NoRow \/ reply'.stale
  <2>1. Unanswered.stale /\ Told(good.pipeline, TRUE).stale
    BY DEF Unanswered, Told
  <2>. QED BY <2>1 DEF OpenPage, ReadOverview, OverviewBusy, StatusBusy, rows
<1>4. "page" \in Readers
  BY DEF Readers
<1>. QED BY <1>1, <1>2, <1>3, <1>4, MovesOnly, PlainTurn

LEMMA ReadStatusStep ==
  ASSUME PageInv, ReadStatus
  PROVE  PageInv'
<1>0. "page" \in Readers /\ PageTypes /\ pipeline' = pipeline
  BY DEF Readers, PageInv, ReadStatus
<1>1. CASE pipeline = NoRow
  <2>1. Moves("page", Counting) /\ UNCHANGED <<good, reply>>
    BY <1>1 DEF ReadStatus
  <2>2. Counting \in Turn /\ Counting.step = "count" /\ Counting.at <= time
    BY CountingDated
  <2>. QED BY <1>0, <2>1, <2>2, MovesOnly
<1>2. CASE pipeline # NoRow
  <2>1. /\ doing' = [doing EXCEPT !["page"] = AtRest] /\ UNCHANGED <<time, depth, since>>
        /\ good' = [good EXCEPT !.pipeline = pipeline]
        /\ reply' = Told(pipeline, FALSE)
    BY <1>2 DEF ReadStatus, Moves
  <2>2. pipeline \in PipelineRow /\ DatedRow(pipeline)
    BY <1>0, <1>2 DEF PageInv, PageTypes
  <2>3. /\ Placed(good'.pipeline) /\ good' = [pipeline |-> good'.pipeline, overview |-> good'.overview]
        /\ DatedRow(good'.pipeline) /\ Placed(pipeline') /\ DatedRow(pipeline')
    BY <1>0, <2>1, <2>2 DEF PageTypes, Placed, DatedRow, Dated
  <2>4. ~reply'.stale => reply'.count \in 0..MaxDepth /\ since[reply'.count] <= StaleAfter
    BY <1>0, <2>1, <2>2, ToldRight
  <2>. QED BY <1>0, <2>1, <2>3, <2>4, PlainTurn, TurnTaken
<1>. QED BY <1>1, <1>2

LEMMA BackfillStep ==
  ASSUME PageInv, Backfill \/ UNCHANGED pageVars
  PROVE  PageInv'
<1>1. UNCHANGED <<time, depth, since, pipeline, doing, reply>>
      /\ (good' = [pipeline |-> NoRow, overview |-> FALSE] \/ good' = good)
  BY DEF Backfill, pageVars
<1>2. PageTypes' /\ DatedRow(good.pipeline)'
  BY <1>1 DEF PageInv, PageTypes, DatedRow, Dated
<1>3. DatedRow(pipeline)' /\ FreshOrMarked' /\ \A a \in Readers : Carried(a)'
  BY <1>1 DEF PageInv, DatedRow, Dated, FreshOrMarked, Carried
<1>. QED BY <1>2, <1>3 DEF PageInv

LEMMA PageStep ==
  PageInv /\ [PageNext]_pageVars => PageInv'
  BY QueueStep, RefreshStep, CountQueueStep, WriteStep, RememberStep, BuildStep, WorkerStep,
     PageReads, ReadStatusStep, BackfillStep DEF PageNext

LEMMA PageInitially ==
  PageInit => PageInv
<1>. SUFFICES ASSUME PageInit PROVE PageInv
  OBVIOUS
<1>1. \A a \in Readers : doing[a] = AtRest
  BY DEF PageInit
<1>2. PageTypes
  <2>1. doing \in [Readers -> Turn]
    BY PlainTurn DEF PageInit
  <2>2. since \in [0..MaxDepth -> Nat] /\ since[depth] = 0
    BY ReadModelsAssumption DEF PageInit, Long
  <2>. QED BY <2>1, <2>2 DEF PageInit, PageTypes
<1>3. DatedRow(pipeline) /\ DatedRow(good.pipeline) /\ FreshOrMarked
  BY DEF PageInit, DatedRow, FreshOrMarked
<1>4. \A a \in Readers : Carried(a)
  BY <1>1, PlainTurn DEF Carried
<1>. QED BY <1>2, <1>3, <1>4 DEF PageInv

\* A count a page shows without the mark was the true one at some moment of the
\* last StaleAfter seconds, however the refreshes of the loops and of the page
\* overlap (store.py:2441, 631).
THEOREM PagesAreFreshOrMarked == PageSpec => []FreshOrMarked
<1>1. PageInv => FreshOrMarked
  BY DEF PageInv
<1>. QED BY <1>1, PageInitially, PageStep, PTL DEF PageSpec

-----------------------------------------------------------------------------
(* CoreStats: the statistics *)

Tallies == [What -> Nat]

StatsTypes ==
  /\ buffer \in Tallies /\ tallied \in Tallies /\ reported \in Tallies /\ unshown \in Tallies
  /\ flush \in [Tasks -> [took : Tallies, next : Nat]]
  /\ daily \in [0..MaxMidnights -> Tallies]
  /\ day \in 0..MaxMidnights
  /\ report \in [step : {"waiting", "flushing", "reading", "sent", "dead"}, of : 0..MaxMidnights]

\* What the report has sent and not yet deleted is in the table as well.
Sent(k) == IF report.step = "sent" THEN daily[report.of - 1][k] ELSE 0

\* What the reports have gone through.
ReadOf(k) == reported[k] + unshown[k]

Found(k) == buffer[k] + ToWrite("timer", k) + ToWrite("report", k) + InTable(k) + ReadOf(k)

StatsInv ==
  /\ StatsTypes
  /\ report.of <= day
  /\ report.step # "waiting" => report.of >= 1
  /\ report.step # "flushing" => flush["report"] = NoFlush
  /\ \A k \in What : tallied[k] + Sent(k) <= Found(k)

PoolInv ==
  /\ IsFiniteSet(pool)
  /\ round.left \in Seq(ApiIps) /\ round = [left |-> round.left, sent |-> round.sent]
  /\ pool \subseteq ApiIps
  /\ RefusedAreAsked

LEMMA TalliesTyped ==
  /\ Nothing \in Tallies /\ \A k \in What : Nothing[k] = 0
  /\ \A a, b \in Tallies : Plus(a, b) \in Tallies /\ \A k \in What : Plus(a, b)[k] = a[k] + b[k]
  /\ \A a \in Tallies, k \in What : a[k] \in Nat
  BY DEF Nothing, Plus, Tallies

LEMMA KeysTyped ==
  /\ Keys \in Seq(STRING) /\ Len(Keys) \in Nat /\ DOMAIN Keys = 1..Len(Keys)
  /\ \A i \in DOMAIN Keys : Keys[i] \in What
  /\ \A k \in What : \E i \in DOMAIN Keys : Keys[i] = k
<1>1. Keys \in Seq(STRING)
  BY CoreStatsAssumption
<1>. QED BY <1>1 DEF What, Range

Flush == [took : Tallies, next : Nat]

LEMMA FlushTyped ==
  ASSUME StatsTypes, NEW t \in Tasks
  PROVE  flush[t] \in Flush /\ flush[t].took \in Tallies /\ flush[t].next \in Nat
         /\ NoFlush \in Flush /\ NoFlush.took = Nothing /\ NoFlush.next = 0
<1>1. flush[t] \in Flush
  BY DEF StatsTypes, Flush
<1>. QED BY <1>1, TalliesTyped DEF Flush, NoFlush

\* What a flush still has to write, by where it is.
Left(x, k) == IF \E i \in DOMAIN Keys : Keys[i] = k /\ i >= x.next THEN x.took[k] ELSE 0

LEMMA LeftOf ==
  ASSUME NEW x \in Flush, NEW k \in What
  PROVE  /\ Left(x, k) \in Nat /\ Left(x, k) <= x.took[k] /\ x.took[k] \in Nat
         /\ x.took = Nothing => Left(x, k) = 0
         /\ x.next = 1 => Left(x, k) = x.took[k]
         /\ x.next = Len(Keys) + 1 => Left(x, k) = 0
<1>1. x.took \in Tallies /\ x.next \in Nat /\ x.took[k] \in Nat
  BY TalliesTyped DEF Flush
<1>2. Left(x, k) = x.took[k] \/ Left(x, k) = 0
  BY DEF Left
<1>3. x.next = 1 => Left(x, k) = x.took[k]
  BY KeysTyped DEF Left
<1>4. x.next = Len(Keys) + 1 => Left(x, k) = 0
  BY KeysTyped DEF Left
<1>. QED BY <1>1, <1>2, <1>3, <1>4, TalliesTyped

LEMMA LeftAfter ==
  ASSUME NEW x \in Flush, NEW y \in Flush, NEW k \in What,
         x.next \in DOMAIN Keys, y.took = x.took, y.next = x.next + 1
  PROVE  /\ k # Keys[x.next] => Left(y, k) = Left(x, k)
         /\ Left(x, k) <= Left(y, k) + x.took[k]
<1>1. x.next \in Nat
  BY DEF Flush
<1>2. ASSUME k # Keys[x.next] PROVE Left(y, k) = Left(x, k)
  <2>1. \A i \in DOMAIN Keys : Keys[i] = k => (i >= x.next <=> i >= y.next)
    BY <1>1, <1>2, KeysTyped
  <2>. QED BY <2>1 DEF Left
<1>3. Left(x, k) <= x.took[k] /\ Left(x, k) \in Nat /\ Left(y, k) \in Nat /\ x.took[k] \in Nat
  BY LeftOf
<1>4. Left(x, k) <= Left(y, k) + x.took[k]
  BY <1>3
<1>. QED BY <1>2, <1>4

LEMMA InTableTyped ==
  ASSUME StatsTypes, NEW k \in What
  PROVE  InTable(k) \in Nat /\ IsFiniteSet(0..MaxMidnights)
         /\ \A d \in 0..MaxMidnights : daily[d] \in Tallies /\ daily[d][k] \in Nat
<1>. DEFINE D == 0..MaxMidnights
            f == [d \in D |-> daily[d][k]]
<1>1. IsFiniteSet(D)
  BY CoreStatsAssumption, FS_Interval
<1>2. \A d \in D : daily[d] \in Tallies /\ daily[d][k] \in Nat
  BY TalliesTyped DEF StatsTypes
<1>3. \A d \in D : f[d] \in Nat
  BY <1>2
<1>4. InTable(k) = Sum(f, D)
  BY DEF InTable, Sum
<1>. HIDE DEF f, D
<1>5. Sum(f, D) \in Nat
  BY <1>1, <1>3, SumIsNatural
<1>. QED BY <1>1, <1>2, <1>4, <1>5 DEF D

LEMMA TableChanges ==
  ASSUME StatsTypes, NEW k \in What, NEW d \in 0..MaxMidnights, daily'[d][k] \in Nat,
         \A e \in 0..MaxMidnights \ {d} : daily'[e][k] = daily[e][k]
  PROVE  InTable(k)' = InTable(k) + (daily'[d][k] - daily[d][k])
<1>1. PICK D : D = 0..MaxMidnights
  OBVIOUS
<1>. DEFINE f == [e \in D |-> daily[e][k]]
            g == [e \in D |-> daily'[e][k]]
<1>2. /\ IsFiniteSet(D) /\ d \in D /\ f[d] = daily[d][k] /\ g[d] = daily'[d][k] /\ g[d] \in Int
      /\ \A e \in D : f[e] \in Int
      /\ \A e \in D : e # d => g[e] = f[e]
  BY <1>1, InTableTyped
<1>3. InTable(k) = Sum(f, D) /\ InTable(k)' = Sum(g, D)
  BY <1>1 DEF InTable, Sum
<1>. HIDE DEF f, g
<1>4. Sum(g, D) = Sum(f, D) + (g[d] - f[d])
  <2>1. Adjusted(f, g, D, d)
    BY <1>2 DEF Adjusted
  <2>. QED BY ONLY <2>1, SumChanges
<1>. QED BY <1>2, <1>3, <1>4

LEMMA TableStays ==
  ASSUME daily' = daily, NEW k
  PROVE  InTable(k)' = InTable(k)
  BY DEF InTable

LEMMA WrittenIsLeft ==
  ASSUME NEW t, NEW k
  PROVE  ToWrite(t, k) = Left(flush[t], k) /\ ToWrite(t, k)' = Left(flush'[t], k)
  BY DEF ToWrite, Left

\* Everything that is summed is a number.
LEMMA FoundTyped ==
  ASSUME StatsInv, NEW k \in What
  PROVE  /\ buffer[k] \in Nat /\ tallied[k] \in Nat /\ ReadOf(k) \in Nat /\ InTable(k) \in Nat
         /\ \A t \in Tasks : ToWrite(t, k) \in Nat
         /\ Sent(k) \in Nat
         /\ tallied[k] + Sent(k) <= Found(k)
<1>1. StatsTypes
  BY DEF StatsInv
<1>2. buffer[k] \in Nat /\ tallied[k] \in Nat /\ ReadOf(k) \in Nat /\ InTable(k) \in Nat
  BY <1>1, TalliesTyped, InTableTyped DEF StatsTypes, ReadOf
<1>3. \A t \in Tasks : ToWrite(t, k) \in Nat
  BY <1>1, FlushTyped, LeftOf, WrittenIsLeft
<1>4. Sent(k) \in Nat
  <2>1. report.step = "sent" => report.of - 1 \in 0..MaxMidnights
    BY <1>1, CoreStatsAssumption DEF StatsInv, StatsTypes
  <2>. QED BY <1>1, <2>1, InTableTyped DEF Sent
<1>. QED BY <1>2, <1>3, <1>4 DEF StatsInv

\* What a step must show of every key, given what it changes.
LEMMA FoundStill ==
  ASSUME StatsInv, StatsTypes', NEW k \in What,
         NEW b \in Int, buffer'[k] = buffer[k] + b,
         NEW v \in Int, tallied'[k] = tallied[k] + v,
         NEW r \in Int, ReadOf(k)' = ReadOf(k) + r,
         NEW i \in Int, InTable(k)' = InTable(k) + i,
         NEW x \in Int, Left(flush'["timer"], k) = Left(flush["timer"], k) + x,
         NEW y \in Int, Left(flush'["report"], k) = Left(flush["report"], k) + y,
         NEW s \in Int, Sent(k)' = Sent(k) + s,
         v + s <= b + x + y + i + r
  PROVE  (tallied[k] + Sent(k) <= Found(k))'
<1>1. ToWrite("timer", k)' = ToWrite("timer", k) + x /\ ToWrite("report", k)' = ToWrite("report", k) + y
  BY WrittenIsLeft
<1>2. /\ buffer[k] \in Nat /\ tallied[k] \in Nat /\ ReadOf(k) \in Nat /\ InTable(k) \in Nat
      /\ ToWrite("timer", k) \in Nat /\ ToWrite("report", k) \in Nat /\ Sent(k) \in Nat
      /\ tallied[k] + Sent(k) <=
           buffer[k] + ToWrite("timer", k) + ToWrite("report", k) + InTable(k) + ReadOf(k)
  BY FoundTyped DEF Found, Tasks
<1>3. tallied'[k] + Sent(k)' <=
        buffer'[k] + ToWrite("timer", k)' + ToWrite("report", k)' + InTable(k)' + ReadOf(k)'
  BY <1>1, <1>2
<1>. QED BY <1>3 DEF Found

LEMMA RecordStep ==
  ASSUME StatsInv, Record
  PROVE  StatsInv'
<1>1. PICK some \in SUBSET What \ {{}} :
        LET one == [k \in What |-> IF k \in some THEN 1 ELSE 0] IN
        /\ buffer' = Plus(buffer, one)
        /\ tallied' = Plus(tallied, one)
  BY DEF Record
<1>2. UNCHANGED <<flush, daily, day, report, reported, unshown>>
  BY DEF Record
<1>. DEFINE one == [k \in What |-> IF k \in some THEN 1 ELSE 0]
<1>3. one \in Tallies /\ buffer' = Plus(buffer, one) /\ tallied' = Plus(tallied, one)
  BY <1>1 DEF Tallies
<1>. HIDE DEF one
<1>4. StatsTypes'
  BY <1>2, <1>3, TalliesTyped DEF StatsInv, StatsTypes
<1>5. ASSUME NEW k \in What PROVE (tallied[k] + Sent(k) <= Found(k))'
  <2>1. buffer'[k] = buffer[k] + one[k] /\ tallied'[k] = tallied[k] + one[k] /\ one[k] \in Nat
    BY <1>3, TalliesTyped DEF StatsInv, StatsTypes
  <2>2. /\ InTable(k)' = InTable(k) + 0 /\ ReadOf(k)' = ReadOf(k) + 0 /\ Sent(k)' = Sent(k) + 0
        /\ Left(flush'["timer"], k) = Left(flush["timer"], k) + 0
        /\ Left(flush'["report"], k) = Left(flush["report"], k) + 0
    <3>1. InTable(k)' = InTable(k) /\ Sent(k)' = Sent(k) /\ flush' = flush
      BY <1>2, TableStays DEF Sent
    <3>4. ReadOf(k)' = ReadOf(k)
      BY <1>2 DEF ReadOf
    <3>2. /\ InTable(k) \in Nat /\ ReadOf(k) \in Nat /\ Sent(k) \in Nat
          /\ Left(flush["timer"], k) \in Nat /\ Left(flush["report"], k) \in Nat
      BY FoundTyped, WrittenIsLeft DEF Tasks
    <3>. QED BY <3>1, <3>2, <3>4
  <2>. QED BY <1>4, <2>1, <2>2, FoundStill
<1>. QED BY <1>2, <1>4, <1>5 DEF StatsInv

LEMMA StatsNumbers ==
  ASSUME StatsInv, NEW k \in What
  PROVE  /\ buffer[k] \in Nat /\ tallied[k] \in Nat /\ ReadOf(k) \in Nat /\ InTable(k) \in Nat
         /\ Sent(k) \in Nat /\ \A t \in Tasks : Left(flush[t], k) \in Nat
  BY FoundTyped, WrittenIsLeft

\* What one flush does.
LEMMA FoundFlush ==
  ASSUME StatsInv, StatsTypes', NEW k \in What, NEW t \in Tasks,
         UNCHANGED <<tallied, reported, unshown>>, Sent(k)' = Sent(k),
         \A u \in Tasks \ {t} : flush'[u] = flush[u],
         NEW b \in Int, buffer'[k] = buffer[k] + b,
         NEW i \in Int, InTable(k)' = InTable(k) + i,
         NEW z \in Int, Left(flush'[t], k) = Left(flush[t], k) + z,
         0 <= b + i + z
  PROVE  (tallied[k] + Sent(k) <= Found(k))'
<1>. DEFINE x == IF t = "timer" THEN z ELSE 0
            y == IF t = "report" THEN z ELSE 0
<1>1. x \in Int /\ y \in Int /\ x + y = z
  BY DEF Tasks
<1>2. /\ Left(flush'["timer"], k) = Left(flush["timer"], k) + x
      /\ Left(flush'["report"], k) = Left(flush["report"], k) + y
  BY StatsNumbers DEF Tasks
<1>3. tallied'[k] = tallied[k] + 0 /\ ReadOf(k)' = ReadOf(k) + 0 /\ Sent(k)' = Sent(k) + 0
  <2>1. ReadOf(k)' = ReadOf(k)
    BY DEF ReadOf
  <2>. QED BY <2>1, StatsNumbers
<1>4. 0 + 0 <= b + x + y + i + 0
  BY <1>1
<1>. HIDE DEF x, y
<1>. QED BY ONLY StatsInv, StatsTypes', k \in What, b \in Int, buffer'[k] = buffer[k] + b,
            i \in Int, InTable(k)' = InTable(k) + i, <1>1, <1>2, <1>3, <1>4, FoundStill

\* The buffer is taken by a task whose last flush has ended.
LEMMA TakeFound ==
  ASSUME StatsInv, StatsTypes', NEW k \in What, NEW t \in Tasks, flush[t] = NoFlush, Take(t),
         UNCHANGED <<daily, tallied, reported, unshown>>, Sent(k)' = Sent(k)
  PROVE  (tallied[k] + Sent(k) <= Found(k))'
<1>. DEFINE f == [took |-> buffer, next |-> 1]
<1>1. /\ buffer' = Nothing /\ flush' = [flush EXCEPT ![t] = f]
      /\ f \in Flush /\ f.next = 1 /\ f.took = buffer
  BY DEF Take, StatsInv, StatsTypes, Flush
<1>. HIDE DEF f
<1>2. flush'[t] = f /\ \A u \in Tasks \ {t} : flush'[u] = flush[u]
  BY <1>1 DEF StatsInv, StatsTypes
<1>3. Left(flush'[t], k) = buffer[k]
  BY <1>1, <1>2, LeftOf
<1>4. Left(flush[t], k) = 0
  <2>1. NoFlush \in Flush /\ NoFlush.took = Nothing
    BY FlushTyped DEF StatsInv
  <2>. QED BY <2>1, LeftOf
<1>5. buffer[k] \in Nat /\ InTable(k)' = InTable(k) + 0 /\ buffer'[k] = buffer[k] + (-buffer[k])
  <2>1. InTable(k)' = InTable(k) /\ InTable(k) \in Nat /\ buffer[k] \in Nat /\ Nothing[k] = 0
    BY StatsNumbers, TableStays, TalliesTyped
  <2>. QED BY <1>1, <2>1
<1>6. -buffer[k] \in Int /\ Left(flush'[t], k) = Left(flush[t], k) + buffer[k]
      /\ 0 <= -buffer[k] + 0 + buffer[k] /\ buffer[k] \in Int
  BY <1>3, <1>4, <1>5
<1>. QED BY <1>2, <1>5, <1>6, FoundFlush

LEMMA TakeTyped ==
  ASSUME StatsTypes, NEW t \in Tasks, Take(t)
  PROVE  buffer' \in Tallies /\ flush' \in [Tasks -> [took : Tallies, next : Nat]]
         /\ \A u \in Tasks \ {t} : flush'[u] = flush[u]
<1>. DEFINE f == [took |-> buffer, next |-> 1]
<1>1. f \in [took : Tallies, next : Nat] /\ flush' = [flush EXCEPT ![t] = f] /\ buffer' = Nothing
  BY DEF StatsTypes, Take
<1>. HIDE DEF f
<1>. QED BY <1>1, TalliesTyped DEF StatsTypes

LEMMA TimerFlushStep ==
  ASSUME StatsInv, TimerFlush
  PROVE  StatsInv'
<1>1. /\ flush["timer"] = NoFlush /\ Take("timer") /\ "timer" \in Tasks /\ "report" \in Tasks
      /\ UNCHANGED <<daily, day, report, tallied, reported, unshown>>
  BY DEF TimerFlush, Tasks
<1>2. StatsTypes' /\ flush'["report"] = flush["report"]
  BY <1>1, TakeTyped DEF StatsInv, StatsTypes
<1>3. ASSUME NEW k \in What PROVE (tallied[k] + Sent(k) <= Found(k))'
  <2>1. Sent(k)' = Sent(k)
    BY <1>1 DEF Sent
  <2>. QED BY <1>1, <1>2, <2>1, TakeFound
<1>. QED BY <1>1, <1>2, <1>3 DEF StatsInv

LEMMA ReportDueStep ==
  ASSUME StatsInv, ReportDue
  PROVE  StatsInv'
<1>1. /\ report.step = "waiting" /\ report.of < day /\ report' = [step |-> "flushing", of |-> day]
      /\ Take("report") /\ "report" \in Tasks
      /\ UNCHANGED <<daily, day, tallied, reported, unshown>>
  BY DEF ReportDue, Tasks, StatsInv, StatsTypes
<1>2. flush["report"] = NoFlush
  BY <1>1 DEF StatsInv
<1>3. day \in 0..MaxMidnights /\ day >= 1 /\ day <= day
  BY <1>1, CoreStatsAssumption DEF StatsInv, StatsTypes
<1>4. StatsTypes'
  BY <1>1, <1>3, TakeTyped DEF StatsInv, StatsTypes
<1>5. ASSUME NEW k \in What PROVE (tallied[k] + Sent(k) <= Found(k))'
  <2>1. Sent(k)' = Sent(k)
    BY <1>1 DEF Sent
  <2>. QED BY <1>1, <1>2, <1>4, <2>1, TakeFound
<1>. QED BY <1>1, <1>3, <1>4, <1>5 DEF StatsInv

LEMMA FlushWritesStep ==
  ASSUME StatsInv, NEW t \in Tasks, FlushWrites(t)
  PROVE  StatsInv'
<1>. DEFINE x == flush[t]
            h == Keys[x.next]
            row == daily[day]
            new == [row EXCEPT ![h] = row[h] + x.took[h]]
            y == [x EXCEPT !.next = x.next + 1]
<1>1. /\ x.next \in DOMAIN Keys /\ x \in Flush /\ x.took \in Tallies /\ x.next \in Nat
      /\ day \in 0..MaxMidnights /\ row \in Tallies /\ h \in What
      /\ daily' = [daily EXCEPT ![day] = new] /\ flush' = [flush EXCEPT ![t] = y]
      /\ UNCHANGED <<buffer, day, report, tallied, reported, unshown>>
  BY FlushTyped, KeysTyped DEF FlushWrites, StatsInv, StatsTypes
<1>2. /\ row[h] \in Nat /\ x.took[h] \in Nat /\ y \in Flush /\ y.took = x.took /\ y.next = x.next + 1
  BY <1>1, TalliesTyped DEF Flush
<1>3. new \in Tallies /\ new[h] = row[h] + x.took[h] /\ \A k \in What \ {h} : new[k] = row[k]
  <2>. HIDE DEF row, x, h
  <2>. QED BY <1>1, <1>2 DEF Tallies
<1>. HIDE DEF new, y, row, h
<1>4. daily' \in [0..MaxMidnights -> Tallies] /\ daily'[day] = new
      /\ \A d \in 0..MaxMidnights \ {day} : daily'[d] = daily[d]
  BY <1>1, <1>3 DEF StatsInv, StatsTypes
<1>5. flush' \in [Tasks -> [took : Tallies, next : Nat]] /\ flush'[t] = y
      /\ \A u \in Tasks \ {t} : flush'[u] = flush[u]
  BY <1>1, <1>2 DEF StatsInv, StatsTypes, Flush
<1>6. StatsTypes'
  BY <1>1, <1>4, <1>5 DEF StatsInv, StatsTypes
<1>7. report.step # "flushing" => flush'["report"] = NoFlush
  <2>1. flush["report"] = NoFlush => t # "report"
    BY <1>1, FlushTyped, KeysTyped DEF StatsInv
  <2>. QED BY <1>5, <2>1 DEF StatsInv, Tasks
<1>8. ASSUME NEW k \in What PROVE (tallied[k] + Sent(k) <= Found(k))'
  <2>1. Sent(k)' = Sent(k)
    <3>1. report.step = "sent" => report.of - 1 \in 0..MaxMidnights /\ report.of - 1 # day
      BY <1>1, CoreStatsAssumption DEF StatsInv, StatsTypes
    <3>. QED BY <1>1, <1>4, <3>1 DEF Sent
  <2>2. Left(x, k) \in Nat /\ Left(y, k) \in Nat /\ x.took[k] \in Nat
    BY <1>1, <1>2, LeftOf
  <2>. DEFINE z == Left(y, k) - Left(x, k)
  <2>3. z \in Int /\ Left(flush'[t], k) = Left(flush[t], k) + z
    BY <1>5, <2>2
  <2>4. buffer'[k] = buffer[k] + 0
    BY <1>1, StatsNumbers
  <2>5. daily[day][k] \in Nat /\ new[k] \in Nat /\ InTable(k) \in Nat
    BY <1>1, <1>3, InTableTyped, TalliesTyped DEF StatsInv, row
  <2>6. InTable(k)' = InTable(k) + (new[k] - daily[day][k])
    <3>1. \A e \in 0..MaxMidnights \ {day} : daily'[e][k] = daily[e][k]
      BY <1>4
    <3>2. daily'[day][k] = new[k] /\ StatsTypes /\ day \in 0..MaxMidnights
      BY <1>1, <1>4 DEF StatsInv
    <3>3. InTable(k)' = InTable(k) + (daily'[day][k] - daily[day][k])
      <4>1. daily'[day][k] \in Nat
        BY <2>5, <3>2
      <4>. QED BY ONLY k \in What, <3>1, <3>2, <4>1, TableChanges
    <3>. QED BY <3>2, <3>3
  <2>7. 0 <= 0 + (new[k] - daily[day][k]) + z
    <3>1. CASE k = h
      <4>1. new[k] = daily[day][k] + x.took[k]
        BY <1>3, <3>1 DEF row
      <4>2. Left(x, k) <= Left(y, k) + x.took[k]
        BY <1>1, <1>2, LeftAfter
      <4>. QED BY <2>2, <2>5, <4>1, <4>2
    <3>2. CASE k # h
      <4>1. new[k] = daily[day][k]
        BY <1>3, <3>2 DEF row
      <4>2. Left(y, k) = Left(x, k)
        BY <1>1, <1>2, <3>2, LeftAfter DEF h
      <4>. QED BY <2>2, <2>5, <4>1, <4>2
    <3>. QED BY <3>1, <3>2
  <2>. DEFINE i == new[k] - daily[day][k]
  <2>8. i \in Int /\ InTable(k)' = InTable(k) + i /\ 0 <= 0 + i + z /\ 0 \in Int
    BY <2>5, <2>6, <2>7
  <2>. HIDE DEF z, i
  <2>9. UNCHANGED <<tallied, reported, unshown>> /\ \A u \in Tasks \ {t} : flush'[u] = flush[u]
    BY <1>1, <1>5
  <2>. QED BY <1>6, <2>1, <2>3, <2>4, <2>8, <2>9, FoundFlush
<1>. QED BY <1>1, <1>6, <1>7, <1>8 DEF StatsInv

LEMMA FlushedStep ==
  ASSUME StatsInv, NEW t \in Tasks, flush[t] # NoFlush, Flushed(t), buffer' \in Tallies,
         UNCHANGED <<daily, day, tallied, reported, unshown>>,
         \A k \in What : buffer[k] + Left(flush[t], k) <= buffer'[k]
  PROVE  StatsInv'
<1>1. StatsTypes /\ NoFlush \in Flush /\ NoFlush.took = Nothing
  <2>1. StatsTypes
    BY DEF StatsInv
  <2>. QED BY <2>1, FlushTyped
<1>2. flush' \in [Tasks -> [took : Tallies, next : Nat]] /\ flush'[t] = NoFlush
      /\ \A u \in Tasks \ {t} : flush'[u] = flush[u]
  <2>1. flush' = [flush EXCEPT ![t] = NoFlush] /\ flush \in [Tasks -> Flush]
    BY <1>1 DEF Flushed, StatsTypes, Flush
  <2>2. flush' \in [Tasks -> Flush] /\ flush'[t] = NoFlush /\ \A u \in Tasks \ {t} : flush'[u] = flush[u]
    BY <1>1, <2>1
  <2>. QED BY <2>2 DEF Flush
<1>3. t = "report" => report.step = "flushing" /\ report' = [report EXCEPT !.step = "reading"]
  BY DEF StatsInv, Flushed
<1>4. t # "report" => report' = report
  BY DEF Flushed
<1>5. /\ report' \in [step : {"waiting", "flushing", "reading", "sent", "dead"}, of : 0..MaxMidnights]
      /\ report'.of = report.of
      /\ report'.step = "sent" <=> report.step = "sent"
      /\ report'.step # "waiting" => report.of >= 1
  <2>1. CASE t = "report"
    BY <1>1, <1>3, <2>1 DEF StatsInv, StatsTypes
  <2>2. CASE t # "report"
    BY <1>1, <1>4, <2>2 DEF StatsInv, StatsTypes
  <2>. QED BY <2>1, <2>2
<1>6. StatsTypes'
  BY <1>1, <1>2, <1>5 DEF StatsTypes
<1>7. report'.step # "flushing" => flush'["report"] = NoFlush
  BY <1>2, <1>4 DEF StatsInv, Tasks
<1>8. ASSUME NEW k \in What PROVE (tallied[k] + Sent(k) <= Found(k))'
  <2>. DEFINE b == buffer'[k] - buffer[k]
              z == -Left(flush[t], k)
  <2>1. buffer[k] \in Nat /\ buffer'[k] \in Nat /\ Left(flush[t], k) \in Nat /\ InTable(k) \in Nat
    BY StatsNumbers, TalliesTyped
  <2>2. Sent(k)' = Sent(k)
    BY <1>5 DEF Sent
  <2>3. Left(flush'[t], k) = 0
    BY <1>1, <1>2, LeftOf
  <2>4. /\ b \in Int /\ buffer'[k] = buffer[k] + b
        /\ z \in Int /\ Left(flush'[t], k) = Left(flush[t], k) + z
        /\ 0 <= b + 0 + z
    BY <2>1, <2>3
  <2>5. 0 \in Int /\ InTable(k)' = InTable(k) + 0
    BY <2>1, TableStays
  <2>. HIDE DEF b, z
  <2>. QED BY <1>2, <1>6, <2>2, <2>4, <2>5, FoundFlush
<1>. QED BY <1>5, <1>6, <1>7, <1>8 DEF StatsInv

LEMMA FlushOverStep ==
  ASSUME StatsInv, NEW t \in Tasks, FlushEnds(t) \/ FlushFails(t)
  PROVE  StatsInv'
<1>1. flush[t] \in Flush /\ NoFlush.next = 0 /\ StatsTypes /\ buffer \in Tallies
  BY FlushTyped DEF StatsInv, StatsTypes
<1>2. flush[t].next # 0
  BY KeysTyped DEF FlushEnds, FlushFails
<1>3. Flushed(t) /\ UNCHANGED <<daily, day, tallied, reported, unshown>>
  BY DEF FlushEnds, FlushFails
<1>4. buffer' \in Tallies /\ \A k \in What : buffer[k] + Left(flush[t], k) <= buffer'[k]
  <2>1. \A k \in What : buffer[k] \in Nat /\ Left(flush[t], k) \in Nat /\ Left(flush[t], k) <= flush[t].took[k]
                        /\ flush[t].took[k] \in Nat
    BY <1>1, LeftOf, TalliesTyped
  <2>2. CASE FlushEnds(t)
    <3>1. buffer' = buffer /\ \A k \in What : Left(flush[t], k) = 0
      BY <1>1, <2>2, LeftOf DEF FlushEnds
    <3>. QED BY <1>1, <2>1, <3>1
  <2>3. CASE FlushFails(t)
    <3>1. buffer' = Plus(buffer, flush[t].took) /\ flush[t].took \in Tallies
      BY <2>3, FlushTyped DEF FlushFails, StatsInv
    <3>2. buffer' \in Tallies /\ \A k \in What : buffer'[k] = buffer[k] + flush[t].took[k]
      BY <1>1, <3>1, TalliesTyped
    <3>. QED BY <2>1, <3>2
  <2>. QED BY <2>2, <2>3
<1>. QED BY <1>1, <1>2, <1>3, <1>4, FlushedStep

\* The steps of the report, of which only the table, what is sent and where
\* the report stands change.
LEMMA ReportMoves ==
  ASSUME StatsInv, StatsTypes', NEW k \in What, UNCHANGED <<buffer, flush, tallied>>,
         NEW r \in Int, ReadOf(k)' = ReadOf(k) + r,
         NEW i \in Int, InTable(k)' = InTable(k) + i,
         NEW s \in Int, Sent(k)' = Sent(k) + s,
         s <= i + r
  PROVE  (tallied[k] + Sent(k) <= Found(k))'
<1>1. /\ buffer'[k] = buffer[k] + 0 /\ tallied'[k] = tallied[k] + 0
      /\ Left(flush'["timer"], k) = Left(flush["timer"], k) + 0
      /\ Left(flush'["report"], k) = Left(flush["report"], k) + 0
  BY StatsNumbers DEF Tasks
<1>2. 0 \in Int /\ 0 + s <= 0 + 0 + 0 + i + r
  OBVIOUS
<1>. QED BY <1>1, <1>2, FoundStill

\* What a report shows of the rows it reads, and what it does not.
LEMMA ShownOrNot ==
  ASSUME NEW row \in Tallies, reported \in Tallies, unshown \in Tallies, NEW some,
         reported' = Plus(reported, Only(row, some)), unshown' = Plus(unshown, Only(row, What \ some))
  PROVE  /\ reported' \in Tallies /\ unshown' \in Tallies
         /\ \A k \in What : ReadOf(k)' = ReadOf(k) + row[k]
<1>. DEFINE a == Only(row, some)
            b == Only(row, What \ some)
<1>1. \A k \in What : row[k] \in Nat /\ reported[k] \in Nat /\ unshown[k] \in Nat
  BY TalliesTyped
<1>2. a \in Tallies /\ b \in Tallies /\ \A k \in What : a[k] + b[k] = row[k]
  BY <1>1 DEF Only, Tallies
<1>5. reported' = Plus(reported, a) /\ unshown' = Plus(unshown, b)
  OBVIOUS
<1>. HIDE DEF a, b
<1>3. /\ reported' \in Tallies /\ \A k \in What : reported'[k] = reported[k] + a[k]
      /\ unshown' \in Tallies /\ \A k \in What : unshown'[k] = unshown[k] + b[k]
  <2>1. a \in Tallies /\ b \in Tallies /\ reported \in Tallies /\ unshown \in Tallies
    BY <1>2
  <2>2. reported' \in Tallies /\ \A k \in What : reported'[k] = reported[k] + a[k]
    BY ONLY <1>5, <2>1, TalliesTyped
  <2>3. unshown' \in Tallies /\ \A k \in What : unshown'[k] = unshown[k] + b[k]
    BY ONLY <1>5, <2>1, TalliesTyped
  <2>. QED BY <2>2, <2>3
<1>4. ASSUME NEW k \in What PROVE ReadOf(k)' = ReadOf(k) + row[k]
  <2>1. a[k] \in Nat /\ b[k] \in Nat /\ row[k] = a[k] + b[k]
    BY <1>2, TalliesTyped
  <2>2. ReadOf(k)' = reported'[k] + unshown'[k] /\ ReadOf(k) = reported[k] + unshown[k]
    BY DEF ReadOf
  <2>3. reported'[k] = reported[k] + a[k] /\ unshown'[k] = unshown[k] + b[k]
    BY <1>3
  <2>. QED BY <1>1, <2>1, <2>2, <2>3
<1>. QED BY <1>3, <1>4

LEMMA ReportSendsStep ==
  ASSUME StatsInv, ReportSends
  PROVE  StatsInv'
<1>. DEFINE d == report.of - 1
<1>1. /\ report.step = "reading" /\ report' = [report EXCEPT !.step = "sent"]
      /\ UNCHANGED <<buffer, flush, daily, day, tallied>>
  BY DEF ReportSends
<1>8. PICK some \in Tops(daily[d]) \cup {{}} :
        /\ reported' = Plus(reported, Only(daily[d], some))
        /\ unshown' = Plus(unshown, Only(daily[d], What \ some))
  BY DEF ReportSends
<1>. HIDE DEF d
<1>2. StatsTypes /\ report.of <= day /\ report.of >= 1 /\ flush["report"] = NoFlush
  BY <1>1 DEF StatsInv
<1>3. d \in 0..MaxMidnights /\ daily[d] \in Tallies /\ reported \in Tallies /\ unshown \in Tallies
  BY <1>2, CoreStatsAssumption DEF StatsTypes, d
<1>4. report' \in [step : {"waiting", "flushing", "reading", "sent", "dead"}, of : 0..MaxMidnights]
      /\ report'.step = "sent" /\ report'.of = report.of
  BY <1>1, <1>2 DEF StatsTypes
<1>5. reported' \in Tallies /\ unshown' \in Tallies /\ \A k \in What : ReadOf(k)' = ReadOf(k) + daily[d][k]
  BY <1>3, <1>8, ShownOrNot
<1>6. StatsTypes'
  BY <1>1, <1>2, <1>4, <1>5 DEF StatsTypes
<1>7. ASSUME NEW k \in What PROVE (tallied[k] + Sent(k) <= Found(k))'
  <2>1. daily[d][k] \in Int /\ InTable(k)' = InTable(k) + 0 /\ 0 \in Int
    BY <1>1, <1>3, TalliesTyped, TableStays, StatsNumbers
  <2>2. Sent(k)' = Sent(k) + daily[d][k]
    BY <1>1, <1>4, <2>1 DEF Sent, d
  <2>3. ReadOf(k)' = ReadOf(k) + daily[d][k] /\ daily[d][k] <= 0 + daily[d][k]
    BY <1>5, <2>1
  <2>. DEFINE r == daily[d][k]
  <2>. HIDE DEF r
  <2>4. r \in Int /\ ReadOf(k)' = ReadOf(k) + r /\ Sent(k)' = Sent(k) + r /\ r <= 0 + r
    BY <2>1, <2>2, <2>3 DEF r
  <2>. QED BY <1>1, <1>6, <2>1, <2>4, ReportMoves
<1>. QED BY <1>1, <1>2, <1>4, <1>6, <1>7 DEF StatsInv

LEMMA ReportClearsStep ==
  ASSUME StatsInv, ReportClears
  PROVE  StatsInv'
<1>. DEFINE d == report.of - 1
<1>1. /\ report.step = "sent" /\ report' = [report EXCEPT !.step = "waiting"]
      /\ daily' = [daily EXCEPT ![d] = Nothing]
      /\ UNCHANGED <<buffer, flush, day, tallied, reported, unshown>>
  BY DEF ReportClears
<1>2. StatsTypes /\ report.of <= day /\ report.of >= 1 /\ flush["report"] = NoFlush
  BY <1>1 DEF StatsInv
<1>3. d \in 0..MaxMidnights /\ daily[d] \in Tallies
  BY <1>2, CoreStatsAssumption DEF StatsTypes
<1>4. report' \in [step : {"waiting", "flushing", "reading", "sent", "dead"}, of : 0..MaxMidnights]
      /\ report'.step = "waiting" /\ report'.of = report.of
  BY <1>1, <1>2 DEF StatsTypes
<1>5. /\ daily' \in [0..MaxMidnights -> Tallies] /\ daily'[d] = Nothing
      /\ \A e \in 0..MaxMidnights \ {d} : daily'[e] = daily[e]
  <2>. HIDE DEF d
  <2>. QED BY <1>1, <1>2, <1>3, TalliesTyped DEF StatsTypes
<1>6. StatsTypes'
  BY <1>1, <1>2, <1>4, <1>5 DEF StatsTypes
<1>7. ASSUME NEW k \in What PROVE (tallied[k] + Sent(k) <= Found(k))'
  <2>1. daily[d][k] \in Nat /\ daily'[d][k] = 0 /\ 0 \in Nat /\ InTable(k) \in Nat /\ ReadOf(k) \in Nat
    BY <1>3, <1>5, TalliesTyped, StatsNumbers
  <2>2. InTable(k)' = InTable(k) + (daily'[d][k] - daily[d][k])
    <3>1. daily'[d][k] \in Nat /\ \A e \in 0..MaxMidnights \ {d} : daily'[e][k] = daily[e][k]
      BY <1>5, <2>1
    <3>. HIDE DEF d
    <3>. QED BY <1>2, <1>3, <3>1, TableChanges
  <2>3. Sent(k) = daily[d][k] /\ Sent(k)' = 0
    BY <1>1, <1>4 DEF Sent
  <2>. DEFINE i == -daily[d][k]
  <2>5. ReadOf(k)' = ReadOf(k)
    BY <1>1 DEF ReadOf
  <2>4. /\ i \in Int /\ InTable(k)' = InTable(k) + i /\ Sent(k)' = Sent(k) + i /\ i <= i + 0
        /\ ReadOf(k)' = ReadOf(k) + 0 /\ 0 \in Int
    BY <1>1, <2>1, <2>2, <2>3, <2>5
  <2>. HIDE DEF i
  <2>. QED BY <1>1, <1>6, <2>4, ReportMoves
<1>. QED BY <1>1, <1>2, <1>4, <1>6, <1>7 DEF StatsInv

LEMMA ReportFailsStep ==
  ASSUME StatsInv, ReportFails
  PROVE  StatsInv'
<1>1. /\ report.step \in {"reading", "sent"} /\ report' = [report EXCEPT !.step = "dead"]
      /\ UNCHANGED <<buffer, flush, daily, day, tallied, reported, unshown>>
  BY DEF ReportFails
<1>2. StatsTypes /\ report.of <= day /\ report.of >= 1 /\ flush["report"] = NoFlush
  BY <1>1 DEF StatsInv
<1>3. report' \in [step : {"waiting", "flushing", "reading", "sent", "dead"}, of : 0..MaxMidnights]
      /\ report'.step = "dead" /\ report'.of = report.of
  BY <1>1, <1>2 DEF StatsTypes
<1>4. StatsTypes'
  BY <1>1, <1>2, <1>3 DEF StatsTypes
<1>5. ASSUME NEW k \in What PROVE (tallied[k] + Sent(k) <= Found(k))'
  <2>1. Sent(k) \in Nat /\ Sent(k)' = 0 /\ InTable(k) \in Nat /\ ReadOf(k) \in Nat
    BY <1>3, StatsNumbers DEF Sent
  <2>. DEFINE s == -Sent(k)
  <2>3. ReadOf(k)' = ReadOf(k)
    BY <1>1 DEF ReadOf
  <2>2. s \in Int /\ Sent(k)' = Sent(k) + s /\ s <= 0 + 0 /\ 0 \in Int
        /\ InTable(k)' = InTable(k) + 0 /\ ReadOf(k)' = ReadOf(k) + 0
    BY <1>1, <2>1, <2>3, TableStays
  <2>. HIDE DEF s
  <2>. QED BY <1>1, <1>4, <2>2, ReportMoves
<1>. QED BY <1>1, <1>2, <1>3, <1>4, <1>5 DEF StatsInv

LEMMA DayEndsStep ==
  ASSUME StatsInv, DayEnds
  PROVE  StatsInv'
<1>1. day < MaxMidnights /\ day' = day + 1 /\ UNCHANGED <<buffer, flush, daily, report, tallied, reported, unshown>>
  BY DEF DayEnds
<1>2. StatsTypes /\ day \in 0..MaxMidnights /\ report.of \in 0..MaxMidnights /\ report.of <= day
  BY DEF StatsInv, StatsTypes
<1>3. day' \in 0..MaxMidnights /\ report.of <= day'
  BY <1>1, <1>2, CoreStatsAssumption
<1>4. StatsTypes'
  BY <1>1, <1>2, <1>3 DEF StatsTypes
<1>5. \A k \in What : (tallied[k] + Sent(k) <= Found(k))'
  BY <1>1 DEF StatsInv, Found, ReadOf, Sent, InTable, ToWrite
<1>. QED BY <1>1, <1>3, <1>4, <1>5 DEF StatsInv

LEMMA QuietStatsStep ==
  ASSUME StatsInv, UNCHANGED statVars
  PROVE  StatsInv'
<1>1. UNCHANGED <<buffer, flush, daily, day, report, tallied, reported, unshown>>
  BY DEF statVars
<1>2. StatsTypes'
  BY <1>1 DEF StatsInv, StatsTypes
<1>3. \A k \in What : (tallied[k] + Sent(k) <= Found(k))'
  BY <1>1 DEF StatsInv, Found, ReadOf, Sent, InTable, ToWrite
<1>. QED BY <1>1, <1>2, <1>3 DEF StatsInv

LEMMA TallyStep ==
  ASSUME StatsInv, StatsNext
  PROVE  StatsInv'
<1>1. CASE Tally
  BY <1>1, RecordStep, DayEndsStep, TimerFlushStep, FlushWritesStep, FlushOverStep, ReportDueStep,
     ReportSendsStep, ReportClearsStep, ReportFailsStep DEF Tally
<1>2. CASE LookUp
  <2>1. UNCHANGED statVars
    BY <1>2 DEF LookUp, ApiAsk, ApiAnswer, CacheExpires, LimitElapses, LiftLimit, TakePool,
         RoundAsks, RoundAnswer, RoundSkips
  <2>. QED BY <2>1, QuietStatsStep
<1>. QED BY <1>1, <1>2 DEF StatsNext

LEMMA StatsInitially ==
  StatsInit => StatsInv
<1>. SUFFICES ASSUME StatsInit PROVE StatsInv
  OBVIOUS
<1>1. /\ buffer = Nothing /\ tallied = Nothing /\ reported = Nothing /\ unshown = Nothing
      /\ flush = [t \in Tasks |-> NoFlush] /\ daily = [d \in 0..MaxMidnights |-> Nothing]
      /\ day = 0 /\ report = [step |-> "waiting", of |-> 0]
  BY DEF StatsInit
<1>2. NoFlush \in [took : Tallies, next : Nat] /\ NoFlush.took = Nothing /\ 0 \in 0..MaxMidnights
  BY TalliesTyped, CoreStatsAssumption DEF NoFlush
<1>3. StatsTypes
  BY <1>1, <1>2, TalliesTyped DEF StatsTypes
<1>4. ASSUME NEW k \in What PROVE tallied[k] + Sent(k) <= Found(k)
  <2>1. tallied[k] = 0 /\ buffer[k] = 0 /\ ReadOf(k) = 0 /\ Sent(k) = 0
    BY <1>1, TalliesTyped DEF Sent, ReadOf
  <2>2. InTable(k) \in Nat /\ ToWrite("timer", k) \in Nat /\ ToWrite("report", k) \in Nat
    BY <1>3, InTableTyped, FlushTyped, LeftOf, WrittenIsLeft DEF Tasks
  <2>. QED BY <2>1, <2>2 DEF Found
<1>5. flush["report"] = NoFlush
  BY <1>1 DEF Tasks
<1>. QED BY <1>1, <1>3, <1>4, <1>5 DEF StatsInv

LEMMA StatsKept == StatsInv => CountsReachAReport
<1>. SUFFICES ASSUME StatsInv, NEW k \in What PROVE tallied[k] <= Found(k)
  BY DEF CountsReachAReport, Found, ReadOf
<1>1. /\ buffer[k] \in Nat /\ tallied[k] \in Nat /\ ReadOf(k) \in Nat /\ InTable(k) \in Nat
      /\ ToWrite("timer", k) \in Nat /\ ToWrite("report", k) \in Nat /\ Sent(k) \in Nat
      /\ tallied[k] + Sent(k) <= Found(k)
  BY FoundTyped DEF Tasks
<1>. QED BY <1>1 DEF Found

-----------------------------------------------------------------------------
(* CoreStats: ip-api.com *)

LEMMA PoolTaken ==
  ASSUME NEW S, IsFiniteSet(S), NEW q \in SetToSeqs(S)
  PROVE  q \in Seq(S) /\ Range(q) = S
<1>. DEFINE n == Cardinality(S)
            D == 1..n
<1>1. n \in Nat /\ IsFiniteSet(D) /\ Cardinality(D) = n
  <2>1. n \in Nat
    BY FS_CardinalityType
  <2>. QED BY <2>1, FS_Interval
<1>2. q \in [D -> S] /\ \A i, j \in D : i # j => q[i] # q[j]
  BY DEF SetToSeqs
<1>3. q \in Injection(D, S)
  BY <1>2 DEF Injection, IsInjective
<1>4. q \in Surjection(D, S)
  <2>. HIDE DEF D
  <2>1. Cardinality(D) = Cardinality(S)
    BY <1>1 DEF n
  <2>. QED BY <1>3, <2>1, FS_Injection
<1>5. Range(q) = S
  BY <1>2, <1>4 DEF Surjection, Range
<1>6. q \in Seq(S)
  BY <1>1, <1>2
<1>. QED BY <1>5, <1>6

LEMMA UnaskedFinite ==
  ASSUME NEW S, NEW q \in Seq(S)
  PROVE  IsFiniteSet(Range(q)) /\ Range(q) \subseteq S
<1>. DEFINE D == 1..Len(q)
<1>1. q \in [D -> S] /\ IsFiniteSet(D) /\ DOMAIN q = D
  BY FS_Interval
<1>2. q \in Surjection(D, Range(q))
  BY <1>1 DEF Surjection, Range
<1>3. IsFiniteSet(Range(q))
  <2>. HIDE DEF D
  <2>. QED BY <1>1, <1>2, FS_Surjection
<1>. QED BY <1>1, <1>3 DEF Range

LEMMA RoundTail ==
  ASSUME NEW q \in Seq(ApiIps), q # <<>>
  PROVE  /\ Head(q) \in ApiIps /\ Tail(q) \in Seq(ApiIps)
         /\ Range(q) \subseteq {Head(q)} \cup Range(Tail(q))
<1>1. Len(q) \in Nat /\ Len(q) >= 1 /\ q \in [1..Len(q) -> ApiIps]
  OBVIOUS
<1>2. Head(q) = q[1] /\ Tail(q) \in Seq(ApiIps) /\ Len(Tail(q)) = Len(q) - 1
      /\ \A i \in 1..(Len(q) - 1) : Tail(q)[i] = q[i + 1]
  BY <1>1
<1>3. ASSUME NEW i \in 1..Len(q), i # 1 PROVE q[i] \in Range(Tail(q))
  <2>1. i - 1 \in 1..(Len(q) - 1) /\ Tail(q)[i - 1] = q[i] /\ DOMAIN Tail(q) = 1..(Len(q) - 1)
    BY <1>1, <1>2, <1>3
  <2>. QED BY <2>1 DEF Range
<1>4. Range(q) \subseteq {q[1]} \cup Range(Tail(q))
  BY <1>1, <1>3 DEF Range
<1>. QED BY <1>1, <1>2, <1>4

\* Nothing is in a round that has not begun.
LEMMA NoRoundIsEmpty ==
  ASSUME round = NoRound
  PROVE  Unasked = {}
<1>1. round.left = <<>>
  BY DEF NoRound
<1>. QED BY <1>1 DEF Unasked, Range

\* A round that goes on or stops keeps what it has still to ask about.
LEMMA RoundStopsKeeps ==
  ASSUME PoolInv, round.left # <<>>, NEW stops, NEW more, RoundStops(stops, more),
         IsFiniteSet(more), more \subseteq ApiIps
  PROVE  /\ IsFiniteSet(pool') /\ pool' \subseteq ApiIps /\ more \subseteq pool'
         /\ round'.left \in Seq(ApiIps) /\ round' = [left |-> round'.left, sent |-> round'.sent]
         /\ Unasked \subseteq {First} \cup (pool \cup Unasked)'
<1>1. IsFiniteSet(Unasked) /\ Unasked \subseteq ApiIps
  BY UnaskedFinite DEF PoolInv, Unasked
<1>2. First \in ApiIps /\ Tail(round.left) \in Seq(ApiIps)
      /\ Unasked \subseteq {First} \cup Range(Tail(round.left))
  BY RoundTail DEF PoolInv, Unasked, First
<1>3. CASE stops
  <2>1. pool' = more \cup Unasked /\ round' = NoRound
    BY <1>3 DEF RoundStops
  <2>2. round'.left = <<>> /\ round'.sent = FALSE /\ <<>> \in Seq(ApiIps)
    BY <2>1 DEF NoRound
  <2>3. IsFiniteSet(more \cup Unasked)
    BY <1>1, FS_Union
  <2>. QED BY <1>1, <2>1, <2>2, <2>3 DEF NoRound
<1>4. CASE ~stops
  <2>1. pool' = more /\ round' = [left |-> Tail(round.left), sent |-> FALSE]
    BY <1>4 DEF RoundStops
  <2>2. round'.left = Tail(round.left) /\ round'.sent = FALSE
    BY <2>1
  <2>3. Unasked' = Range(Tail(round.left))
    BY <2>2 DEF Unasked
  <2>. QED BY <1>2, <2>1, <2>2, <2>3
<1>. QED BY <1>3, <1>4

LEMMA ApiAskStep ==
  ASSUME PoolInv, NEW ip \in ApiIps, ApiAsk(ip) \/ ApiAnswer(ip) \/ CacheExpires(ip)
  PROVE  PoolInv'
<1>1. round' = round /\ Unasked' = Unasked
  BY DEF ApiAsk, ApiAnswer, CacheExpires, Unasked
<1>2. pool' = pool \/ pool' = pool \cup {ip}
  BY DEF ApiAsk, ApiAnswer, CacheExpires, Answered
<1>3. IsFiniteSet(pool') /\ pool' \subseteq ApiIps
  <2>1. IsFiniteSet(pool \cup {ip})
    BY FS_AddElement DEF PoolInv
  <2>. QED BY <1>2, <2>1 DEF PoolInv
<1>4. owed' \subseteq pool' \cup Unasked' \cup asking'
  BY <1>1 DEF PoolInv, RefusedAreAsked, ApiAsk, ApiAnswer, CacheExpires, Answered
<1>. QED BY <1>1, <1>3, <1>4 DEF PoolInv, RefusedAreAsked

LEMMA TakePoolStep ==
  ASSUME PoolInv, TakePool
  PROVE  PoolInv'
<1>1. PICK order \in SetToSeqs(pool) : round' = [left |-> order, sent |-> FALSE]
  BY DEF TakePool
<1>2. order \in Seq(pool) /\ Range(order) = pool
  BY <1>1, PoolTaken DEF PoolInv
<1>3. order \in Seq(ApiIps)
  BY <1>2 DEF PoolInv
<1>4. round'.left = order /\ round'.sent = FALSE /\ Unasked' = pool
  BY <1>1, <1>2 DEF Unasked
<1>5. pool' = {} /\ owed' = owed /\ asking' = asking /\ Unasked = {}
  BY NoRoundIsEmpty DEF TakePool
<1>6. IsFiniteSet(pool')
  BY <1>5, FS_EmptySet
<1>. QED BY <1>1, <1>3, <1>4, <1>5, <1>6 DEF PoolInv, RefusedAreAsked

LEMMA RoundAsksStep ==
  ASSUME PoolInv, RoundAsks
  PROVE  PoolInv'
<1>1. round' = [round EXCEPT !.sent = TRUE] /\ UNCHANGED <<pool, asking, owed>>
  BY DEF RoundAsks
<1>2. round' = [left |-> round.left, sent |-> TRUE]
  BY <1>1 DEF PoolInv
<1>3. round'.left = round.left /\ round'.sent = TRUE
  BY <1>2
<1>. QED BY <1>1, <1>2, <1>3 DEF PoolInv, RefusedAreAsked, Unasked

LEMMA RoundEndsStep ==
  ASSUME PoolInv, RoundAnswer \/ RoundSkips
  PROVE  PoolInv'
<1>1. round.left # <<>> /\ asking' = asking
  BY DEF RoundAnswer, RoundSkips
<1>2. First \in ApiIps
  BY <1>1, RoundTail DEF PoolInv, First
<1>3. PICK stops \in BOOLEAN, more \in {pool, pool \cup {First}} :
        /\ RoundStops(stops, more)
        /\ \/ owed' = owed \ {First}
           \/ more = pool \cup {First} /\ owed' \subseteq owed \cup {First}
  <2>1. CASE RoundAnswer
    <3>1. CASE owed' = owed \ {First} /\ RoundStops(limited, pool)
      <4>1. RoundStops(limited = TRUE, pool) \/ RoundStops(limited, pool)
        BY <3>1
      <4>2. \E b \in BOOLEAN : RoundStops(b, pool)
        <5>1. CASE limited
          BY <3>1, <5>1 DEF RoundStops
        <5>2. CASE ~limited
          BY <3>1, <5>2 DEF RoundStops
        <5>. QED BY <5>1, <5>2
      <4>. QED BY <3>1, <4>2
    <3>2. CASE owed' = owed \cup {First} /\ RoundStops(TRUE, pool \cup {First})
      BY <3>2
    <3>. QED BY <2>1, <3>1, <3>2 DEF RoundAnswer
  <2>2. CASE RoundSkips
    <3>1. CASE owed' = owed \ {First} /\ RoundStops(limited, pool)
      <4>2. \E b \in BOOLEAN : RoundStops(b, pool)
        <5>1. CASE limited
          BY <3>1, <5>1 DEF RoundStops
        <5>2. CASE ~limited
          BY <3>1, <5>2 DEF RoundStops
        <5>. QED BY <5>1, <5>2
      <4>. QED BY <3>1, <4>2
    <3>2. CASE owed' = owed /\ RoundStops(TRUE, pool \cup {First})
      BY <3>2
    <3>. QED BY <2>2, <3>1, <3>2 DEF RoundSkips
  <2>. QED BY <2>1, <2>2
<1>4. IsFiniteSet(more) /\ more \subseteq ApiIps
  <2>1. IsFiniteSet(pool \cup {First})
    BY FS_AddElement DEF PoolInv
  <2>. QED BY <1>2, <1>3, <2>1 DEF PoolInv
<1>5. /\ IsFiniteSet(pool') /\ pool' \subseteq ApiIps /\ more \subseteq pool'
      /\ round'.left \in Seq(ApiIps) /\ round' = [left |-> round'.left, sent |-> round'.sent]
      /\ Unasked \subseteq {First} \cup (pool \cup Unasked)'
  BY <1>1, <1>3, <1>4, RoundStopsKeeps
<1>6. RefusedAreAsked'
  BY <1>1, <1>3, <1>5 DEF PoolInv, RefusedAreAsked
<1>. QED BY <1>5, <1>6 DEF PoolInv

LEMMA LookUpStep ==
  ASSUME PoolInv, StatsNext
  PROVE  PoolInv'
<1>1. CASE Tally
  <2>1. UNCHANGED poolVars
    BY <1>1 DEF Tally, Record, DayEnds, TimerFlush, FlushWrites, FlushEnds, FlushFails, ReportDue,
       ReportSends, ReportClears, ReportFails
  <2>. QED BY <2>1 DEF poolVars, PoolInv, RefusedAreAsked, Unasked
<1>2. CASE LimitElapses \/ LiftLimit
  BY <1>2 DEF LimitElapses, LiftLimit, PoolInv, RefusedAreAsked, Unasked
<1>. QED BY <1>1, <1>2, ApiAskStep, TakePoolStep, RoundAsksStep, RoundEndsStep DEF StatsNext, LookUp

LEMMA PoolInitially == StatsInit => PoolInv
<1>. SUFFICES ASSUME StatsInit PROVE PoolInv
  OBVIOUS
<1>1. round.left = <<>> /\ round.sent = FALSE /\ round = NoRound /\ pool = {} /\ owed = {}
  BY DEF StatsInit, NoRound
<1>. QED BY <1>1, FS_EmptySet DEF PoolInv, RefusedAreAsked, NoRound

\* Every verdict counted is in the buffer, in a flush, in the table or in a row
\* a report has gone through, whether or not it showed it, and every address
\* refused for the rate limit is still to be asked about, whatever fails and in
\* whatever order the tasks run.
THEOREM NothingOverlooked == StatsSpec => []NothingIsOverlooked
<1>1. StatsInit => StatsInv /\ PoolInv
  BY StatsInitially, PoolInitially
<1>2. StatsInv /\ PoolInv /\ [StatsNext]_statsVars => (StatsInv /\ PoolInv)'
  <2>. SUFFICES ASSUME StatsInv, PoolInv, [StatsNext]_statsVars PROVE (StatsInv /\ PoolInv)'
    OBVIOUS
  <2>1. CASE StatsNext
    BY <2>1, TallyStep, LookUpStep
  <2>2. CASE UNCHANGED statsVars
    <3>1. UNCHANGED statVars /\ UNCHANGED poolVars
      BY <2>2 DEF statsVars
    <3>. QED BY <3>1, QuietStatsStep DEF poolVars, PoolInv, RefusedAreAsked, Unasked
  <2>. QED BY <2>1, <2>2
<1>3. StatsInv /\ PoolInv => NothingIsOverlooked
  BY StatsKept DEF PoolInv, NothingIsOverlooked
<1>. QED BY <1>1, <1>2, <1>3, PTL DEF StatsSpec

-----------------------------------------------------------------------------
(* UsageProfile: the inductive invariant *)

Observation == [device : DeviceEntry, node : STRING, provider : STRING,
          place : DOMAIN CountryOf, at : Int]

\* What holds in every state: the events are typed, and a burst that the row
\* of the case names is stored with its profile.
UsageInv ==
  /\ hour \in Nat
  /\ observed \in Seq(Observation)
  /\ panel \in Panels
  /\ case.opened \in Int
  /\ "traffic_burst" \in case.reasons => stored.burst # NoBurst

\* No event gives the reason that the panel gives.
LEMMA BurstIsNoEvent ==
  ASSUME NEW obs
  PROVE  "traffic_burst" \notin EventReasons(obs)
  BY DEF EventReasons

LEMMA UsageInvInit == UsageInit => UsageInv
  BY DEF UsageInit, UsageInv, NoCase

\* Building a profile again keeps the burst.
LEMMA RebuiltKeepsBurst ==
  ASSUME OpenCase
  PROVE  stored'.burst = stored.burst
<1>1. \A q : Rebuilt(q).burst = stored.burst
  BY DEF Rebuilt, Snapshot
<1>. QED BY <1>1 DEF OpenCase

LEMMA UsageInvNext == UsageInv /\ [UsageNext]_usageVars => UsageInv'
<1>. SUFFICES ASSUME UsageInv, [UsageNext]_usageVars PROVE UsageInv'
  OBVIOUS
<1>1. \A s \in Observations : [s EXCEPT !.at = hour] \in Observation
  <2>1. Observations \subseteq Observation
    BY UsageProfileAssumption DEF Observation
  <2>2. hour \in Int
    BY DEF UsageInv
  <2>3. \A s \in Observation, h \in Int : [s EXCEPT !.at = h] \in Observation
    BY DEF Observation
  <2>. QED BY <2>1, <2>2, <2>3
<1>2. ASSUME NEW s \in Observations, NEW p, FileCase(s, p) PROVE UsageInv'
  <2>. DEFINE es == Append(observed, [s EXCEPT !.at = hour])
              anchor == IF case = NoCase THEN hour ELSE case.opened
  <2>1. PICK q \in Readings(es) : stored' = Snapshot(Read(es, q), p, anchor)
    BY <1>2 DEF FileCase
  <2>2. /\ observed' = es /\ hour' = hour /\ panel' = panel
        /\ case' = [opened |-> anchor, reasons |-> stored'.reasons, device |-> s.device]
    BY <1>2 DEF FileCase
  <2>3. es \in Seq(Observation) /\ anchor \in Int
    BY <1>1 DEF UsageInv
  <2>. DEFINE obs == Read(es, q)
  <2>. HIDE DEF es, anchor, obs
  <2>4. stored' = Snapshot(obs, p, anchor)
    BY <2>1 DEF obs
  <2>5. "traffic_burst" \in stored'.reasons => stored'.burst # NoBurst
    BY <2>4, BurstIsNoEvent DEF Snapshot
  <2>. QED BY <2>2, <2>3, <2>5 DEF UsageInv
<1>3. ASSUME NEW s \in Observations, LogEvent(s) PROVE UsageInv'
  BY <1>1, <1>3 DEF LogEvent, UsageInv
<1>4. ASSUME OpenCase PROVE UsageInv'
  <2>1. stored'.burst = stored.burst /\ UNCHANGED <<hour, observed, panel, case>>
    BY <1>4, RebuiltKeepsBurst DEF OpenCase
  <2>. QED BY <2>1 DEF UsageInv
<1>5. ASSUME NextHour PROVE UsageInv'
  BY <1>5 DEF NextHour, UsageInv
<1>6. ASSUME NEW p \in Panels, PanelChanges(p) PROVE UsageInv'
  BY <1>6 DEF PanelChanges, UsageInv
<1>7. ASSUME UNCHANGED usageVars PROVE UsageInv'
  BY <1>7 DEF usageVars, UsageInv
<1>. QED BY <1>2, <1>3, <1>4, <1>5, <1>6, <1>7 DEF UsageNext

\* Once the queue names a burst, no answer to a page leaves it without figures,
\* however often the profile is built again without the panel
\* (review_admin.py:1814, reviews.py:186).
THEOREM BurstIsKept == UsageSpec => BurstIsRemembered
<1>1. UsageInv => (shown'.burst = NoBurst /\ "traffic_burst" \in case.reasons => ~OpenCase)
  <2>. SUFFICES ASSUME UsageInv, OpenCase, "traffic_burst" \in case.reasons
                PROVE  shown'.burst # NoBurst
    OBVIOUS
  <2>1. stored'.burst # NoBurst
    BY RebuiltKeepsBurst DEF UsageInv
  <2>2. \A obs : Enriched(Snapshot(obs, panel, case.opened), stored').burst # NoBurst
    <3>. SUFFICES ASSUME NEW obs
                  PROVE  Enriched(Snapshot(obs, panel, case.opened), stored').burst # NoBurst
      OBVIOUS
    <3>. DEFINE live == Snapshot(obs, panel, case.opened)
                burst == IF live.burst # NoBurst THEN live.burst ELSE stored'.burst
    <3>1. Enriched(live, stored').burst = burst
      BY <2>1 DEF Enriched, Snapshot
    <3>2. burst # NoBurst
      BY <2>1
    <3>. QED BY <3>1, <3>2
  <2>. QED BY <2>1, <2>2 DEF OpenCase
<1>. QED BY <1>1, UsageInvInit, UsageInvNext, PTL DEF UsageSpec, BurstIsRemembered

-----------------------------------------------------------------------------
(* UsageProfile: evidence adds up.  All that was observed may be observed     *)
(* again in another order, or in the same order with more after it.            *)

Within(obs, more) ==
  /\ obs \in Seq(Observation) /\ more \in Seq(Observation)
  /\ \A k \in DOMAIN obs : \E l \in DOMAIN more : more[l] = obs[k]

Further(obs, more) ==
  /\ obs \in Seq(Observation) /\ more \in Seq(Observation)
  /\ DOMAIN obs \subseteq DOMAIN more
  /\ \A k \in DOMAIN obs : more[k] = obs[k]

LEMMA FurtherIsFinite ==
  ASSUME NEW obs \in Seq(Observation)
  PROVE  IsFiniteSet(DOMAIN obs) /\ DOMAIN obs \subseteq Nat
<1>1. Len(obs) \in Nat /\ DOMAIN obs = 1..Len(obs)
  OBVIOUS
<1>2. IsFiniteSet(1..Len(obs))
  BY <1>1, FS_Interval
<1>. QED BY <1>1, <1>2

\* What comes further comes later.
LEMMA FurtherIsLater ==
  ASSUME NEW obs, NEW more, Further(obs, more)
  PROVE  \A i \in DOMAIN obs, j \in DOMAIN more : j \in DOMAIN obs \/ j > i
<1>1. /\ DOMAIN obs = 1..Len(obs) /\ Len(obs) \in Nat
      /\ DOMAIN more = 1..Len(more) /\ Len(more) \in Nat
  BY DEF Further
<1>. QED BY <1>1

\* What is consecutive stays so.
LEMMA ConsecutiveStays ==
  ASSUME NEW S \in SUBSET Nat, NEW T \in SUBSET Nat, S \subseteq T,
         \A i \in S, j \in T : j \in S \/ j > i
  PROVE  Consecutive(S) \subseteq Consecutive(T)
<1>. SUFFICES ASSUME NEW p \in S \X S, p[1] < p[2], \A k \in S : k <= p[1] \/ k >= p[2]
              PROVE  p \in Consecutive(T)
  BY DEF Consecutive
<1>1. p \in T \X T /\ p[1] \in S /\ p[2] \in S
  OBVIOUS
<1>2. ASSUME NEW k \in T PROVE k <= p[1] \/ k >= p[2]
  <2>1. k \in S \/ k > p[2]
    BY <1>1
  <2>2. k \in Nat /\ p[2] \in Nat
    BY <1>1
  <2>. QED BY <2>1, <2>2
<1>. QED BY <1>1, <1>2 DEF Consecutive

\* The keys, and the travels with each.
LEMMA TravelsStay ==
  ASSUME NEW obs, NEW more, Further(obs, more)
  PROVE  /\ Travels(obs) \subseteq Travels(more)
         /\ \A p \in Travels(obs) : more[p[1]] = obs[p[1]] /\ more[p[2]] = obs[p[2]]
<1>1. SeenKeys(obs) \subseteq SeenKeys(more)
  BY DEF SeenKeys, Further
<1>2. ASSUME NEW key, NEW p \in Consecutive(SeenWith(obs, key))
      PROVE  /\ p \in Consecutive(SeenWith(more, key))
             /\ more[p[1]] = obs[p[1]] /\ more[p[2]] = obs[p[2]]
  <2>. DEFINE S == SeenWith(obs, key)
              T == SeenWith(more, key)
  <2>1. S \subseteq T /\ T \cap DOMAIN obs = S /\ S \subseteq DOMAIN obs /\ T \subseteq DOMAIN more
    BY DEF SeenWith, Further
  <2>2. S \in SUBSET Nat /\ T \in SUBSET Nat
    BY <2>1, FurtherIsFinite DEF Further
  <2>3. \A i \in S, j \in T : j \in S \/ j > i
    BY <2>1, FurtherIsLater
  <2>4. p[1] \in S /\ p[2] \in S
    BY DEF Consecutive
  <2>. HIDE DEF S, T
  <2>5. Consecutive(S) \subseteq Consecutive(T)
    BY <2>1, <2>2, <2>3, ConsecutiveStays
  <2>6. p \in Consecutive(T)
    BY <2>5 DEF S
  <2>7. more[p[1]] = obs[p[1]] /\ more[p[2]] = obs[p[2]]
    BY <2>1, <2>4 DEF Further
  <2>. QED BY <2>6, <2>7 DEF T
<1>. QED BY <1>1, <1>2 DEF Travels

\* The changes of device.
LEMMA SwitchesStay ==
  ASSUME NEW obs, NEW more, Further(obs, more)
  PROVE  /\ Switches(obs) \subseteq Switches(more)
         /\ Switches(obs) \subseteq DOMAIN obs /\ Switches(more) \subseteq DOMAIN more
<1>. DEFINE S == {i \in DOMAIN obs : obs[i].device.key # ""}
            T == {i \in DOMAIN more : more[i].device.key # ""}
<1>1. S \subseteq T /\ S \subseteq DOMAIN obs /\ T \subseteq DOMAIN more /\ T \cap DOMAIN obs = S
  BY DEF Further
<1>2. S \in SUBSET Nat /\ T \in SUBSET Nat
  BY <1>1, FurtherIsFinite DEF Further
<1>3. \A i \in S, j \in T : j \in S \/ j > i
  BY <1>1, FurtherIsLater
<1>4. /\ Switches(obs) =
             {p[2] : p \in {r \in Consecutive(S) : obs[r[1]].device.key # obs[r[2]].device.key}}
      /\ Switches(more) =
             {p[2] : p \in {r \in Consecutive(T) : more[r[1]].device.key # more[r[2]].device.key}}
  BY DEF Switches
<1>. HIDE DEF S, T
<1>5. Consecutive(S) \subseteq Consecutive(T)
  BY <1>1, <1>2, <1>3, ConsecutiveStays
<1>6. /\ \A q \in Consecutive(S) : q[1] \in S /\ q[2] \in S
      /\ \A q \in Consecutive(T) : q[2] \in T
  BY DEF Consecutive
<1>7. \A q \in Consecutive(S) : more[q[1]] = obs[q[1]] /\ more[q[2]] = obs[q[2]]
  BY <1>1, <1>6 DEF Further
<1>. QED BY <1>1, <1>4, <1>5, <1>6, <1>7

LEMMA RotationStays ==
  ASSUME NEW obs, NEW more, Further(obs, more), Rotates(obs)
  PROVE  Rotates(more)
<1>. DEFINE From(S, e, i) == {j \in S : j >= i /\ e[j].at - e[i].at <= 1}
            S == Switches(obs)
            T == Switches(more)
<1>1. S \subseteq T /\ S \subseteq DOMAIN obs /\ T \subseteq DOMAIN more
  BY SwitchesStay
<1>2. PICK i \in S : Cardinality(From(S, obs, i)) > RotationLimit
  BY DEF Rotates
<1>3. From(S, obs, i) \subseteq From(T, more, i) /\ From(T, more, i) \subseteq DOMAIN more
  BY <1>1 DEF Further
<1>4. /\ Cardinality(From(S, obs, i)) \in Nat /\ Cardinality(From(T, more, i)) \in Nat
      /\ Cardinality(From(S, obs, i)) <= Cardinality(From(T, more, i))
  <2>. DEFINE E == From(S, obs, i)
              F == From(T, more, i)
  <2>1. IsFiniteSet(DOMAIN more) /\ E \subseteq F /\ F \subseteq DOMAIN more
    BY <1>3, FurtherIsFinite DEF Further
  <2>. HIDE DEF E, F
  <2>2. IsFiniteSet(F)
    BY ONLY <2>1, NoMoreInPart
  <2>3. Cardinality(E) \in Nat /\ Cardinality(F) \in Nat /\ Cardinality(E) <= Cardinality(F)
    BY ONLY <2>1, <2>2, NoMoreInPart
  <2>. QED BY <2>3 DEF E, F
<1>. HIDE DEF From
<1>6. Cardinality(From(T, more, i)) > RotationLimit
  <2>1. RotationLimit \in Nat
    BY UsageProfileAssumption
  <2>. DEFINE m == Cardinality(From(S, obs, i))
              n == Cardinality(From(T, more, i))
  <2>2. m > RotationLimit /\ m <= n /\ m \in Nat /\ n \in Nat
    BY <1>2, <1>4
  <2>. HIDE DEF m, n
  <2>3. n > RotationLimit
    BY <2>1, <2>2
  <2>. QED BY <2>3 DEF n
<1>. QED BY <1>1, <1>2, <1>6 DEF Rotates, From

\* Systems, nodes, providers and keys are there in any order.
LEMMA MoreIsSeen ==
  ASSUME NEW obs, NEW more, Within(obs, more)
  PROVE  /\ \A key : /\ IsFiniteSet(Systems(more, key))
                    /\ Systems(obs, key) \subseteq Systems(more, key)
         /\ IsFiniteSet(Nodes(more)) /\ Nodes(obs) \subseteq Nodes(more)
         /\ IsFiniteSet(Providers(more)) /\ Providers(obs) \subseteq Providers(more)
         /\ IsFiniteSet(SeenKeys(more)) /\ SeenKeys(obs) \subseteq SeenKeys(more)
<1>. DEFINE M == DOMAIN more
<1>1. IsFiniteSet(M)
  BY FurtherIsFinite DEF Within
<1>2. ASSUME NEW key
      PROVE  IsFiniteSet(Systems(more, key)) /\ Systems(obs, key) \subseteq Systems(more, key)
  <2>. DEFINE D == {j \in M : more[j].device.key = key}
              f == [j \in D |-> more[j].device.os]
  <2>1. IsFiniteSet(D)
    BY <1>1, FS_Subset
  <2>2. Systems(more, key) \subseteq {f[j] : j \in D}
    BY DEF Systems
  <2>3. Systems(obs, key) \subseteq Systems(more, key)
    BY DEF Systems, Within
  <2>. HIDE DEF D, f
  <2>4. IsFiniteSet({f[j] : j \in D})
    BY <2>1, ImageIsFinite
  <2>. QED BY <2>2, <2>3, <2>4, FS_Subset
<1>3. IsFiniteSet(Nodes(more)) /\ Nodes(obs) \subseteq Nodes(more)
  <2>. DEFINE f == [j \in M |-> more[j].node]
  <2>1. Nodes(more) \subseteq {f[j] : j \in M}
    BY DEF Nodes
  <2>2. Nodes(obs) \subseteq Nodes(more)
    BY DEF Nodes, Within
  <2>. HIDE DEF f, M
  <2>3. IsFiniteSet({f[j] : j \in M})
    BY <1>1, ImageIsFinite
  <2>. QED BY <2>1, <2>2, <2>3, FS_Subset
<1>4. IsFiniteSet(Providers(more)) /\ Providers(obs) \subseteq Providers(more)
  <2>. DEFINE f == [j \in M |-> more[j].provider]
  <2>1. Providers(more) \subseteq {f[j] : j \in M}
    BY DEF Providers
  <2>2. Providers(obs) \subseteq Providers(more)
    BY DEF Providers, Within
  <2>. HIDE DEF f, M
  <2>3. IsFiniteSet({f[j] : j \in M})
    BY <1>1, ImageIsFinite
  <2>. QED BY <2>1, <2>2, <2>3, FS_Subset
<1>5. IsFiniteSet(SeenKeys(more)) /\ SeenKeys(obs) \subseteq SeenKeys(more)
  <2>. DEFINE f == [j \in M |-> more[j].device.key]
  <2>1. SeenKeys(more) \subseteq {f[j] : j \in M}
    BY DEF SeenKeys
  <2>2. SeenKeys(obs) \subseteq SeenKeys(more)
    BY DEF SeenKeys, Within
  <2>. HIDE DEF f, M
  <2>3. IsFiniteSet({f[j] : j \in M})
    BY <1>1, ImageIsFinite
  <2>. QED BY <2>1, <2>2, <2>3, FS_Subset
<1>. QED BY <1>2, <1>3, <1>4, <1>5

\* The reasons that do not depend on the order of the events.
OrderFree(reasons) == reasons \ {"geo_country_jump", "geo_impossible_travel", "device_rotation"}

\* Where each reason comes from.
LEMMA ReasonHasSource ==
  ASSUME NEW obs
  PROVE  \A reason \in EventReasons(obs) :
           \/ \E p \in Travels(obs) : Jumped(obs[p[1]], obs[p[2]]) /\ reason = "geo_country_jump"
           \/ \E p \in Travels(obs) :
                Impossible(obs[p[1]], obs[p[2]]) /\ reason = "geo_impossible_travel"
           \/ Rotates(obs) /\ reason = "device_rotation"
           \/ \E key \in SeenKeys(obs) :
                Cardinality(Systems(obs, key)) > 1 /\ reason = "device_os_mismatch"
           \/ Cardinality(Nodes(obs)) >= 2 /\ reason = "cross_node_fanout"
           \/ Cardinality(Providers(obs)) >= 3 /\ reason = "provider_fanout"
  BY DEF EventReasons

LEMMA OrderFreeStay ==
  ASSUME NEW obs, NEW more, Within(obs, more)
  PROVE  OrderFree(EventReasons(obs)) \subseteq EventReasons(more)
<1>1. ASSUME NEW key \in SeenKeys(obs), Cardinality(Systems(obs, key)) > 1
      PROVE  "device_os_mismatch" \in EventReasons(more)
  <2>. DEFINE E == Systems(obs, key)
              F == Systems(more, key)
  <2>1. E \subseteq F /\ IsFiniteSet(F) /\ Cardinality(E) > 1
    BY <1>1, MoreIsSeen
  <2>. HIDE DEF E, F
  <2>2. Cardinality(F) > 1
    BY ONLY <2>1, NoMoreInPart
  <2>3. key \in SeenKeys(more)
    BY MoreIsSeen
  <2>. QED BY <2>2, <2>3 DEF EventReasons, F
<1>2. ASSUME Cardinality(Nodes(obs)) >= 2
      PROVE  "cross_node_fanout" \in EventReasons(more)
  <2>. DEFINE E == Nodes(obs)
              F == Nodes(more)
  <2>1. E \subseteq F /\ IsFiniteSet(F) /\ Cardinality(E) >= 2
    BY <1>2, MoreIsSeen
  <2>. HIDE DEF E, F
  <2>2. Cardinality(F) >= 2
    BY ONLY <2>1, NoMoreInPart
  <2>. QED BY <2>2 DEF EventReasons, F
<1>3. ASSUME Cardinality(Providers(obs)) >= 3
      PROVE  "provider_fanout" \in EventReasons(more)
  <2>. DEFINE E == Providers(obs)
              F == Providers(more)
  <2>1. E \subseteq F /\ IsFiniteSet(F) /\ Cardinality(E) >= 3
    BY <1>3, MoreIsSeen
  <2>. HIDE DEF E, F
  <2>2. Cardinality(F) >= 3
    BY ONLY <2>1, NoMoreInPart
  <2>. QED BY <2>2 DEF EventReasons, F
<1>. QED BY <1>1, <1>2, <1>3, ReasonHasSource DEF OrderFree

LEMMA ReasonsStay ==
  ASSUME NEW obs, NEW more, Further(obs, more)
  PROVE  Within(obs, more) /\ EventReasons(obs) \subseteq EventReasons(more)
<1>1. Within(obs, more)
  BY DEF Within, Further
<1>2. ASSUME NEW p \in Travels(obs), Jumped(obs[p[1]], obs[p[2]])
      PROVE  "geo_country_jump" \in EventReasons(more)
  BY <1>2, TravelsStay DEF EventReasons
<1>3. ASSUME NEW p \in Travels(obs), Impossible(obs[p[1]], obs[p[2]])
      PROVE  "geo_impossible_travel" \in EventReasons(more)
  BY <1>3, TravelsStay DEF EventReasons
<1>4. ASSUME Rotates(obs)
      PROVE  "device_rotation" \in EventReasons(more)
  BY <1>4, RotationStays DEF EventReasons
<1>5. OrderFree(EventReasons(obs)) \subseteq EventReasons(more)
  BY <1>1, OrderFreeStay
<1>. QED BY <1>1, <1>2, <1>3, <1>4, <1>5, ReasonHasSource DEF OrderFree

\* There are seven reasons.
LEMMA ReasonsAreFinite ==
  ASSUME NEW obs
  PROVE  IsFiniteSet(EventReasons(obs) \cup {"traffic_burst"})
<1>. DEFINE f == <<"geo_country_jump", "geo_impossible_travel", "device_rotation",
                  "device_os_mismatch", "cross_node_fanout", "provider_fanout", "traffic_burst">>
            All == {f[i] : i \in 1..7}
<1>1. IsFiniteSet(All)
  <2>1. IsFiniteSet(1..7)
    <3>1. 1 \in Int /\ 7 \in Int
      OBVIOUS
    <3>. QED BY ONLY <3>1, FS_Interval
  <2>. HIDE DEF f
  <2>. QED BY <2>1, ImageIsFinite
<1>2. /\ f[1] = "geo_country_jump" /\ f[2] = "geo_impossible_travel" /\ f[3] = "device_rotation"
      /\ f[4] = "device_os_mismatch" /\ f[5] = "cross_node_fanout" /\ f[6] = "provider_fanout"
      /\ f[7] = "traffic_burst"
  OBVIOUS
<1>. HIDE DEF f
<1>3. /\ "geo_country_jump" \in All /\ "geo_impossible_travel" \in All
      /\ "device_rotation" \in All /\ "device_os_mismatch" \in All
      /\ "cross_node_fanout" \in All /\ "provider_fanout" \in All /\ "traffic_burst" \in All
  BY <1>2
<1>. HIDE DEF All
<1>4. EventReasons(obs) \cup {"traffic_burst"} \subseteq All
  BY <1>3 DEF EventReasons
<1>. QED BY <1>1, <1>4, FS_Subset

\* The hours from the opening of the case to its last event.
LEMMA HoursStay ==
  ASSUME NEW obs, NEW more, Within(obs, more), NEW a \in Int
  PROVE  /\ Hours(obs, a) \in Nat /\ Hours(more, a) \in Nat
         /\ Hours(obs, a) <= Hours(more, a)
<1>. DEFINE M == DOMAIN more
            S == {0} \cup {obs[i].at - a : i \in DOMAIN obs}
            f == [i \in M |-> more[i].at - a]
            T == {0} \cup {f[i] : i \in M}
<1>1. /\ \A i \in M : more[i].at - a \in Int
      /\ \A i \in DOMAIN obs : obs[i].at - a \in Int
                               /\ \E l \in M : obs[i].at - a = more[l].at - a
  <2>1. /\ \A i \in M : more[i] \in Observation
        /\ \A i \in DOMAIN obs : obs[i] \in Observation /\ \E l \in M : obs[i] = more[l]
    BY DEF Within
  <2>2. \A x \in Observation : x.at \in Int
    BY DEF Observation
  <2>. QED BY <2>1, <2>2
<1>2. T = {0} \cup {more[i].at - a : i \in M} /\ T \subseteq Int
  BY <1>1
<1>3. S \subseteq T
  BY <1>1, <1>2
<1>4. IsFiniteSet(T)
  <2>1. IsFiniteSet(M)
    BY FurtherIsFinite DEF Within
  <2>. HIDE DEF f, M
  <2>2. IsFiniteSet({f[i] : i \in M})
    BY <2>1, ImageIsFinite
  <2>. QED BY <2>2, FS_AddElement
<1>5. Hours(obs, a) = Max(S) /\ Hours(more, a) = Max(T)
  BY <1>2 DEF Hours
<1>6. 0 \in S /\ 0 \in T
  OBVIOUS
<1>. HIDE DEF S, T
<1>7. Max(S) \in Int /\ Max(T) \in Int /\ Max(S) <= Max(T)
  BY <1>2, <1>3, <1>4, <1>6, LargestGrows
<1>8. IsFiniteSet(S) /\ S \subseteq Int
  BY <1>2, <1>3, <1>4, FS_Subset
<1>9. 0 <= Max(S)
  BY <1>6, <1>8, LargestExists
<1>. QED BY <1>5, <1>7, <1>9

LEMMA CappedGrows ==
  ASSUME NEW m \in Nat, NEW n \in Nat, m <= n, NEW cap \in Nat
  PROVE  /\ Capped(m, cap) \in Nat /\ Capped(n, cap) \in Nat
         /\ Capped(m, cap) <= Capped(n, cap)
<1>1. Capped(m, cap) = IF m <= cap THEN m ELSE cap
  BY SmallerOfTwo DEF Capped
<1>2. Capped(n, cap) = IF n <= cap THEN n ELSE cap
  BY SmallerOfTwo DEF Capped
<1>. QED BY <1>1, <1>2

\* A profile that counts the observations obs, whatever reasons it gives.
CountsOf(profile, obs, a) ==
  /\ profile.hours = Hours(obs, a)
  /\ profile.nodes = Cardinality(Nodes(obs))
  /\ profile.providers = Cardinality(Providers(obs))
  /\ profile.devices = SeenKeys(obs)

\* Its priority, by the reasons it gives and what it counts.
LEMMA PriorityStays ==
  ASSUME NEW obs, NEW more, Within(obs, more), NEW a \in Int,
         NEW old, CountsOf(old, obs, a), NEW new, CountsOf(new, more, a),
         old.reasons \subseteq new.reasons, IsFiniteSet(new.reasons)
  PROVE  NotSunk(old, new)
<1>1. /\ old.hours = Hours(obs, a) /\ new.hours = Hours(more, a)
      /\ old.nodes = Cardinality(Nodes(obs)) /\ new.nodes = Cardinality(Nodes(more))
      /\ old.providers = Cardinality(Providers(obs))
      /\ new.providers = Cardinality(Providers(more))
      /\ old.devices = SeenKeys(obs) /\ new.devices = SeenKeys(more)
  BY DEF CountsOf
<1>4. /\ Cardinality(old.reasons) \in Nat /\ Cardinality(new.reasons) \in Nat
      /\ Cardinality(old.reasons) <= Cardinality(new.reasons)
  <2>. DEFINE E == old.reasons
              F == new.reasons
  <2>1. IsFiniteSet(F) /\ E \subseteq F
    OBVIOUS
  <2>. HIDE DEF E, F
  <2>2. Cardinality(E) \in Nat /\ Cardinality(F) \in Nat /\ Cardinality(E) <= Cardinality(F)
    BY ONLY <2>1, NoMoreInPart
  <2>. QED BY <2>2 DEF E, F
<1>5. /\ old.hours \in Nat /\ new.hours \in Nat /\ old.hours <= new.hours
  BY <1>1, HoursStay
<1>6. /\ old.nodes \in Nat /\ new.nodes \in Nat /\ old.nodes <= new.nodes
  BY <1>1, MoreIsSeen, NoMoreInPart
<1>7. /\ old.providers \in Nat /\ new.providers \in Nat /\ old.providers <= new.providers
  BY <1>1, MoreIsSeen, NoMoreInPart
<1>8. /\ Cardinality(old.devices) \in Nat /\ Cardinality(new.devices) \in Nat
      /\ Cardinality(old.devices) <= Cardinality(new.devices)
  BY <1>1, MoreIsSeen, NoMoreInPart
<1>. DEFINE bonus(p) == IF "geo_impossible_travel" \in p.reasons THEN 160
                        ELSE IF "geo_country_jump" \in p.reasons THEN 70 ELSE 0
<1>9. bonus(old) \in Nat /\ bonus(new) \in Nat /\ bonus(old) <= bonus(new)
  OBVIOUS
<1>. DEFINE fixed == Base(FALSE, "UNSURE") + Capped(1, 10) * 25
            A(p) == Capped(Cardinality(p.reasons), 10)
            B(p) == Capped(p.hours, 72)
            C(p) == Capped(p.nodes, 5)
            D(p) == Capped(p.providers, 5)
            E(p) == Capped(Cardinality(p.devices), 5)
<1>10. /\ A(old) \in Nat /\ A(new) \in Nat /\ A(old) <= A(new)
       /\ B(old) \in Nat /\ B(new) \in Nat /\ B(old) <= B(new)
       /\ C(old) \in Nat /\ C(new) \in Nat /\ C(old) <= C(new)
       /\ D(old) \in Nat /\ D(new) \in Nat /\ D(old) <= D(new)
       /\ E(old) \in Nat /\ E(new) \in Nat /\ E(old) <= E(new)
  BY <1>4, <1>5, <1>6, <1>7, <1>8, CappedGrows
<1>11. fixed \in Nat
  <2>1. Capped(1, 10) \in Nat
    BY CappedGrows
  <2>2. Base(FALSE, "UNSURE") = 200
    BY DEF Base
  <2>. DEFINE x == Capped(1, 10)
              y == Base(FALSE, "UNSURE")
  <2>3. x \in Nat /\ y = 200
    BY <2>1, <2>2
  <2>. HIDE DEF x, y
  <2>4. y + x * 25 \in Nat
    BY <2>3
  <2>. QED BY <2>4 DEF x, y
<1>12. \A p : Priority(p, FALSE, "UNSURE", 1) =
                fixed + A(p) * 60 + B(p) * 2 + C(p) * 20 + D(p) * 15 + E(p) * 10 + bonus(p)
  BY DEF Priority
<1>. HIDE DEF fixed, A, B, C, D, E, bonus
<1>13. Priority(old, FALSE, "UNSURE", 1) <= Priority(new, FALSE, "UNSURE", 1)
  <2>1. /\ Priority(old, FALSE, "UNSURE", 1) =
             fixed + A(old) * 60 + B(old) * 2 + C(old) * 20 + D(old) * 15 + E(old) * 10 + bonus(old)
        /\ Priority(new, FALSE, "UNSURE", 1) =
             fixed + A(new) * 60 + B(new) * 2 + C(new) * 20 + D(new) * 15 + E(new) * 10 + bonus(new)
    BY <1>12
  <2>2. ASSUME NEW x \in Nat, NEW a0 \in Nat, NEW b0 \in Nat, NEW c0 \in Nat, NEW d0 \in Nat,
               NEW e0 \in Nat, NEW f0 \in Nat, NEW a1 \in Nat, NEW b1 \in Nat, NEW c1 \in Nat,
               NEW d1 \in Nat, NEW e1 \in Nat, NEW f1 \in Nat,
               a0 <= a1, b0 <= b1, c0 <= c1, d0 <= d1, e0 <= e1, f0 <= f1
        PROVE  x + a0 * 60 + b0 * 2 + c0 * 20 + d0 * 15 + e0 * 10 + f0 <=
               x + a1 * 60 + b1 * 2 + c1 * 20 + d1 * 15 + e1 * 10 + f1
    BY <2>2
  <2>3. fixed + A(old) * 60 + B(old) * 2 + C(old) * 20 + D(old) * 15 + E(old) * 10 + bonus(old) <=
        fixed + A(new) * 60 + B(new) * 2 + C(new) * 20 + D(new) * 15 + E(new) * 10 + bonus(new)
    BY ONLY <1>9, <1>10, <1>11, <2>2
  <2>. QED BY ONLY <2>1, <2>3
<1>. QED BY <1>13 DEF NotSunk

\* What a profile built without the panel says.
LEMMA SnapshotSays ==
  ASSUME NEW obs, NEW a
  PROVE  /\ CountsOf(Snapshot(obs, NoPanel, a), obs, a)
         /\ CountsOf(Steady(Snapshot(obs, NoPanel, a)), obs, a)
         /\ Steady(Snapshot(obs, NoPanel, a)).reasons =
              OrderFree(Snapshot(obs, NoPanel, a).reasons)
         /\ Snapshot(obs, NoPanel, a).reasons =
              EventReasons(obs) \cup (IF Burst(<<>>, TRUE) = NoBurst THEN {} ELSE {"traffic_burst"})
<1>. DEFINE burst == Burst(<<>>, TRUE)
            s == Snapshot(obs, NoPanel, a)
            reasons == EventReasons(obs) \cup (IF burst = NoBurst THEN {} ELSE {"traffic_burst"})
<1>1. DeviceKeys({}) = {}
  BY DEF DeviceKeys
<1>2. s = [reasons |-> reasons, burst |-> burst, devices |-> SeenKeys(obs) \cup DeviceKeys({}),
           limit |-> -1, count |-> -1, nodes |-> Cardinality(Nodes(obs)),
           providers |-> Cardinality(Providers(obs)), hours |-> Hours(obs, a)]
  BY DEF Snapshot, NoPanel
<1>3. SeenKeys(obs) \cup DeviceKeys({}) = SeenKeys(obs)
  BY <1>1
<1>. HIDE DEF burst, s, reasons
<1>4. CountsOf(s, obs, a) /\ s.reasons = reasons
  BY <1>2, <1>3 DEF CountsOf
<1>5. /\ Steady(s).reasons = OrderFree(s.reasons)
      /\ Steady(s).hours = s.hours /\ Steady(s).nodes = s.nodes
      /\ Steady(s).providers = s.providers /\ Steady(s).devices = s.devices
  BY <1>2 DEF Steady, OrderFree
<1>6. CountsOf(Steady(s), obs, a)
  BY <1>4, <1>5 DEF CountsOf
<1>. QED BY <1>4, <1>5, <1>6 DEF s, reasons, burst

\* A reading observes what it names.
LEMMA ReadTyped ==
  ASSUME NEW es \in Seq(Observation), NEW q \in Readings(es)
  PROVE  /\ q \in Seq(DOMAIN es)
         /\ Read(es, q) \in Seq(Observation) /\ DOMAIN Read(es, q) = DOMAIN q
         /\ \A k \in DOMAIN q : Read(es, q)[k] = es[q[k]]
<1>1. PICK S \in SUBSET DOMAIN es : q \in SetToSeqs(S)
  BY DEF Readings, Newest, Fresh
<1>2. IsFiniteSet(S)
  <2>1. IsFiniteSet(DOMAIN es)
    BY FurtherIsFinite
  <2>. QED BY <2>1, FS_Subset
<1>3. q \in Seq(S)
  BY <1>1, <1>2, PoolTaken
<1>4. q \in Seq(DOMAIN es) /\ Len(q) \in Nat /\ DOMAIN q = 1..Len(q) /\ \A k \in DOMAIN q : q[k] \in DOMAIN es
  BY <1>3
<1>5. \A k \in 1..Len(q) : es[q[k]] \in Observation
  BY <1>4
<1>6. Read(es, q) = [k \in 1..Len(q) |-> es[q[k]]]
  BY <1>4 DEF Read
<1>. QED BY <1>4, <1>5, <1>6

\* While no event falls out of the window of the profile, a further event takes
\* back no soft reason and lowers no priority, in whatever order the events of
\* one time are read but for travels and rotations, and these too where the
\* order stays (usage_profile.py:731, usage_profile.py:877).
THEOREM EvidenceAddsUp == UsageSpec => SignalsAccumulate
<1>. DEFINE Step == Len(observed') = Len(observed) + 1 /\ case # NoCase
            Grown(old, new) ==
              LET before == Snapshot(Read(observed, old), NoPanel, case.opened)
                  after == Snapshot(Read(observed', new), NoPanel, case.opened)
              IN /\ Range(old) \subseteq Range(new) => NotSunk(Steady(before), Steady(after))
                 /\ new = Append(old, Len(observed')) => NotSunk(before, after)
            AllGrown == \A old \in Readings(observed), new \in Readings(observed') : Grown(old, new)
<1>1. UsageInv /\ [UsageNext]_usageVars => (Step => AllGrown)
  <2>. SUFFICES ASSUME UsageInv, [UsageNext]_usageVars, Step,
                       NEW old \in Readings(observed), NEW new \in Readings(observed')
                PROVE  Grown(old, new)
    OBVIOUS
  <2>1. PICK s \in Observations : observed' = Append(observed, [s EXCEPT !.at = hour])
    <3>1. observed' # observed
      BY DEF UsageInv
    <3>. QED BY <3>1 DEF UsageNext, usageVars, FileCase, LogEvent, OpenCase, PanelChanges, NextHour
  <2>2. /\ observed \in Seq(Observation) /\ observed' \in Seq(Observation) /\ case.opened \in Int
        /\ DOMAIN observed = 1..Len(observed) /\ \A i \in DOMAIN observed : observed'[i] = observed[i]
    <3>1. s \in Observation /\ hour \in Int
      <4>1. Observations \subseteq Observation
        BY UsageProfileAssumption DEF Observation
      <4>. QED BY <4>1 DEF UsageInv
    <3>2. [s EXCEPT !.at = hour] \in Observation
      BY <3>1 DEF Observation
    <3>. QED BY <2>1, <3>2 DEF UsageInv
  <2>. DEFINE obs == Read(observed, old)
              more == Read(observed', new)
              a == case.opened
              before == Snapshot(obs, NoPanel, a)
              after == Snapshot(more, NoPanel, a)
  <2>3. /\ old \in Seq(DOMAIN observed) /\ obs \in Seq(Observation) /\ DOMAIN obs = DOMAIN old
        /\ \A k \in DOMAIN old : obs[k] = observed[old[k]]
        /\ more \in Seq(Observation) /\ DOMAIN more = DOMAIN new
        /\ \A k \in DOMAIN new : more[k] = observed'[new[k]]
    BY <2>2, ReadTyped
  <2>4. \A k \in DOMAIN old : old[k] \in DOMAIN observed /\ obs[k] = observed'[old[k]]
    BY <2>2, <2>3
  <2>. HIDE DEF obs, more
  <2>5. /\ Range(old) \subseteq Range(new) => Within(obs, more)
        /\ new = Append(old, Len(observed')) => Further(obs, more)
    <3>1. ASSUME Range(old) \subseteq Range(new) PROVE Within(obs, more)
      <4>1. \A k \in DOMAIN old : \E l \in DOMAIN new : new[l] = old[k]
        BY <3>1 DEF Range
      <4>2. \A k \in DOMAIN obs : \E l \in DOMAIN more : more[l] = obs[k]
        BY <2>3, <2>4, <4>1
      <4>. QED BY <2>3, <4>2 DEF Within
    <3>2. ASSUME new = Append(old, Len(observed')) PROVE Further(obs, more)
      <4>1. DOMAIN old \subseteq DOMAIN new /\ \A k \in DOMAIN old : new[k] = old[k]
        BY <2>3, <3>2
      <4>. QED BY <2>3, <2>4, <4>1 DEF Further
    <3>. QED BY <3>1, <3>2
  <2>. DEFINE extra == IF Burst(<<>>, TRUE) = NoBurst THEN {} ELSE {"traffic_burst"}
  <2>6. a \in Int
    BY <2>2
  <2>. HIDE DEF a
  <2>7. /\ CountsOf(before, obs, a) /\ CountsOf(Steady(before), obs, a)
        /\ Steady(before).reasons = OrderFree(before.reasons)
        /\ before.reasons = EventReasons(obs) \cup extra
    BY ONLY SnapshotSays
  <2>8. /\ CountsOf(after, more, a) /\ CountsOf(Steady(after), more, a)
        /\ Steady(after).reasons = OrderFree(after.reasons)
        /\ after.reasons = EventReasons(more) \cup extra
    BY ONLY SnapshotSays
  <2>9. IsFiniteSet(EventReasons(more) \cup {"traffic_burst"})
    BY ReasonsAreFinite
  <2>10. extra \subseteq {"traffic_burst"}
    OBVIOUS
  <2>. HIDE DEF before, after, extra
  <2>11. IsFiniteSet(after.reasons) /\ IsFiniteSet(Steady(after).reasons)
    <3>1. after.reasons \subseteq EventReasons(more) \cup {"traffic_burst"}
      BY <2>8, <2>10
    <3>2. Steady(after).reasons \subseteq EventReasons(more) \cup {"traffic_burst"}
      BY <2>8, <3>1 DEF OrderFree
    <3>. QED BY <2>9, <3>1, <3>2, FS_Subset
  <2>12. Within(obs, more) => NotSunk(Steady(before), Steady(after))
    <3>. SUFFICES ASSUME Within(obs, more) PROVE NotSunk(Steady(before), Steady(after))
      OBVIOUS
    <3>1. OrderFree(EventReasons(obs)) \subseteq EventReasons(more)
      BY OrderFreeStay
    <3>2. Steady(before).reasons \subseteq Steady(after).reasons
      BY <2>7, <2>8, <3>1 DEF OrderFree
    <3>. QED BY <2>6, <2>7, <2>8, <2>11, <3>2, PriorityStays
  <2>13. Further(obs, more) => NotSunk(before, after)
    <3>. SUFFICES ASSUME Further(obs, more) PROVE NotSunk(before, after)
      OBVIOUS
    <3>1. Within(obs, more) /\ EventReasons(obs) \subseteq EventReasons(more)
      BY ReasonsStay
    <3>2. before.reasons \subseteq after.reasons
      BY <2>7, <2>8, <3>1
    <3>. QED BY <2>6, <2>7, <2>8, <2>11, <3>1, <3>2, PriorityStays
  <2>14. /\ Range(old) \subseteq Range(new) => NotSunk(Steady(before), Steady(after))
         /\ new = Append(old, Len(observed')) => NotSunk(before, after)
    BY <2>5, <2>12, <2>13
  <2>. QED BY <2>14 DEF before, after, obs, more, a
<1>2. SignalsAccumulate <=> [][Step => AllGrown]_usageVars
  BY DEF SignalsAccumulate
<1>. HIDE DEF Step, AllGrown
<1>. QED BY <1>1, <1>2, UsageInvInit, UsageInvNext, PTL DEF UsageSpec

-----------------------------------------------------------------------------
(* UsageProfile: the burst *)

Point == [at : Int, bytes : Nat \ {0}]

\* The bytes of the points, as a sum takes them.
PointBytes(points) == [i \in DOMAIN points |-> points[i].bytes]

LEMMA BytesIsSum ==
  ASSUME NEW points, NEW S
  PROVE  Bytes(points, S) = Sum(PointBytes(points), S)
  BY DEF Bytes, Sum, PointBytes

\* Bytes are natural numbers, of finitely many points.
LEMMA BytesTyped ==
  ASSUME NEW points \in Seq(Point)
  PROVE  /\ \A i \in DOMAIN points : points[i].at \in Int /\ PointBytes(points)[i] \in Nat
         /\ \A S \in SUBSET DOMAIN points : IsFiniteSet(S) /\ Bytes(points, S) \in Nat
<1>1. \A p \in Point : p.at \in Int /\ p.bytes \in Nat
  BY DEF Point
<1>2. \A i \in DOMAIN points : points[i] \in Point
  OBVIOUS
<1>3. \A i \in DOMAIN points : points[i].at \in Int /\ PointBytes(points)[i] \in Nat
  BY <1>1, <1>2 DEF PointBytes
<1>4. IsFiniteSet(DOMAIN points)
  <2>1. Len(points) \in Nat /\ DOMAIN points = 1..Len(points)
    OBVIOUS
  <2>. QED BY <2>1, FS_Interval
<1>5. ASSUME NEW S \in SUBSET DOMAIN points PROVE IsFiniteSet(S) /\ Bytes(points, S) \in Nat
  <2>1. IsFiniteSet(S)
    BY <1>4, FS_Subset
  <2>2. \A x \in S : PointBytes(points)[x] \in Nat
    BY <1>3
  <2>3. Sum(PointBytes(points), S) \in Nat
    BY ONLY <2>1, <2>2, SumIsNatural
  <2>. QED BY <2>1, <2>3, BytesIsSum
<1>. QED BY <1>3, <1>5

\* More points hold no fewer bytes.
LEMMA BytesGrow ==
  ASSUME NEW points \in Seq(Point), NEW S, NEW T, S \subseteq T, T \subseteq DOMAIN points
  PROVE  Bytes(points, S) <= Bytes(points, T)
<1>. DEFINE f == PointBytes(points)
            U == T \ S
<1>1. IsFiniteSet(T) /\ \A x \in T : f[x] \in Int
  BY BytesTyped
<1>2. Bytes(points, U) \in Nat /\ Bytes(points, S) \in Nat
  BY BytesTyped
<1>3. S \in SUBSET T
  OBVIOUS
<1>. HIDE DEF f
<1>4. Sum(f, T) = Sum(f, S) + Sum(f, T \ S)
  BY ONLY <1>1, <1>3, SumSplits
<1>5. Bytes(points, T) = Bytes(points, S) + Bytes(points, U)
  BY <1>4, BytesIsSum DEF f
<1>. HIDE DEF U
<1>. QED BY <1>2, <1>5

\* Where the points are listed does not matter to what they add up to.
Listed(r, K, f, e) ==
  \A k \in K : f[r[k]] = e[k] /\ e[k] \in Int /\ \A l \in K : r[k] = r[l] => k = l

\* A sum is the same over the places and over what they name.
LEMMA SumOfListed ==
  ASSUME NEW r, NEW f, NEW e, NEW K, IsFiniteSet(K), Listed(r, K, f, e)
  PROVE  Sum(f, {r[k] : k \in K}) = Sum(e, K)
<1>. DEFINE Image(S) == {r[k] : k \in S}
            Bad == {S \in SUBSET K : Sum(f, Image(S)) # Sum(e, S)}
<1>1. SUFFICES ASSUME Bad # {} PROVE FALSE
  <2>1. K \in SUBSET K
    OBVIOUS
  <2>. QED BY <2>1
<1>2. PICK S \in Bad : \A T \in Bad : T \subseteq S => T = S
  <2>1. IsFiniteSet(K) /\ Bad \subseteq SUBSET K
    OBVIOUS
  <2>. HIDE DEF Bad
  <2>. QED BY ONLY <1>1, <2>1, LeastSubset
<1>3. S \in SUBSET K /\ Sum(f, Image(S)) # Sum(e, S)
  BY <1>2
<1>4. S # {}
  <2>1. Image({}) = {}
    OBVIOUS
  <2>. HIDE DEF Image
  <2>. QED BY <1>3, <2>1, SumOfNone
<1>5. PICK k \in S : TRUE
  BY <1>4
<1>. DEFINE T == S \ {k}
<1>6. T \in SUBSET K /\ T \subseteq S /\ T # S
  BY <1>3, <1>5
<1>7. Sum(f, Image(T)) = Sum(e, T)
  BY <1>2, <1>6
<1>8. Sum(e, S) = e[k] + Sum(e, T)
  <2>1. IsFiniteSet(S)
    BY <1>3, NoMoreInPart
  <2>2. \A x \in S : e[x] \in Int
    BY <1>3 DEF Listed
  <2>. QED BY ONLY <1>5, <2>1, <2>2, SumTakesOut
<1>9. Sum(f, Image(S)) = f[r[k]] + Sum(f, Image(T))
  <2>. DEFINE I == Image(S)
              y == r[k]
  <2>1. y \in I /\ I \ {y} = Image(T)
    BY <1>3 DEF Listed
  <2>2. \A x \in I : f[x] \in Int
    BY <1>3 DEF Listed
  <2>3. IsFiniteSet(I)
    <3>1. IsFiniteSet(S)
      BY <1>3, NoMoreInPart
    <3>. QED BY <3>1, ImageIsFinite
  <2>. HIDE DEF I, y
  <2>4. Sum(f, I) = f[y] + Sum(f, I \ {y})
    BY ONLY <2>1, <2>2, <2>3, SumTakesOut
  <2>5. I \ {y} = Image(T)
    BY <2>1
  <2>. HIDE DEF Image
  <2>. QED BY <2>4, <2>5 DEF I, y
<1>10. f[r[k]] = e[k]
  BY <1>3 DEF Listed
<1>. HIDE DEF Image, T
<1>. QED BY <1>3, <1>7, <1>8, <1>9, <1>10

-----------------------------------------------------------------------------
\* Points in the order of time.
Sorted(points) ==
  /\ points \in Seq(Point)
  /\ \A i, j \in DOMAIN points : i <= j => points[i].at <= points[j].at

\* The points of the window that ends at r.
Window(points, r) == {l \in 1..r : points[r].at - points[l].at <= BurstWindow}

LEMMA WindowIsPart ==
  ASSUME NEW points, Sorted(points), NEW r \in DOMAIN points
  PROVE  Window(points, r) \subseteq DOMAIN points /\ r \in Window(points, r)
<1>1. Len(points) \in Nat /\ DOMAIN points = 1..Len(points)
  BY DEF Sorted
<1>2. points[r].at \in Int /\ BurstWindow \in Nat
  BY BytesTyped, UsageProfileAssumption DEF Sorted
<1>3. points[r].at - points[r].at <= BurstWindow
  BY <1>2
<1>. QED BY <1>1, <1>3 DEF Window

\* The window starts where the points are near enough, if it started no later before.
LEMMA WindowStarts ==
  ASSUME NEW points, Sorted(points), NEW r \in DOMAIN points, NEW left \in 1..r,
         \A l \in 1..r : l < left => ~(points[r].at - points[l].at <= BurstWindow)
  PROVE  /\ WindowStart(points, r, left) \in 1..r
         /\ WindowStart(points, r, left)..r = Window(points, r)
<1>. DEFINE near == {l \in left..r : l = r \/ points[r].at - points[l].at <= BurstWindow}
            s == Min(near)
<1>1. Len(points) \in Nat /\ DOMAIN points = 1..Len(points)
  BY DEF Sorted
<1>2. r \in Nat /\ left \in Nat /\ near \subseteq Nat /\ r \in near
  BY <1>1
<1>. HIDE DEF near
<1>3. s \in near /\ \A l \in near : s <= l
  BY <1>2, SmallestExists
<1>. HIDE DEF s
<1>4. s \in left..r /\ s \in 1..r
  BY <1>1, <1>3 DEF near
<1>5. BurstWindow \in Nat /\ \A l \in 1..r : l \in DOMAIN points /\ points[l].at \in Int
  <2>1. BurstWindow \in Nat
    BY UsageProfileAssumption
  <2>2. \A l \in 1..r : l \in DOMAIN points
    BY <1>1
  <2>. QED BY <2>1, <2>2, BytesTyped DEF Sorted
<1>6. points[r].at - points[s].at <= BurstWindow
  BY <1>3, <1>4, <1>5 DEF near
<1>7. ASSUME NEW l \in s..r PROVE l \in Window(points, r)
  <2>1. l \in 1..r /\ s <= l
    BY <1>1, <1>4
  <2>2. points[s].at <= points[l].at
    BY <1>4, <1>5, <2>1 DEF Sorted
  <2>3. points[r].at - points[l].at <= BurstWindow
    BY <1>2, <1>4, <1>5, <1>6, <2>1, <2>2
  <2>. QED BY <2>1, <2>3 DEF Window
<1>8. ASSUME NEW l \in Window(points, r) PROVE l \in s..r
  <2>1. l \in 1..r /\ points[r].at - points[l].at <= BurstWindow
    BY DEF Window
  <2>2. ~(l < left)
    BY <2>1
  <2>3. l \in near
    BY <1>1, <2>1, <2>2 DEF near
  <2>. QED BY <1>1, <1>3, <1>4, <2>1, <2>3
<1>. QED BY <1>4, <1>7, <1>8 DEF WindowStart, s, near

-----------------------------------------------------------------------------
\* f is what the loop over the points has found, point by point.
Scan(f, points, n) ==
  f = [r \in 0..n |-> IF r = 0 THEN [left |-> 1, best |-> NoBurst]
                      ELSE Moved(points, r, f[r - 1])]

\* The loop is built up point by point.
LEMMA ScanExists ==
  ASSUME NEW points, NEW n \in Nat
  PROVE  \E f : Scan(f, points, n)
<1>. DEFINE Start == [left |-> 1, best |-> NoBurst]
            Reached == {k \in Nat : \E f : Scan(f, points, k)}
<1>1. 0 \in Reached
  <2>. DEFINE f == [r \in 0..0 |-> Start]
  <2>1. Scan(f, points, 0)
    BY DEF Scan
  <2>. QED BY <2>1
<1>. HIDE DEF Start
<1>2. ASSUME NEW k \in Reached PROVE k + 1 \in Reached
  <2>1. PICK f : Scan(f, points, k)
    OBVIOUS
  <2>. DEFINE last == Moved(points, k + 1, f[k])
  <2>. HIDE DEF last
  <2>. DEFINE g == [r \in 0..(k + 1) |-> IF r = k + 1 THEN last ELSE f[r]]
  <2>2. (\A r \in 0..k : g[r] = f[r]) /\ g[k + 1] = last /\ g = [r \in 0..(k + 1) |-> g[r]]
    OBVIOUS
  <2>. HIDE DEF g
  <2>3. ASSUME NEW r \in 0..(k + 1)
        PROVE  g[r] = IF r = 0 THEN Start ELSE Moved(points, r, g[r - 1])
    <3>1. CASE r = k + 1
      <4>1. g[r - 1] = f[k] /\ r # 0
        BY <2>2, <3>1
      <4>. QED BY <2>2, <3>1, <4>1 DEF last
    <3>2. CASE r # k + 1
      <4>1. r \in 0..k /\ (r # 0 => r - 1 \in 0..k)
        BY <3>2
      <4>2. f[r] = IF r = 0 THEN Start ELSE Moved(points, r, f[r - 1])
        BY <2>1, <4>1 DEF Scan, Start
      <4>. QED BY <2>2, <4>1, <4>2
    <3>. QED BY <3>1, <3>2
  <2>4. Scan(g, points, k + 1)
    BY <2>2, <2>3 DEF Scan, Start
  <2>. QED BY <2>4
<1>3. SUFFICES ASSUME n \notin Reached PROVE FALSE
  OBVIOUS
<1>. DEFINE T == Nat \ Reached
<1>4. PICK m \in T : \A k \in T : m <= k
  <2>1. T # {} /\ T \subseteq Nat
    BY <1>3
  <2>. HIDE DEF T
  <2>. QED BY <2>1, LeastNatural
<1>. HIDE DEF Reached
<1>5. m \in Nat /\ m # 0
  BY <1>1, <1>4
<1>6. m - 1 \in Nat /\ m - 1 \notin T
  BY <1>4, <1>5
<1>7. m - 1 + 1 = m
  BY <1>5
<1>. QED BY <1>2, <1>4, <1>6, <1>7

LEMMA ScanSteps ==
  ASSUME NEW points, Sorted(points)
  PROVE  /\ Scanned(points)[0] = [left |-> 1, best |-> NoBurst]
         /\ \A r \in 1..Len(points) : Scanned(points)[r] = Moved(points, r, Scanned(points)[r - 1])
<1>. DEFINE n == Len(points)
<1>1. n \in Nat
  BY DEF Sorted
<1>2. Scanned(points) = CHOOSE f : Scan(f, points, n)
  BY DEF Scanned, Scan
<1>3. PICK f : f = Scanned(points)
  OBVIOUS
<1>. HIDE DEF n
<1>4. Scan(f, points, n)
  BY <1>1, <1>2, <1>3, ScanExists
<1>5. \A r \in 0..n : f[r] = IF r = 0 THEN [left |-> 1, best |-> NoBurst]
                             ELSE Moved(points, r, f[r - 1])
  BY <1>4 DEF Scan
<1>6. 0 \in 0..n /\ \A r \in 1..n : r \in 0..n /\ r # 0
  BY <1>1
<1>7. f[0] = [left |-> 1, best |-> NoBurst] /\ \A r \in 1..n : f[r] = Moved(points, r, f[r - 1])
  BY <1>5, <1>6
<1>. QED BY <1>3, <1>7 DEF n

\* The best so far is the heaviest of the windows so far.
Best(points, r, scan) ==
  /\ scan.left \in 1..r /\ scan.left..r = Window(points, r)
  /\ \A q \in 1..r : scan.best.bytes >= Bytes(points, Window(points, q))
  /\ \E q \in 1..r : scan.best.bytes = Bytes(points, Window(points, q))

LEMMA WindowsTyped ==
  ASSUME NEW points, Sorted(points)
  PROVE  \A r \in 1..Len(points) : Bytes(points, Window(points, r)) \in Nat
<1>1. points \in Seq(Point) /\ DOMAIN points = 1..Len(points)
  BY DEF Sorted
<1>2. ASSUME NEW r \in 1..Len(points) PROVE Bytes(points, Window(points, r)) \in Nat
  <2>1. Window(points, r) \in SUBSET DOMAIN points
    BY <1>1, WindowIsPart
  <2>. QED BY <1>1, <2>1, BytesTyped
<1>. QED BY <1>2

\* The loop finds the heaviest window: at the first point, and at each after it.
LEMMA FirstIsBest ==
  ASSUME NEW points, Sorted(points), 1 \in DOMAIN points
  PROVE  Best(points, 1, Moved(points, 1, [left |-> 1, best |-> NoBurst]))
<1>. DEFINE s == WindowStart(points, 1, 1)
            b == Bytes(points, s..1)
            m == Moved(points, 1, [left |-> 1, best |-> NoBurst])
<1>1. s \in 1..1 /\ s..1 = Window(points, 1)
  <2>1. 1 \in 1..1 /\ \A l \in 1..1 : ~(l < 1)
    OBVIOUS
  <2>. QED BY <2>1, WindowStarts
<1>2. b \in Nat
  BY <1>1, WindowsTyped DEF Sorted
<1>3. m.left = s /\ m.best.bytes = IF b > 0 THEN b ELSE 0
  BY DEF Moved, NoBurst
<1>. HIDE DEF m
<1>4. m.best.bytes = Bytes(points, Window(points, 1))
  BY <1>1, <1>2, <1>3
<1>5. Bytes(points, Window(points, 1)) \in Nat /\ 1 \in 1..1 /\ \A q \in 1..1 : q = 1
  BY <1>1, <1>2
<1>. HIDE DEF s, b
<1>6. \A q \in 1..1 : m.best.bytes >= Bytes(points, Window(points, q))
  BY <1>4, <1>5
<1>7. Best(points, 1, m)
  BY <1>1, <1>3, <1>4, <1>5, <1>6 DEF Best
<1>. QED BY <1>7 DEF m

LEMMA BestMoves ==
  ASSUME NEW points, Sorted(points), NEW r \in DOMAIN points, r # 1, NEW scan,
         Best(points, r - 1, scan)
  PROVE  Best(points, r, Moved(points, r, scan))
<1>. DEFINE s == WindowStart(points, r, scan.left)
            b == Bytes(points, s..r)
            old == scan.best.bytes
            m == Moved(points, r, scan)
<1>1. Len(points) \in Nat /\ DOMAIN points = 1..Len(points) /\ r \in Nat
  BY DEF Sorted
<1>2. /\ r - 1 \in DOMAIN points /\ r - 1 \in Nat
      /\ \A q \in 1..r : q \in 1..(r - 1) \/ q = r
      /\ \A q \in 1..(r - 1) : q \in 1..r /\ q \in DOMAIN points
  BY <1>1
<1>3. scan.left \in 1..r
  BY <1>1, <1>2 DEF Best
<1>4. ASSUME NEW l \in 1..r, l < scan.left
      PROVE  ~(points[r].at - points[l].at <= BurstWindow)
  <2>1. l \in 1..(r - 1) /\ l \notin scan.left..(r - 1) /\ l \in DOMAIN points
    BY <1>1, <1>2, <1>4 DEF Best
  <2>2. ~(points[r - 1].at - points[l].at <= BurstWindow)
    BY <2>1 DEF Best, Window
  <2>3. points[r - 1].at <= points[r].at
    BY <1>1, <1>2 DEF Sorted
  <2>4. points[r].at \in Int /\ points[r - 1].at \in Int /\ points[l].at \in Int
    BY <1>2, <2>1, BytesTyped DEF Sorted
  <2>5. BurstWindow \in Nat
    BY UsageProfileAssumption
  <2>. QED BY <2>2, <2>3, <2>4, <2>5
<1>5. s \in 1..r /\ s..r = Window(points, r)
  BY <1>3, <1>4, WindowStarts
<1>6. b = Bytes(points, Window(points, r)) /\ b \in Nat
  BY <1>1, <1>5, WindowsTyped
<1>7. m.left = s /\ m.best.bytes = IF b > old THEN b ELSE old
  BY DEF Moved
<1>8. PICK p \in 1..(r - 1) : old = Bytes(points, Window(points, p))
  BY DEF Best
<1>9. old \in Nat
  BY <1>1, <1>2, <1>8, WindowsTyped
<1>10. \A q \in 1..r : Bytes(points, Window(points, q)) \in Nat
  BY <1>1, WindowsTyped
<1>11. \A q \in 1..(r - 1) : old >= Bytes(points, Window(points, q))
  BY DEF Best
<1>. HIDE DEF m, s, b, old
<1>12. \A q \in 1..r : m.best.bytes >= Bytes(points, Window(points, q))
  BY <1>2, <1>6, <1>7, <1>9, <1>10, <1>11
<1>13. \E q \in 1..r : m.best.bytes = Bytes(points, Window(points, q))
  <2>1. p \in 1..r /\ r \in 1..r
    BY <1>1, <1>2
  <2>. QED BY <1>6, <1>7, <1>8, <2>1
<1>. QED BY <1>5, <1>7, <1>12, <1>13 DEF Best, m

LEMMA ScanIsBest ==
  ASSUME NEW points, Sorted(points)
  PROVE  \A r \in DOMAIN points : Best(points, r, Scanned(points)[r])
<1>1. Len(points) \in Nat /\ DOMAIN points = 1..Len(points)
  BY DEF Sorted
<1>. DEFINE Bad == {r \in DOMAIN points : ~Best(points, r, Scanned(points)[r])}
<1>2. SUFFICES ASSUME Bad # {} PROVE FALSE
  OBVIOUS
<1>3. PICK r \in Bad : \A q \in Bad : r <= q
  <2>1. Bad \subseteq Nat
    BY <1>1
  <2>. HIDE DEF Bad
  <2>. QED BY <1>2, <2>1, LeastNatural
<1>4. r \in DOMAIN points /\ r \in 1..Len(points) /\ ~Best(points, r, Scanned(points)[r])
  BY <1>1, <1>3
<1>5. r # 1
  BY <1>4, ScanSteps, FirstIsBest
<1>6. r - 1 \in DOMAIN points /\ r - 1 < r
  BY <1>1, <1>4, <1>5
<1>7. Best(points, r - 1, Scanned(points)[r - 1])
  <2>1. ~(r <= r - 1)
    BY <1>1, <1>4
  <2>2. r - 1 \notin Bad
    BY <1>3, <2>1
  <2>. QED BY <1>6, <2>2
<1>8. Scanned(points)[r] = Moved(points, r, Scanned(points)[r - 1])
  BY <1>4, ScanSteps
<1>. QED BY <1>4, <1>5, <1>7, <1>8, BestMoves

-----------------------------------------------------------------------------
(* UsageProfile: the order of the points *)

LEMMA EarlierIsOrder ==
  ASSUME NEW series \in Seq(Point)
  PROVE  /\ \A i \in DOMAIN series : ~Earlier(series, i, i)
         /\ \A i, j \in DOMAIN series : i # j => Earlier(series, i, j) \/ Earlier(series, j, i)
         /\ \A i, j, k \in DOMAIN series :
              Earlier(series, i, j) /\ Earlier(series, j, k) => Earlier(series, i, k)
<1>1. \A i \in DOMAIN series : i \in Nat /\ series[i].at \in Int
  <2>1. DOMAIN series = 1..Len(series)
    OBVIOUS
  <2>. QED BY <2>1, BytesTyped
<1>. QED BY <1>1 DEF Earlier

\* A point that is earlier has a smaller rank.
LEMMA RanksGrow ==
  ASSUME NEW series \in Seq(Point)
  PROVE  /\ \A i \in DOMAIN series : Rank(series, i) \in DOMAIN series
         /\ \A i, j \in DOMAIN series : Earlier(series, i, j) => Rank(series, i) < Rank(series, j)
<1>. DEFINE n == Len(series)
            D == DOMAIN series
            Before(i) == {j \in D : Earlier(series, j, i)}
<1>1. n \in Nat /\ D = 1..n /\ IsFiniteSet(D) /\ Cardinality(D) = n
  <2>1. n \in Nat /\ D = 1..n
    OBVIOUS
  <2>2. IsFiniteSet(1..n) /\ Cardinality(1..n) = n
    <3>1. 1 \in Int /\ n \in Int /\ n \in Nat
      BY <2>1
    <3>. HIDE DEF n
    <3>. QED BY ONLY <3>1, FS_Interval
  <2>. QED BY <2>1, <2>2
<1>2. ASSUME NEW i \in D
      PROVE  IsFiniteSet(Before(i)) /\ Cardinality(Before(i)) \in Nat /\ i \notin Before(i)
  <2>1. Before(i) \subseteq D /\ i \notin Before(i)
    BY EarlierIsOrder
  <2>. DEFINE B == Before(i)
  <2>. HIDE DEF Before, D
  <2>2. IsFiniteSet(Before(i)) /\ Cardinality(Before(i)) \in Nat
    BY ONLY <1>1, <2>1, NoMoreInPart
  <2>. QED BY <2>1, <2>2
<1>3. ASSUME NEW i \in D PROVE Rank(series, i) \in D
  <2>. DEFINE B == Before(i)
              E == D \ {i}
  <2>1. B \subseteq E /\ IsFiniteSet(E) /\ Cardinality(E) = n - 1
    <3>1. B \subseteq E
      BY <1>2
    <3>. HIDE DEF B, D
    <3>. QED BY <1>1, <1>3, <3>1, FS_RemoveElement
  <2>2. Rank(series, i) = 1 + Cardinality(B)
    BY DEF Rank
  <2>. HIDE DEF B, E
  <2>3. Cardinality(B) \in Nat /\ Cardinality(B) <= Cardinality(E)
    BY <2>1, NoMoreInPart
  <2>. HIDE DEF D, n
  <2>4. 1 + Cardinality(B) \in 1..n
    BY <1>1, <2>1, <2>3
  <2>. QED BY <1>1, <2>2, <2>4
<1>4. ASSUME NEW i \in D, NEW j \in D, Earlier(series, i, j)
      PROVE  Rank(series, i) < Rank(series, j)
  <2>. DEFINE B == Before(i)
              C == Before(j)
  <2>1. B \subseteq C /\ i \in C /\ i \notin B
    BY <1>4, EarlierIsOrder
  <2>2. IsFiniteSet(B) /\ IsFiniteSet(C) /\ Cardinality(B) \in Nat /\ Cardinality(C) \in Nat
    BY <1>2
  <2>3. Rank(series, i) = 1 + Cardinality(B) /\ Rank(series, j) = 1 + Cardinality(C)
    BY DEF Rank
  <2>. HIDE DEF B, C, D, n
  <2>4. Cardinality(B) <= Cardinality(C) /\ Cardinality(B) # Cardinality(C)
    BY ONLY <2>1, <2>2, FS_Subset
  <2>. QED BY <2>2, <2>3, <2>4
<1>. QED BY <1>3, <1>4

\* r names the place in the series of each point in the order of time.
Sorts(r, series) ==
  /\ r \in [DOMAIN series -> DOMAIN series]
  /\ \A k, l \in DOMAIN series : r[k] = r[l] => k = l
  /\ \A i \in DOMAIN series : \E k \in DOMAIN series : r[k] = i
  /\ \A k \in DOMAIN series : Ordered(series)[k] = series[r[k]]

\* The ranks name each point once.
LEMMA OrderedIsSorted ==
  ASSUME NEW series \in Seq(Point)
  PROVE  /\ Sorted(Ordered(series)) /\ DOMAIN Ordered(series) = DOMAIN series
         /\ Len(Ordered(series)) = Len(series)
         /\ \E r : Sorts(r, series)
<1>. DEFINE D == DOMAIN series
            rank == [i \in D |-> Rank(series, i)]
            r == [k \in D |-> CHOOSE i \in D : Rank(series, i) = k]
<1>1. Len(series) \in Nat /\ D = 1..Len(series) /\ \A i \in D : i \in Nat /\ Rank(series, i) \in Nat
  <2>1. Len(series) \in Nat /\ D = 1..Len(series)
    OBVIOUS
  <2>. QED BY <2>1, RanksGrow
<1>2. \A i, j \in D : Rank(series, i) = Rank(series, j) => i = j
  <2>1. \A i, j \in D :
          i # j => Rank(series, i) < Rank(series, j) \/ Rank(series, j) < Rank(series, i)
    BY RanksGrow, EarlierIsOrder
  <2>. QED BY <1>1, <2>1
<1>3. \A k \in D : \E i \in D : Rank(series, i) = k
  <2>1. rank \in Injection(D, D)
    BY <1>2, RanksGrow DEF Injection, IsInjective
  <2>2. IsFiniteSet(D)
    BY <1>1, FS_Interval
  <2>. HIDE DEF rank, D
  <2>3. rank \in Surjection(D, D)
    BY <2>1, <2>2, FS_Injection
  <2>4. \A k \in D : \E i \in D : rank[i] = k
    BY <2>3 DEF Surjection
  <2>. QED BY <2>4 DEF rank
<1>4. \A k \in D : r[k] \in D /\ Rank(series, r[k]) = k
  BY <1>3
<1>5. \A k \in D : Ordered(series)[k] = series[r[k]]
  BY DEF Ordered
<1>6. DOMAIN Ordered(series) = D /\ Ordered(series) = [k \in D |-> Ordered(series)[k]]
  BY DEF Ordered
<1>7. r = [k \in D |-> r[k]]
  OBVIOUS
<1>. HIDE DEF r
<1>8. Ordered(series) \in Seq(Point) /\ Len(Ordered(series)) = Len(series)
  <2>1. \A k \in 1..Len(series) : Ordered(series)[k] \in Point
    BY <1>1, <1>4, <1>5
  <2>2. Ordered(series) \in [1..Len(series) -> Point]
    BY <1>1, <1>6, <2>1
  <2>. QED BY <1>1, <2>2
<1>9. ASSUME NEW k \in D, NEW l \in D, k <= l
      PROVE  Ordered(series)[k].at <= Ordered(series)[l].at
  <2>1. r[k] \in D /\ r[l] \in D /\ Rank(series, r[k]) = k /\ Rank(series, r[l]) = l
    BY <1>4
  <2>2. ~Earlier(series, r[l], r[k])
    BY <1>1, <1>9, <2>1, RanksGrow
  <2>3. series[r[k]].at \in Int /\ series[r[l]].at \in Int
    BY <2>1, BytesTyped
  <2>4. series[r[k]].at <= series[r[l]].at
    BY <2>2, <2>3 DEF Earlier
  <2>. QED BY <1>5, <2>4
<1>10. Sorts(r, series)
  <2>1. \A k, l \in D : r[k] = r[l] => k = l
    BY <1>4
  <2>2. \A i \in D : \E k \in D : r[k] = i
    BY <1>2, <1>4, RanksGrow
  <2>. QED BY <1>4, <1>5, <1>7, <2>1, <2>2 DEF Sorts
<1>. QED BY <1>6, <1>8, <1>9, <1>10 DEF Sorted

-----------------------------------------------------------------------------
\* What the places K of the sorted points hold, the points they name hold.
LEMMA BytesOfListed ==
  ASSUME NEW series \in Seq(Point), NEW r, Sorts(r, series), NEW K \in SUBSET DOMAIN series
  PROVE  Bytes(series, {r[k] : k \in K}) = Bytes(Ordered(series), K)
<1>. DEFINE P == Ordered(series)
            f == PointBytes(series)
            e == PointBytes(P)
<1>1. Sorted(P) /\ DOMAIN P = DOMAIN series
  BY OrderedIsSorted
<1>2. \A k \in K : /\ r[k] \in DOMAIN series /\ k \in DOMAIN P /\ P[k] = series[r[k]]
                   /\ \A l \in K : r[k] = r[l] => k = l
  BY <1>1 DEF Sorts
<1>3. IsFiniteSet(K)
  BY BytesTyped
<1>. HIDE DEF P
<1>4. \A k \in K : f[r[k]] = e[k]
  BY <1>2 DEF PointBytes
<1>5. \A k \in K : e[k] \in Int
  BY <1>1, <1>2, BytesTyped DEF Sorted
<1>6. Listed(r, K, f, e)
  BY <1>2, <1>4, <1>5 DEF Listed
<1>. HIDE DEF f, e
<1>7. Sum(f, {r[k] : k \in K}) = Sum(e, K)
  BY ONLY <1>3, <1>6, SumOfListed
<1>. QED BY <1>7, BytesIsSum DEF f, e, P

\* The points of a window that begins at a time.
From(series, at) == {i \in DOMAIN series : series[i].at \in at..(at + BurstWindow)}

\* The heaviest of the windows that end at a point and of those that begin at one
\* are the same.
LEMMA HeaviestWindow ==
  ASSUME NEW series \in Seq(Point), series # <<>>
  PROVE  Heaviest(series).bytes =
           Max({Bytes(series, From(series, series[i].at)) : i \in DOMAIN series})
<1>. DEFINE P == Ordered(series)
            D == DOMAIN series
            n == Len(series)
            best == Heaviest(series).bytes
            f == [i \in D |-> Bytes(series, From(series, series[i].at))]
            All == {f[i] : i \in D}
<1>1. Sorted(P) /\ DOMAIN P = D /\ Len(P) = n
  BY OrderedIsSorted
<1>2. PICK r : Sorts(r, series)
  BY OrderedIsSorted
<1>3. n \in Nat /\ D = 1..n /\ n \in D
  OBVIOUS
<1>4. BurstWindow \in Nat
  BY UsageProfileAssumption
<1>5. Best(P, n, Scanned(P)[n])
  BY <1>1, <1>3, ScanIsBest
<1>6. /\ \A q \in D : best >= Bytes(P, Window(P, q))
      /\ \E q \in D : best = Bytes(P, Window(P, q))
  BY <1>3, <1>5 DEF Best, Heaviest
<1>7. \A q \in D : Window(P, q) \subseteq D /\ Bytes(P, Window(P, q)) \in Nat
  BY <1>1, <1>3, WindowIsPart, WindowsTyped
<1>8. best \in Nat
  BY <1>6, <1>7
<1>9. \A i \in D : From(series, series[i].at) \in SUBSET D /\ f[i] \in Nat
  <2>1. \A i \in D : From(series, series[i].at) \in SUBSET D
    BY DEF From
  <2>. QED BY <2>1, BytesTyped
<1>10. \A k \in D : r[k] \in D /\ P[k] = series[r[k]] /\ P[k].at \in Int
  <2>1. \A k \in D : r[k] \in D /\ P[k] = series[r[k]]
    BY <1>2 DEF Sorts
  <2>2. \A k \in D : P[k].at \in Int
    BY <1>1, BytesTyped DEF Sorted
  <2>. QED BY <2>1, <2>2
<1>. HIDE DEF P, best
\* The heaviest window ends somewhere: the one that begins where it begins holds as much.
<1>11. \E i \in D : best <= f[i]
  <2>1. PICK q \in D : best = Bytes(P, Window(P, q))
    BY <1>6
  <2>. DEFINE K == Window(P, q)
  <2>2. K \subseteq D /\ K # {} /\ K \subseteq Nat
    BY <1>1, <1>3, <1>7, WindowIsPart
  <2>. HIDE DEF K
  <2>3. PICK l \in K : \A k \in K : l <= k
    BY <2>2, LeastNatural
  <2>. USE DEF K
  <2>4. ASSUME NEW k \in K PROVE r[k] \in From(series, series[r[l]].at)
    <3>1. k \in D /\ l \in D /\ l <= k /\ k <= q
      BY <1>3, <2>2, <2>3 DEF Window
    <3>2. P[l].at <= P[k].at /\ P[k].at <= P[q].at
      BY <1>1, <3>1 DEF Sorted
    <3>3. P[q].at - P[l].at <= BurstWindow
      BY <2>3 DEF Window
    <3>4. P[k].at \in P[l].at..(P[l].at + BurstWindow)
      <4>1. P[k].at \in Int /\ P[l].at \in Int /\ P[q].at \in Int
        BY <1>10, <2>1, <3>1
      <4>. QED BY <1>4, <3>2, <3>3, <4>1
    <3>5. r[k] \in D /\ series[r[k]] = P[k] /\ series[r[l]] = P[l]
      BY <1>10, <3>1
    <3>. QED BY <3>4, <3>5 DEF From
  <2>. HIDE DEF K
  <2>5. Bytes(series, {r[k] : k \in K}) = Bytes(P, K)
    BY <1>2, <2>2, BytesOfListed DEF P
  <2>. DEFINE I == {r[k] : k \in K}
              F == From(series, series[r[l]].at)
  <2>6. I \subseteq F /\ F \subseteq D /\ r[l] \in D
    BY <1>10, <2>2, <2>3, <2>4 DEF From
  <2>7. f[r[l]] = Bytes(series, F)
    BY <2>6
  <2>. HIDE DEF I, F, f
  <2>8. Bytes(series, I) <= Bytes(series, F)
    BY <2>6, BytesGrow
  <2>9. best = Bytes(series, I)
    BY <2>1, <2>5 DEF I, K
  <2>. QED BY <2>6, <2>7, <2>8, <2>9
\* A window that begins at a point ends at its last point.
<1>12. \A i \in D : f[i] <= best
  <2>. SUFFICES ASSUME NEW i \in D PROVE f[i] <= best
    OBVIOUS
  <2>. DEFINE F == From(series, series[i].at)
              K == {k \in D : r[k] \in F}
  <2>1. K \subseteq D /\ {r[k] : k \in K} = F
    <3>1. F \subseteq D
      BY <1>9
    <3>2. \A x \in D : \E k \in D : r[k] = x
      BY <1>2 DEF Sorts
    <3>. HIDE DEF F, D
    <3>. QED BY <3>1, <3>2
  <2>2. Bytes(series, F) = Bytes(P, K)
    <3>. HIDE DEF F, K
    <3>1. Bytes(series, {r[k] : k \in K}) = Bytes(P, K)
      BY <1>2, <2>1, BytesOfListed DEF P
    <3>. QED BY <2>1, <3>1
  <2>3. i \in F
    <3>1. series[i].at \in Int
      BY BytesTyped
    <3>2. series[i].at \in series[i].at..(series[i].at + BurstWindow)
      BY <1>4, <3>1
    <3>. QED BY <3>2 DEF From
  <2>4. K # {} /\ K \subseteq Int /\ IsFiniteSet(K)
    <3>1. IsFiniteSet(K)
      BY <2>1, BytesTyped
    <3>2. \E k \in D : r[k] = i
      BY <1>2 DEF Sorts
    <3>3. K # {}
      BY <2>3, <3>2
    <3>. QED BY <1>3, <2>1, <3>1, <3>3
  <2>. DEFINE q == Max(K)
  <2>. HIDE DEF K
  <2>5. q \in K /\ \A k \in K : k <= q
    BY <2>4, LargestExists
  <2>. HIDE DEF q
  <2>6. K \subseteq Window(P, q)
    <3>. SUFFICES ASSUME NEW k \in K PROVE k \in Window(P, q)
      OBVIOUS
    <3>1. k \in D /\ q \in D /\ k <= q /\ k \in 1..q
      BY <1>3, <2>1, <2>5
    <3>2. r[k] \in F /\ r[q] \in F
      BY <2>5 DEF K
    <3>3. /\ P[k].at \in series[i].at..(series[i].at + BurstWindow)
          /\ P[q].at \in series[i].at..(series[i].at + BurstWindow)
      BY <1>10, <3>1, <3>2 DEF From
    <3>4. series[i].at \in Int /\ P[k].at \in Int /\ P[q].at \in Int
      BY <1>10, <3>1, BytesTyped
    <3>5. P[q].at - P[k].at <= BurstWindow
      BY <1>4, <3>3, <3>4
    <3>. QED BY <3>1, <3>5 DEF Window
  <2>7. q \in D
    BY <2>1, <2>5
  <2>8. Bytes(P, K) <= Bytes(P, Window(P, q))
    <3>1. Window(P, q) \subseteq DOMAIN P /\ P \in Seq(Point)
      BY <1>1, <1>7, <2>7 DEF Sorted
    <3>. QED BY <2>6, <3>1, BytesGrow
  <2>9. Bytes(P, K) \in Nat
    <3>1. P \in Seq(Point) /\ K \in SUBSET DOMAIN P
      BY <1>1, <2>1 DEF Sorted
    <3>. QED BY <3>1, BytesTyped
  <2>10. f[i] = Bytes(P, K)
    BY <2>2
  <2>. QED BY <1>6, <1>7, <1>8, <2>7, <2>8, <2>9, <2>10
<1>13. best = Max(All)
  <2>1. IsFiniteSet(D)
    BY BytesTyped
  <2>2. \A x \in All : x \in Nat /\ x <= best
    BY <1>9, <1>12
  <2>3. All # {} /\ All \subseteq Int /\ \E x \in All : best <= x
    BY <1>11, <2>2
  <2>. HIDE DEF f, D
  <2>4. IsFiniteSet(All)
    BY <2>1, ImageIsFinite
  <2>. HIDE DEF All
  <2>5. Max(All) \in All /\ \A x \in All : x <= Max(All)
    BY <2>3, <2>4, LargestExists
  <2>. DEFINE m == Max(All)
  <2>6. m \in All /\ \A x \in All : x <= m
    BY <2>5
  <2>. HIDE DEF m
  <2>7. m \in Nat /\ m <= best
    BY <2>2, <2>6
  <2>8. PICK x \in All : best <= x
    BY <2>3
  <2>9. x \in Nat /\ x <= m
    BY <2>2, <2>6
  <2>10. best = m
    BY <1>8, <2>7, <2>8, <2>9
  <2>. QED BY <2>10 DEF m
<1>14. All = {Bytes(series, From(series, series[i].at)) : i \in D}
  OBVIOUS
<1>. HIDE DEF All, f
<1>. QED BY <1>13, <1>14 DEF best

\* The burst a profile reports is the heaviest there is: no window of the length
\* holds more, wherever it begins and however the panel lists its points
\* (usage_profile.py:495).
THEOREM BurstIsAlwaysHeaviest == UsageSpec => []BurstIsHeaviest
<1>1. UsageInv => BurstIsHeaviest
  <2>. SUFFICES ASSUME UsageInv, panel.series # <<>>
                PROVE  Heaviest(panel.series).bytes =
                         Max({Bytes(panel.series, From(panel.series, panel.series[i].at))
                                : i \in DOMAIN panel.series})
    BY DEF BurstIsHeaviest, From
  <2>1. panel.series \in Seq(Point)
    BY UsageProfileAssumption DEF UsageInv, Point
  <2>. QED BY <2>1, HeaviestWindow
<1>. QED BY <1>1, UsageInvInit, UsageInvNext, PTL DEF UsageSpec

-----------------------------------------------------------------------------
(* Behavior: the samples *)

Row == [user : Visitors, address : Addresses, at : Nat]

\* The rows are in the order of their times, none of them in the future.
PastInv ==
  /\ minute \in Nat
  /\ history \in Seq(Row)
  /\ \A i \in DOMAIN history : history[i].at <= minute
  /\ \A i, j \in DOMAIN history : i <= j => history[i].at <= history[j].at

LEMMA RowsAreTimed ==
  ASSUME PastInv
  PROVE  \A i \in DOMAIN history : history[i] \in Row /\ history[i].at \in Nat
<1>1. \A r \in Row : r.at \in Nat
  BY DEF Row
<1>2. \A i \in DOMAIN history : history[i] \in Row
  BY DEF PastInv
<1>. QED BY <1>1, <1>2

LEMMA PastInvInit == PastInit => PastInv
  BY DEF PastInit, PastInv

LEMMA PersistKeepsPast ==
  ASSUME PastInv, NEW u \in Visitors, NEW a \in Addresses, NEW v, Persist(u, a, v)
  PROVE  PastInv'
<1>. DEFINE r == [user |-> u, address |-> a, at |-> minute]
<1>1. r \in Row /\ r.at = minute
  BY DEF Row, PastInv
<1>2. history' = Append(history, r) /\ minute' = minute
  BY DEF Persist
<1>. HIDE DEF r
<1>3. /\ history' \in Seq(Row) /\ DOMAIN history' = 1..(Len(history) + 1)
      /\ DOMAIN history = 1..Len(history) /\ Len(history) \in Nat
      /\ \A i \in DOMAIN history : history'[i] = history[i]
      /\ history'[Len(history) + 1] = r
  BY <1>1, <1>2 DEF PastInv
<1>4. \A i \in DOMAIN history' : i \in DOMAIN history \/ i = Len(history) + 1
  BY <1>3
<1>5. \A i \in DOMAIN history : history[i].at \in Nat
  BY RowsAreTimed
<1>6. \A i \in DOMAIN history' : history'[i].at <= minute
  BY <1>1, <1>3, <1>4, <1>5 DEF PastInv
<1>7. ASSUME NEW i \in DOMAIN history', NEW j \in DOMAIN history', i <= j
      PROVE  history'[i].at <= history'[j].at
  <2>1. CASE j = Len(history) + 1
    BY <1>1, <1>3, <1>6, <2>1
  <2>2. CASE j # Len(history) + 1
    <3>1. i \in DOMAIN history /\ j \in DOMAIN history
      BY <1>3, <1>7, <2>2
    <3>. QED BY <1>3, <1>7, <3>1 DEF PastInv
  <2>. QED BY <2>1, <2>2
<1>. QED BY <1>2, <1>3, <1>6, <1>7 DEF PastInv

LEMMA CleanKeepsPast ==
  ASSUME PastInv, Clean
  PROVE  PastInv'
<1>. DEFINE n == Len(history)
            old == {i \in DOMAIN history : history[i].at < minute - Thresholds.history_retention}
            k == Cardinality(old)
<1>1. n \in Nat /\ DOMAIN history = 1..n
  BY DEF PastInv
<1>2. k \in Nat /\ k <= n
  <2>1. IsFiniteSet(1..n) /\ Cardinality(1..n) = n
    <3>1. 1 \in Int /\ n \in Int /\ n \in Nat
      BY <1>1
    <3>. HIDE DEF n
    <3>. QED BY ONLY <3>1, FS_Interval
  <2>2. old \subseteq 1..n
    BY <1>1
  <2>. HIDE DEF old, n
  <2>. QED BY <2>1, <2>2, NoMoreInPart
<1>3. history' = SubSeq(history, 1 + k, n) /\ minute' = minute
  BY DEF Clean
<1>. HIDE DEF k, old
<1>4. /\ history' \in Seq(Row) /\ DOMAIN history' = 1..(n - k)
      /\ \A i \in DOMAIN history' : i + k \in DOMAIN history /\ history'[i] = history[i + k]
  BY <1>1, <1>2, <1>3 DEF PastInv
<1>5. \A i \in DOMAIN history' : history'[i].at <= minute
  BY <1>4 DEF PastInv
<1>6. \A i, j \in DOMAIN history' : i <= j => i + k <= j + k
  BY <1>1, <1>2, <1>4
<1>7. \A i, j \in DOMAIN history' : i <= j => history'[i].at <= history'[j].at
  BY <1>4, <1>6 DEF PastInv
<1>. QED BY <1>3, <1>4, <1>5, <1>7 DEF PastInv

LEMMA PastInvNext == PastInv /\ [PastNext]_pastVars => PastInv'
<1>. SUFFICES ASSUME PastInv, [PastNext]_pastVars PROVE PastInv'
  OBVIOUS
<1>1. ASSUME PastTick PROVE PastInv'
  <2>1. minute' = minute + 1 /\ history' = history /\ minute \in Nat
    BY <1>1 DEF PastTick, PastInv
  <2>2. \A i \in DOMAIN history : history[i].at \in Nat /\ history[i].at <= minute
    BY RowsAreTimed DEF PastInv
  <2>3. \A i \in DOMAIN history' : history'[i].at <= minute'
    BY <2>1, <2>2
  <2>. QED BY <2>1, <2>3 DEF PastInv
<1>2. ASSUME UNCHANGED pastVars PROVE PastInv'
  BY <1>2 DEF pastVars, PastInv
<1>. QED BY <1>1, <1>2, PersistKeepsPast, CleanKeepsPast DEF PastNext

-----------------------------------------------------------------------------
\* f names the row kept last, row by row.
Latest(f, kept, k) ==
  f = [i \in 0..k |-> IF i = 0 THEN 0
                      ELSE IF i \in kept /\ (f[i - 1] = 0 \/ Far(i, f[i - 1]))
                           THEN i ELSE f[i - 1]]

\* The loop is built up row by row.
LEMMA LatestExists ==
  ASSUME NEW kept, NEW n \in Nat
  PROVE  \E f : Latest(f, kept, n)
<1>. DEFINE Reached == {k \in Nat : \E f : Latest(f, kept, k)}
<1>1. 0 \in Reached
  <2>. DEFINE f == [i \in 0..0 |-> 0]
  <2>1. Latest(f, kept, 0)
    BY DEF Latest
  <2>. QED BY <2>1
<1>2. ASSUME NEW k \in Reached PROVE k + 1 \in Reached
  <2>1. PICK f : Latest(f, kept, k)
    OBVIOUS
  <2>. DEFINE last == IF k + 1 \in kept /\ (f[k] = 0 \/ Far(k + 1, f[k])) THEN k + 1 ELSE f[k]
              g == [i \in 0..(k + 1) |-> IF i = k + 1 THEN last ELSE f[i]]
  <2>2. \A i \in 0..k : g[i] = f[i]
    OBVIOUS
  <2>3. g[k + 1] = last
    OBVIOUS
  <2>4. g = [i \in 0..(k + 1) |-> g[i]]
    OBVIOUS
  <2>. HIDE DEF g
  <2>5. ASSUME NEW i \in 0..(k + 1)
        PROVE  g[i] = IF i = 0 THEN 0
                      ELSE IF i \in kept /\ (g[i - 1] = 0 \/ Far(i, g[i - 1])) THEN i ELSE g[i - 1]
    <3>1. CASE i = k + 1
      <4>1. g[i - 1] = f[k] /\ i # 0 /\ i - 1 = k
        BY <2>2, <3>1
      <4>. QED BY <2>3, <3>1, <4>1
    <3>2. CASE i # k + 1
      <4>1. i \in 0..k /\ (i # 0 => i - 1 \in 0..k)
        BY <3>2
      <4>2. f[i] = IF i = 0 THEN 0
                   ELSE IF i \in kept /\ (f[i - 1] = 0 \/ Far(i, f[i - 1])) THEN i ELSE f[i - 1]
        BY <2>1, <4>1 DEF Latest
      <4>. QED BY <2>2, <4>1, <4>2
    <3>. QED BY <3>1, <3>2
  <2>6. Latest(g, kept, k + 1)
    BY <2>4, <2>5 DEF Latest
  <2>. QED BY <2>6
<1>3. SUFFICES ASSUME n \notin Reached PROVE FALSE
  OBVIOUS
<1>. DEFINE T == Nat \ Reached
<1>4. PICK m \in T : \A k \in T : m <= k
  <2>1. T # {} /\ T \subseteq Nat
    BY <1>3
  <2>. HIDE DEF T
  <2>. QED BY <2>1, LeastNatural
<1>. HIDE DEF Reached
<1>5. m \in Nat /\ m # 0
  BY <1>1, <1>4
<1>6. m - 1 \in Nat /\ m - 1 \notin T
  BY <1>4, <1>5
<1>7. m - 1 + 1 = m
  BY <1>5
<1>. QED BY <1>2, <1>4, <1>6, <1>7

LEMMA LastKeptSteps ==
  ASSUME PastInv, NEW kept
  PROVE  /\ LastKept(kept)[0] = 0
         /\ \A i \in DOMAIN history :
              LastKept(kept)[i] =
                IF i \in kept /\ (LastKept(kept)[i - 1] = 0 \/ Far(i, LastKept(kept)[i - 1]))
                THEN i ELSE LastKept(kept)[i - 1]
<1>. DEFINE n == Len(history)
<1>1. n \in Nat /\ DOMAIN history = 1..n
  BY DEF PastInv
<1>2. LastKept(kept) = CHOOSE f : Latest(f, kept, n)
  BY DEF LastKept, Latest
<1>3. PICK L : L = LastKept(kept)
  OBVIOUS
<1>. HIDE DEF n
<1>4. Latest(L, kept, n)
  BY <1>1, <1>2, <1>3, LatestExists
<1>5. \A i \in 0..n : L[i] = IF i = 0 THEN 0
                             ELSE IF i \in kept /\ (L[i - 1] = 0 \/ Far(i, L[i - 1]))
                                  THEN i ELSE L[i - 1]
  BY <1>4 DEF Latest
<1>6. L[0] = 0
  BY <1>1, <1>5
<1>7. \A i \in DOMAIN history :
        L[i] = IF i \in kept /\ (L[i - 1] = 0 \/ Far(i, L[i - 1])) THEN i ELSE L[i - 1]
  <2>1. \A i \in DOMAIN history : i \in 0..n /\ i # 0
    BY <1>1
  <2>. QED BY <1>5, <2>1
<1>. QED BY <1>3, <1>6, <1>7

\* The row kept last is one of the rows, at or before the place, and a sample.
LEMMA LastKeptIsSample ==
  ASSUME PastInv, NEW kept \in SUBSET DOMAIN history
  PROVE  \A i \in 0..Len(history) :
           /\ LastKept(kept)[i] \in 0..i
           /\ LastKept(kept)[i] # 0 => LastKept(kept)[i] \in Samples(kept)
<1>1. Len(history) \in Nat /\ DOMAIN history = 1..Len(history)
  BY DEF PastInv
<1>2. PICK L : L = LastKept(kept)
  OBVIOUS
<1>3. /\ L[0] = 0
      /\ \A i \in 1..Len(history) :
           L[i] = IF i \in kept /\ (L[i - 1] = 0 \/ Far(i, L[i - 1])) THEN i ELSE L[i - 1]
  BY <1>1, <1>2, LastKeptSteps
<1>. DEFINE Holds(i) == L[i] \in 0..i /\ (L[i] # 0 => L[i] \in kept /\ L[L[i]] = L[i])
            Bad == {i \in 0..Len(history) : ~Holds(i)}
<1>4. Bad = {}
  <2>1. SUFFICES ASSUME Bad # {} PROVE FALSE
    OBVIOUS
  <2>2. PICK i \in Bad : \A j \in Bad : i <= j
    <3>1. Bad \subseteq Nat
      BY <1>1
    <3>. HIDE DEF Bad
    <3>. QED BY <2>1, <3>1, LeastNatural
  <2>3. i \in 0..Len(history) /\ ~Holds(i)
    BY <2>2
  <2>4. i # 0
    BY <1>3, <2>3
  <2>5. i - 1 \in 0..Len(history) /\ i \in 1..Len(history) /\ i - 1 < i
    BY <1>1, <2>3, <2>4
  <2>6. Holds(i - 1)
    BY <2>2, <2>5
  <2>7. CASE L[i] = i
    <3>1. i \in kept
      BY <1>3, <2>5, <2>6, <2>7
    <3>. QED BY <2>3, <2>5, <2>7, <3>1
  <2>8. CASE L[i] = L[i - 1]
    <3>1. L[i] \in 0..i
      BY <2>5, <2>6, <2>8
    <3>. QED BY <2>3, <2>6, <2>8, <3>1
  <2>. QED BY <1>3, <2>5, <2>7, <2>8
<1>. QED BY <1>2, <1>4 DEF Samples

LEMMA LastKeptGrows ==
  ASSUME PastInv, NEW kept \in SUBSET DOMAIN history, NEW i \in 0..Len(history)
  PROVE  \A j \in 0..Len(history) : i <= j => LastKept(kept)[i] <= LastKept(kept)[j]
<1>1. Len(history) \in Nat /\ DOMAIN history = 1..Len(history)
  BY DEF PastInv
<1>2. PICK L : L = LastKept(kept)
  OBVIOUS
<1>3. /\ \A j \in 0..Len(history) : L[j] \in 0..j
      /\ \A j \in 1..Len(history) : L[j] = j \/ L[j] = L[j - 1]
  BY <1>1, <1>2, LastKeptSteps, LastKeptIsSample
<1>. DEFINE Bad == {j \in 0..Len(history) : i <= j /\ ~(L[i] <= L[j])}
<1>4. Bad = {}
  <2>1. SUFFICES ASSUME Bad # {} PROVE FALSE
    OBVIOUS
  <2>2. PICK j \in Bad : \A k \in Bad : j <= k
    <3>1. Bad \subseteq Nat
      BY <1>1
    <3>. HIDE DEF Bad
    <3>. QED BY <2>1, <3>1, LeastNatural
  <2>3. j \in 0..Len(history) /\ i <= j /\ ~(L[i] <= L[j])
    BY <2>2
  <2>4. j # i /\ L[i] \in Nat /\ L[i] <= i
    BY <1>3, <2>3
  <2>5. j - 1 \in 0..Len(history) /\ j \in 1..Len(history) /\ i <= j - 1 /\ j - 1 < j
    BY <1>1, <2>3, <2>4
  <2>6. L[i] <= L[j - 1]
    BY <2>2, <2>5
  <2>7. L[j] = L[j - 1] \/ L[j] = j
    BY <1>3, <2>5
  <2>. QED BY <2>3, <2>4, <2>5, <2>6, <2>7
<1>. QED BY <1>2, <1>4

\* Rows farther back are as far away, or farther.
LEMMA FarFromEarlier ==
  ASSUME PastInv, NEW i \in DOMAIN history, NEW j \in DOMAIN history, NEW k \in DOMAIN history,
         i <= j, Far(k, j)
  PROVE  Far(k, i)
<1>1. /\ history[i].at \in Nat /\ history[j].at \in Nat /\ history[k].at \in Nat
      /\ history[i].at <= history[j].at
  BY RowsAreTimed DEF PastInv
<1>2. Thresholds.history_min_gap \in Nat
  BY BehaviorAssumption
<1>. QED BY <1>1, <1>2 DEF Far

\* The samples are a gap apart.
LEMMA SamplesAreApart ==
  ASSUME PastInv, NEW kept \in SUBSET DOMAIN history
  PROVE  Apart(Samples(kept))
<1>1. Len(history) \in Nat /\ DOMAIN history = 1..Len(history)
  BY DEF PastInv
<1>2. PICK L : L = LastKept(kept)
  OBVIOUS
<1>. SUFFICES ASSUME NEW i \in Samples(kept), NEW j \in Samples(kept), i < j
              PROVE  Far(j, i)
  BY DEF Apart
<1>3. i \in 1..Len(history) /\ j \in 1..Len(history) /\ L[i] = i /\ L[j] = j
  BY <1>1, <1>2 DEF Samples
<1>4. j - 1 \in 0..Len(history) /\ i <= j - 1 /\ i \in 0..Len(history)
  BY <1>1, <1>3
<1>5. i <= L[j - 1] /\ L[j - 1] \in 0..(j - 1)
  BY <1>2, <1>3, <1>4, LastKeptGrows, LastKeptIsSample
<1>6. L[j - 1] # 0 /\ L[j - 1] # j /\ L[j - 1] \in DOMAIN history
  BY <1>1, <1>3, <1>4, <1>5
<1>7. Far(j, L[j - 1])
  <2>1. L[j] = IF j \in kept /\ (L[j - 1] = 0 \/ Far(j, L[j - 1])) THEN j ELSE L[j - 1]
    BY <1>1, <1>2, <1>3, LastKeptSteps
  <2>. QED BY <1>3, <1>6, <2>1
<1>. QED BY <1>1, <1>3, <1>5, <1>6, <1>7, FarFromEarlier

\* Each row of a choice has a sample of its own: the last at or before it.
LEMMA NoneIsLarger ==
  ASSUME PastInv, NEW kept \in SUBSET DOMAIN history, NEW chosen \in SUBSET kept, Apart(chosen)
  PROVE  Cardinality(chosen) <= Cardinality(Samples(kept))
<1>1. Len(history) \in Nat /\ DOMAIN history = 1..Len(history)
  BY DEF PastInv
<1>2. PICK L : L = LastKept(kept)
  OBVIOUS
<1>. DEFINE f == [c \in chosen |-> L[c]]
<1>3. \A c \in chosen : /\ c \in kept /\ c \in 1..Len(history) /\ c \in 0..Len(history)
                        /\ c - 1 \in 0..Len(history) /\ c - 1 < c
  BY <1>1
<1>4. ASSUME NEW c \in chosen
      PROVE  L[c] \in 1..c /\ L[c] \in Samples(kept)
  <2>1. L[c] = IF c \in kept /\ (L[c - 1] = 0 \/ Far(c, L[c - 1])) THEN c ELSE L[c - 1]
    BY <1>1, <1>2, <1>3, LastKeptSteps
  <2>2. L[c] # 0
    BY <1>3, <2>1
  <2>. QED BY <1>2, <1>3, <2>2, LastKeptIsSample
<1>5. ASSUME NEW c \in chosen, NEW d \in chosen, c < d, L[c] = L[d] PROVE FALSE
  <2>1. c <= d - 1
    BY <1>3, <1>5
  <2>2. L[c] <= L[d - 1] /\ L[d - 1] <= L[d] /\ L[d - 1] \in 0..(d - 1)
    BY <1>2, <1>3, <2>1, LastKeptGrows, LastKeptIsSample
  <2>3. L[c] \in 1..c /\ L[d - 1] = L[c]
    BY <1>4, <1>5, <2>2
  <2>4. L[d] = IF d \in kept /\ (L[d - 1] = 0 \/ Far(d, L[d - 1])) THEN d ELSE L[d - 1]
    BY <1>1, <1>2, <1>3, LastKeptSteps
  <2>5. L[d] # d /\ L[c] # 0
    BY <1>3, <1>5, <2>3
  <2>6. ~Far(d, L[c])
    BY <1>3, <2>3, <2>4, <2>5
  <2>7. Far(d, c)
    BY <1>5 DEF Apart
  <2>8. L[c] \in DOMAIN history /\ c \in DOMAIN history /\ d \in DOMAIN history /\ L[c] <= c
    BY <1>1, <1>3, <2>3
  <2>. QED BY <2>6, <2>7, <2>8, FarFromEarlier
<1>6. f \in Injection(chosen, Samples(kept))
  <2>1. f \in [chosen -> Samples(kept)]
    BY <1>4
  <2>2. ASSUME NEW c \in chosen, NEW d \in chosen, f[c] = f[d] PROVE c = d
    <3>1. L[c] = L[d] /\ c \in Nat /\ d \in Nat
      BY <1>3, <2>2
    <3>2. ~(c < d) /\ ~(d < c)
      BY <1>5, <3>1
    <3>. QED BY <3>1, <3>2
  <2>. QED BY <2>1, <2>2 DEF Injection, IsInjective
<1>7. IsFiniteSet(Samples(kept))
  <2>1. IsFiniteSet(DOMAIN history)
    BY <1>1, FS_Interval
  <2>2. Samples(kept) \subseteq DOMAIN history
    BY DEF Samples
  <2>. QED BY <2>1, <2>2, NoMoreInPart
<1>. HIDE DEF f
<1>. QED BY <1>6, <1>7, FS_Injection

\* However a user's reconnects are spread, no choice of rows a gap apart is larger
\* than the samples (behavioral_analyzers.py:114).
THEOREM SamplesAreAlwaysMost == PastSpec => []SamplesAreMost
<1>1. PastInv => SamplesAreMost
  <2>1. \A u : RecentRows(u) \in SUBSET DOMAIN history
    BY DEF RecentRows, RowsOf
  <2>. QED BY <2>1, SamplesAreApart, NoneIsLarger DEF SamplesAreMost
<1>. QED BY <1>1, PastInvInit, PastInvNext, PTL DEF PastSpec
=============================================================================
