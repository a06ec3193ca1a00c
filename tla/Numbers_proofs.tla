--------------------------- MODULE Numbers_proofs ---------------------------
(***************************************************************************)
(* Facts about natural numbers that several proofs rest on: induction, as  *)
(* the existence of a least counterexample, what a quotient rounds away,   *)
(* sums over finite sets, and that recursive functions exist.              *)
(***************************************************************************)
EXTENDS Integers, Functions, FiniteSetTheorems, WellFoundedInduction, TLAPS

(* A set of numbers has a least one.                                       *)
LEMMA Least ==
  ASSUME NEW S \in SUBSET Nat, S # {}
  PROVE  \E m \in S : \A k \in S : m <= k
<1> DEFINE R == {ss \in Nat \X Nat : ss[1] < ss[2]}
<1>1. IsWellFoundedOn(R, Nat) BY NatLessThanWellFounded DEF OpToRel
<1> HIDE DEF R
<1>2. PICK m \in S : \A k \in S : ~(<<k, m>> \in R) BY <1>1, WFMin
<1>3. \A k \in S : m <= k
  <2>1. SUFFICES ASSUME NEW k \in S PROVE m <= k OBVIOUS
  <2>2. ~(k < m) BY <1>2 DEF R
  <2>3. QED BY <2>2
<1>4. QED BY <1>3

LEMMA FirstNumbers ==
  ASSUME NEW n \in Nat
  PROVE  IsFiniteSet(1..n) /\ Cardinality(1..n) = n
<1>1. IsFiniteSet(1..n) /\ Cardinality(1..n) = IF 1 > n THEN 0 ELSE n - 1 + 1
  BY FS_Interval
<1>2. QED BY <1>1

(* A product grows with its factors.                                       *)
LEMMA TimesMonotone ==
  ASSUME NEW a \in Int, NEW b \in Int, NEW m \in Nat, a <= b
  PROVE  a * m <= b * m
<1>1. (b - a) * m >= 0 OBVIOUS
<1>2. b * m = a * m + (b - a) * m OBVIOUS
<1>3. a * m \in Int /\ (b - a) * m \in Int OBVIOUS
<1>4. QED BY <1>1, <1>2, <1>3

LEMMA QuotientBounds ==
  ASSUME NEW x \in Nat, NEW m \in Nat \ {0}
  PROVE  x \div m \in Nat /\ (x \div m) * m <= x /\ x < (x \div m + 1) * m
OBVIOUS

LEMMA QuotientUnique ==
  ASSUME NEW x \in Nat, NEW m \in Nat \ {0}, NEW k \in Int, k * m <= x, x < (k + 1) * m
  PROVE  x \div m = k
<1> DEFINE q == x \div m
<1>1. q \in Nat /\ q * m <= x /\ x < (q + 1) * m BY QuotientBounds
<1> HIDE DEF q
<1>2. q * m \in Int /\ (q + 1) * m \in Int /\ k * m \in Int /\ (k + 1) * m \in Int BY <1>1
<1>3. CASE k + 1 <= q
  <2>1. (k + 1) * m <= q * m BY <1>1, <1>3, TimesMonotone
  <2>2. QED BY <1>1, <1>2, <2>1
<1>4. CASE q + 1 <= k
  <2>1. (q + 1) * m <= k * m BY <1>1, <1>4, TimesMonotone
  <2>2. QED BY <1>1, <1>2, <2>1
<1>5. QED BY <1>1, <1>3, <1>4 DEF q

-----------------------------------------------------------------------------
(* A set of subsets of a finite set has one that is a smallest.            *)
LEMMA SmallestSubset ==
  ASSUME NEW S, IsFiniteSet(S), NEW B \in SUBSET (SUBSET S), B # {}
  PROVE  \E s \in B : \A x \in s : s \ {x} \notin B
<1>1. B \subseteq FiniteSubsetsOf(S) BY FS_Subset DEF FiniteSubsetsOf
<1>2. IsWellFoundedOn(StrictSubsetOrdering(S), FiniteSubsetsOf(S))
  BY FS_StrictSubsetOrderingWellFounded
<1>3. PICK s \in B : \A t \in B : ~(<<t, s>> \in StrictSubsetOrdering(S))
  BY <1>1, <1>2, WFMin
<1>4. \A x \in s : s \ {x} \notin B
  <2>1. SUFFICES ASSUME NEW x \in s, s \ {x} \in B PROVE FALSE OBVIOUS
  <2>2. <<s \ {x}, s>> \in StrictSubsetOrdering(S) BY <2>1, <1>3 DEF StrictSubsetOrdering
  <2>3. QED BY <1>3, <2>1, <2>2
<1>5. QED BY <1>4

First(s) == CHOOSE x \in s : TRUE

(* h is the recursive function that a sum over S is the value of.          *)
IsSum(h, f, S) ==
  h = [s \in SUBSET S |-> IF s = {} THEN 0 ELSE f[First(s)] + h[s \ {First(s)}]]

LEMMA SumUnfolded ==
  ASSUME NEW f, NEW S
  PROVE  SumFunctionOnSet(f, S) = (CHOOSE h : IsSum(h, f, S))[S]
BY DEF SumFunctionOnSet, FoldFunctionOnSet, MapThenFoldSet, IsSum, First

LEMMA FirstIn == \A s : s # {} => First(s) \in s
BY DEF First

LEMMA SumUnique ==
  ASSUME NEW S, IsFiniteSet(S), NEW T, NEW f, NEW g, NEW h,
         IsSum(g, f, S), IsSum(h, f, T), NEW u \in SUBSET (S \cap T)
  PROVE  g[u] = h[u]
<1> DEFINE B == {s \in SUBSET (S \cap T) : g[s] # h[s]}
<1>1. SUFFICES ASSUME B # {} PROVE FALSE OBVIOUS
<1>2. PICK s \in B : \A x \in s : s \ {x} \notin B BY <1>1, SmallestSubset, FS_Subset
<1>3. s \in SUBSET S /\ s \in SUBSET T /\ s # {} => First(s) \in s BY <1>2, FirstIn
<1>4. g[s] = IF s = {} THEN 0 ELSE f[First(s)] + g[s \ {First(s)}] BY <1>3 DEF IsSum
<1>5. h[s] = IF s = {} THEN 0 ELSE f[First(s)] + h[s \ {First(s)}] BY <1>3 DEF IsSum
<1>6. QED BY <1>2, <1>3, <1>4, <1>5

(* The function exists, built up from the subsets of every size.           *)
LEMMA SumExists ==
  ASSUME NEW S, IsFiniteSet(S), NEW f
  PROVE  \E h : IsSum(h, f, S)
<1> DEFINE Below(k) == {s \in SUBSET S : Cardinality(s) <= k}
           Value(h, s) == IF s = {} THEN 0 ELSE f[First(s)] + h[s \ {First(s)}]
           Run(h, k) == h = [s \in Below(k) |-> Value(h, s)]
           n == Cardinality(S)
<1>1. n \in Nat /\ \A s \in SUBSET S : IsFiniteSet(s) /\ Cardinality(s) \in 0..n
  BY FS_Subset, FS_CardinalityType
<1>2. \A s \in SUBSET S : s # {} => /\ First(s) \in s
                                    /\ Cardinality(s \ {First(s)}) = Cardinality(s) - 1
  BY <1>1, FirstIn, FS_RemoveElement
<1> HIDE DEF Run
<1>3. \A k \in 0..n : \E h : Run(h, k)
  <2> DEFINE Bad == {k \in 0..n : \A h : ~Run(h, k)}
  <2>1. SUFFICES ASSUME Bad # {} PROVE FALSE OBVIOUS
  <2>2. Bad \in SUBSET Nat BY <1>1
  <2>3. PICK m \in Bad : \A k \in Bad : m <= k BY <2>1, <2>2, Least
  <2>4. m \in 0..n /\ \A h : ~Run(h, m) BY <2>3
  <2>5. CASE m = 0
    <3> DEFINE h == [s \in Below(0) |-> 0]
    <3>1. \A s \in Below(0) : s = {}
      <4>1. SUFFICES ASSUME NEW s \in Below(0) PROVE s = {} OBVIOUS
      <4>2. Cardinality(s) = 0 BY <1>1
      <4>3. QED BY <1>1, <4>2, FS_EmptySet
    <3>2. Run(h, 0) BY <3>1 DEF Run
    <3>3. QED BY <2>4, <2>5, <3>2
  <2>6. CASE m # 0
    <3>1. m - 1 \in 0..n /\ ~(m <= m - 1) BY <1>1, <2>4, <2>6
    <3>2. PICK h : Run(h, m - 1) BY <2>3, <3>1
    <3> DEFINE g == [s \in Below(m) |-> Value(h, s)]
    <3>3. \A s \in Below(m-1) : s \in Below(m) /\ h[s] = Value(h, s)
      <4>1. \A s \in Below(m-1) : s \in Below(m) BY <1>1, <2>4
      <4>2. \A s \in Below(m-1) : h[s] = Value(h, s) BY <3>2 DEF Run
      <4>3. QED BY <4>1, <4>2
    <3>4. \A s \in Below(m) : s # {} => s \ {First(s)} \in Below(m-1)
      BY <1>1, <1>2, <2>4
    <3>5. \A s \in Below(m) : Value(g, s) = Value(h, s) BY <3>3, <3>4
    <3>6. Run(g, m) BY <3>5 DEF Run
    <3>7. QED BY <2>4, <3>6
  <2>7. QED BY <2>5, <2>6
<1>4. Below(n) = SUBSET S BY <1>1
<1>5. PICK h : Run(h, n) BY <1>1, <1>3
<1>6. IsSum(h, f, S) BY <1>4, <1>5 DEF IsSum, Run
<1>7. QED BY <1>6

LEMMA SumEmpty == \A f : SumFunctionOnSet(f, {}) = 0
<1>1. SUFFICES ASSUME NEW f PROVE SumFunctionOnSet(f, {}) = 0 OBVIOUS
<1> DEFINE it == CHOOSE h : IsSum(h, f, {})
<1>2. IsFiniteSet({}) BY FS_EmptySet
<1>3. \E h : IsSum(h, f, {}) BY <1>2, SumExists
<1>4. IsSum(it, f, {}) BY <1>3
<1>5. it[{}] = 0 BY <1>4 DEF IsSum
<1>6. QED BY <1>5, SumUnfolded

(* A sum is its first element and the sum of the others.                   *)
LEMMA SumFirst ==
  ASSUME NEW f, NEW S, IsFiniteSet(S), S # {}
  PROVE  SumFunctionOnSet(f, S) = f[First(S)] + SumFunctionOnSet(f, S \ {First(S)})
<1> DEFINE T == S \ {First(S)}
           it(U) == CHOOSE h : IsSum(h, f, U)
<1>1. IsFiniteSet(T) /\ T \in SUBSET S BY FS_Subset
<1> HIDE DEF T
<1>2. (\E h : IsSum(h, f, S)) /\ (\E h : IsSum(h, f, T)) BY <1>1, SumExists
<1>3. IsSum(it(S), f, S) BY <1>2
<1>4. IsSum(it(T), f, T) BY <1>2
<1>5. SumFunctionOnSet(f, S) = it(S)[S] /\ SumFunctionOnSet(f, T) = it(T)[T] BY SumUnfolded
<1> HIDE DEF it
<1>6. it(S)[S] = f[First(S)] + it(S)[T] BY <1>3 DEF IsSum, T
<1>7. it(S)[T] = it(T)[T] BY <1>1, <1>3, <1>4, SumUnique
<1>8. QED BY <1>5, <1>6, <1>7 DEF T

LEMMA SumType ==
  ASSUME NEW f, NEW S, IsFiniteSet(S), \A x \in S : f[x] \in Int
  PROVE  /\ SumFunctionOnSet(f, S) \in Int
         /\ (\A x \in S : f[x] \in Nat) => SumFunctionOnSet(f, S) \in Nat
<1> DEFINE Ok(s) == /\ SumFunctionOnSet(f, s) \in Int
                    /\ (\A x \in S : f[x] \in Nat) => SumFunctionOnSet(f, s) \in Nat
           B == {s \in SUBSET S : ~Ok(s)}
<1>1. SUFFICES ASSUME B # {} PROVE FALSE OBVIOUS
<1>2. PICK s \in B : \A x \in s : s \ {x} \notin B BY <1>1, SmallestSubset
<1>3. s # {} BY <1>2, SumEmpty
<1>4. IsFiniteSet(s) /\ s \in SUBSET S BY <1>2, FS_Subset
<1>5. First(s) \in s BY <1>3, FirstIn
<1>6. Ok(s \ {First(s)}) BY <1>2, <1>4, <1>5
<1>7. SumFunctionOnSet(f, s) = f[First(s)] + SumFunctionOnSet(f, s \ {First(s)})
  BY <1>3, <1>4, SumFirst
<1>8. QED BY <1>2, <1>4, <1>5, <1>6, <1>7

(* Any element may be the first.                                           *)
LEMMA SumRemove ==
  ASSUME NEW f, NEW S, IsFiniteSet(S), \A x \in S : f[x] \in Int, NEW a \in S
  PROVE  SumFunctionOnSet(f, S) = f[a] + SumFunctionOnSet(f, S \ {a})
<1> DEFINE Ok(s) == \A y \in s : SumFunctionOnSet(f, s) = f[y] + SumFunctionOnSet(f, s \ {y})
           B == {s \in SUBSET S : ~Ok(s)}
<1>1. SUFFICES ASSUME B # {} PROVE FALSE OBVIOUS
<1>2. PICK s \in B : \A x \in s : s \ {x} \notin B BY <1>1, SmallestSubset
<1>3. PICK y \in s : SumFunctionOnSet(f, s) # f[y] + SumFunctionOnSet(f, s \ {y}) BY <1>2
<1> DEFINE x == First(s)  r == s \ {x, y}
<1>4. /\ IsFiniteSet(s) /\ s \in SUBSET S /\ x \in s
      /\ s \ {x} \in SUBSET S /\ s \ {y} \in SUBSET S
      /\ IsFiniteSet(r) /\ r \in SUBSET S
  BY <1>2, <1>3, FirstIn, FS_Subset
<1>5. SumFunctionOnSet(f, s) = f[x] + SumFunctionOnSet(f, s \ {x}) BY <1>3, <1>4, SumFirst
<1>6. x # y BY <1>3, <1>5
<1> HIDE DEF x
<1>7. Ok(s \ {x}) /\ Ok(s \ {y}) BY <1>2, <1>3, <1>4
<1>8. y \in s \ {x} /\ x \in s \ {y} /\ (s \ {x}) \ {y} = r /\ (s \ {y}) \ {x} = r
  BY <1>3, <1>4, <1>6
<1>9. /\ SumFunctionOnSet(f, s \ {x}) = f[y] + SumFunctionOnSet(f, r)
      /\ SumFunctionOnSet(f, s \ {y}) = f[x] + SumFunctionOnSet(f, r)
  BY <1>7, <1>8
<1>10. SumFunctionOnSet(f, r) \in Int BY <1>4, SumType
<1>11. f[x] \in Int /\ f[y] \in Int BY <1>3, <1>4
<1>12. QED BY <1>3, <1>5, <1>9, <1>10, <1>11

LEMMA SumSame ==
  ASSUME NEW f, NEW g, NEW S, IsFiniteSet(S), \A x \in S : f[x] = g[x]
  PROVE  SumFunctionOnSet(f, S) = SumFunctionOnSet(g, S)
<1> DEFINE B == {s \in SUBSET S : SumFunctionOnSet(f, s) # SumFunctionOnSet(g, s)}
<1>1. SUFFICES ASSUME B # {} PROVE FALSE OBVIOUS
<1>2. PICK s \in B : \A x \in s : s \ {x} \notin B BY <1>1, SmallestSubset
<1>3. s # {} BY <1>2, SumEmpty
<1>4. IsFiniteSet(s) /\ s \in SUBSET S /\ First(s) \in s BY <1>2, <1>3, FirstIn, FS_Subset
<1>5. SumFunctionOnSet(f, s \ {First(s)}) = SumFunctionOnSet(g, s \ {First(s)}) BY <1>2, <1>4
<1>6. QED BY <1>2, <1>3, <1>4, <1>5, SumFirst

(* The sum of the first numbers is that of those before the last, and it.  *)
LEMMA SumLast ==
  ASSUME NEW l, NEW i \in Nat \ {0}, \A k \in 1..i : l[k] \in Int
  PROVE  SumFunctionOnSet(l, 1..i) = l[i] + SumFunctionOnSet(l, 1..i-1)
<1> DEFINE T == 1..i
<1>1. IsFiniteSet(T) /\ i \in T /\ T \ {i} = 1..i-1 BY FirstNumbers
<1>2. \A k \in T : l[k] \in Int OBVIOUS
<1> HIDE DEF T
<1>3. SumFunctionOnSet(l, T) = l[i] + SumFunctionOnSet(l, T \ {i}) BY <1>1, <1>2, SumRemove
<1>4. SumFunctionOnSet(l, T) = l[i] + SumFunctionOnSet(l, 1..i-1) BY <1>1, <1>3
<1>5. QED BY <1>4 DEF T

(* One summand changes.                                                    *)
LEMMA SumChange ==
  ASSUME NEW f, NEW g, NEW S, IsFiniteSet(S), NEW a \in S,
         \A x \in S : f[x] \in Int /\ g[x] \in Int,
         \A x \in S \ {a} : g[x] = f[x]
  PROVE  SumFunctionOnSet(g, S) = SumFunctionOnSet(f, S) + (g[a] - f[a])
<1> DEFINE T == S \ {a}
<1>1. IsFiniteSet(T) /\ T \in SUBSET S BY FS_Subset
<1>2. SumFunctionOnSet(g, T) = SumFunctionOnSet(f, T) BY <1>1, SumSame
<1>3. SumFunctionOnSet(f, S) = f[a] + SumFunctionOnSet(f, T) BY SumRemove
<1>4. SumFunctionOnSet(g, S) = g[a] + SumFunctionOnSet(g, T) BY SumRemove
<1>5. SumFunctionOnSet(f, T) \in Int BY <1>1, SumType
<1>6. QED BY <1>2, <1>3, <1>4, <1>5

LEMMA SumZero ==
  ASSUME NEW f, NEW S, IsFiniteSet(S), \A x \in S : f[x] = 0
  PROVE  SumFunctionOnSet(f, S) = 0
<1> DEFINE B == {s \in SUBSET S : SumFunctionOnSet(f, s) # 0}
<1>1. SUFFICES ASSUME B # {} PROVE FALSE OBVIOUS
<1>2. PICK s \in B : \A x \in s : s \ {x} \notin B BY <1>1, SmallestSubset
<1>3. s # {} BY <1>2, SumEmpty
<1>4. IsFiniteSet(s) /\ s \in SUBSET S /\ First(s) \in s BY <1>2, <1>3, FirstIn, FS_Subset
<1>5. SumFunctionOnSet(f, s \ {First(s)}) = 0 BY <1>2, <1>4
<1>6. QED BY <1>2, <1>3, <1>4, <1>5, SumFirst

(* A part of natural numbers adds up to no more than all of them.          *)
LEMMA SumOfSubset ==
  ASSUME NEW f, NEW S, IsFiniteSet(S), \A x \in S : f[x] \in Nat, NEW U \in SUBSET S
  PROVE  SumFunctionOnSet(f, U) <= SumFunctionOnSet(f, S)
<1> DEFINE Ok(s) == SumFunctionOnSet(f, s \cap U) <= SumFunctionOnSet(f, s)
           B == {s \in SUBSET S : ~Ok(s)}
<1>1. SUFFICES ASSUME B # {} PROVE FALSE
  <2>1. S \cap U = U OBVIOUS
  <2>2. QED BY <2>1
<1>2. PICK s \in B : \A x \in s : s \ {x} \notin B BY <1>1, SmallestSubset
<1>3. IsFiniteSet(s) /\ IsFiniteSet(s \cap U) /\ s \in SUBSET S BY <1>2, FS_Subset
<1>4. s # {} BY <1>2, SumEmpty
<1>5. PICK a \in s : TRUE BY <1>4
<1> DEFINE t == s \ {a}
<1>6. IsFiniteSet(t) /\ IsFiniteSet(t \cap U) /\ t \in SUBSET S BY <1>3, FS_Subset
<1>7. Ok(t) BY <1>2, <1>6
<1>8. SumFunctionOnSet(f, s) = f[a] + SumFunctionOnSet(f, t) BY <1>3, SumRemove
<1>9. SumFunctionOnSet(f, t) \in Nat /\ SumFunctionOnSet(f, t \cap U) \in Nat /\ f[a] \in Nat
  BY <1>3, <1>6, SumType
<1>10. CASE a \in U
  <2>1. (s \cap U) \ {a} = t \cap U OBVIOUS
  <2>2. SumFunctionOnSet(f, s \cap U) = f[a] + SumFunctionOnSet(f, t \cap U)
    BY <1>3, <1>10, <2>1, SumRemove
  <2>3. QED BY <1>2, <1>7, <1>8, <1>9, <2>2
<1>11. CASE a \notin U
  <2>1. s \cap U = t \cap U BY <1>11
  <2>2. SumFunctionOnSet(f, s \cap U) = SumFunctionOnSet(f, t \cap U) BY <2>1
  <2>3. Ok(s) BY <1>7, <1>8, <1>9, <2>2
  <2>4. QED BY <1>2, <2>3
<1>12. QED BY <1>10, <1>11

(* What is added up over a part, under other names, is at most the whole.  *)
LEMMA SumOfPart ==
  ASSUME NEW f, NEW S, IsFiniteSet(S), \A x \in S : f[x] \in Nat,
         NEW T, IsFiniteSet(T), NEW e \in [T -> S],
         \A x, y \in T : e[x] = e[y] => x = y,
         NEW g, \A x \in T : g[x] \in Int /\ g[x] <= f[e[x]]
  PROVE  SumFunctionOnSet(g, T) <= SumFunctionOnSet(f, S)
<1> DEFINE Image(t) == {e[x] : x \in t}
           Ok(t) == SumFunctionOnSet(g, t) <= SumFunctionOnSet(f, Image(t))
<1>1. Ok(T)
  <2> DEFINE B == {t \in SUBSET T : ~Ok(t)}
  <2>1. SUFFICES ASSUME B # {} PROVE FALSE OBVIOUS
  <2>2. PICK t \in B : \A x \in t : t \ {x} \notin B BY <2>1, SmallestSubset
  <2>3. t # {}
    <3>1. Image({}) = {} OBVIOUS
    <3>2. QED BY <2>2, <3>1, SumEmpty
  <2>4. PICK a \in t : TRUE BY <2>3
  <2>5. Ok(t \ {a}) BY <2>2
  <2>6. Image(t) \in SUBSET S /\ e[a] \in Image(t) /\ Image(t \ {a}) = Image(t) \ {e[a]}
    BY <2>2
  <2> HIDE DEF Image
  <2>7. /\ IsFiniteSet(t) /\ IsFiniteSet(t \ {a})
        /\ IsFiniteSet(Image(t)) /\ IsFiniteSet(Image(t) \ {e[a]})
    BY <2>2, <2>6, FS_Subset, FS_RemoveElement
  <2>8. SumFunctionOnSet(g, t) = g[a] + SumFunctionOnSet(g, t \ {a}) BY <2>2, <2>7, SumRemove
  <2>9. SumFunctionOnSet(f, Image(t)) = f[e[a]] + SumFunctionOnSet(f, Image(t) \ {e[a]})
    BY <2>6, <2>7, SumRemove
  <2>10. /\ SumFunctionOnSet(g, t \ {a}) \in Int
         /\ SumFunctionOnSet(f, Image(t) \ {e[a]}) \in Int
         /\ g[a] \in Int /\ f[e[a]] \in Int /\ g[a] <= f[e[a]]
    BY <2>2, <2>6, <2>7, SumType
  <2>11. SumFunctionOnSet(g, t \ {a}) <= SumFunctionOnSet(f, Image(t) \ {e[a]}) BY <2>5, <2>6
  <2>12. Ok(t) BY <2>8, <2>9, <2>10, <2>11
  <2>13. QED BY <2>2, <2>12
<1>2. SumFunctionOnSet(f, Image(T)) <= SumFunctionOnSet(f, S)
  <2>1. Image(T) \in SUBSET S OBVIOUS
  <2>2. QED BY <2>1, SumOfSubset
<1>3. SumFunctionOnSet(g, T) \in Int BY SumType
<1>4. SumFunctionOnSet(f, Image(T)) \in Int /\ SumFunctionOnSet(f, S) \in Int
  <2>1. Image(T) \in SUBSET S OBVIOUS
  <2> HIDE DEF Image
  <2>2. IsFiniteSet(Image(T)) BY <2>1, FS_Subset
  <2>3. QED BY <2>1, <2>2, SumType
<1> HIDE DEF Image
<1>5. QED BY <1>1, <1>2, <1>3, <1>4

-----------------------------------------------------------------------------
(* step[n] makes the value at n from that at p[n], a smaller number, or    *)
(* from nothing.                                                           *)
IsRecursion(D, V, p, step) ==
  /\ D \in SUBSET Nat /\ V # {} /\ p \in [D -> D] /\ step \in [D -> [V -> V]]
  /\ \A n \in D : p[n] < n \/ \A v, w \in V : step[n][v] = step[n][w]

IsSolution(f, D, V, p, step) ==
  f \in [D -> V] /\ \A n \in D : f[n] = step[n][f[p[n]]]

(* There is a function that a recursion on smaller numbers defines.        *)
LEMMA Recursion ==
  ASSUME NEW D, NEW V, NEW p, NEW step, IsRecursion(D, V, p, step)
  PROVE  \E f : IsSolution(f, D, V, p, step)
<1> USE DEF IsRecursion
<1>0. \A n \in D : n \in Nat /\ p[n] \in D /\ p[n] \in Nat OBVIOUS
<1> DEFINE Run(h, k) == h \in [D -> V] /\ \A n \in D : n < k => h[n] = step[n][h[p[n]]]
<1> HIDE DEF Run
<1>1. \A k \in Nat : \E h : Run(h, k)
  <2> DEFINE Bad == {k \in Nat : \A h : ~Run(h, k)}
  <2>1. SUFFICES ASSUME Bad # {} PROVE FALSE OBVIOUS
  <2>2. PICK k \in Bad : \A m \in Bad : k <= m BY <2>1, Least
  <2>3. PICK v \in V : TRUE OBVIOUS
  <2>4. k # 0
    <3>1. Run([n \in D |-> v], 0) BY <1>0 DEF Run
    <3>2. QED BY <2>2, <3>1
  <2>5. k - 1 \in Nat /\ ~(k <= k - 1) BY <2>2, <2>4
  <2>6. PICK h : Run(h, k - 1) BY <2>2, <2>5
  <2> DEFINE g == [n \in D |-> IF n = k - 1 THEN step[n][h[p[n]]] ELSE h[n]]
  <2>7. g \in [D -> V] BY <1>0, <2>6 DEF Run
  <2>8. ASSUME NEW n \in D, n < k PROVE g[n] = step[n][g[p[n]]]
    <3>1. g[n] = step[n][h[p[n]]]
      <4>1. CASE n = k - 1 BY <4>1
      <4>2. CASE n # k - 1
        <5>1. n < k - 1 BY <1>0, <2>2, <2>8, <4>2
        <5>2. QED BY <2>6, <4>2, <5>1 DEF Run
      <4>3. QED BY <4>1, <4>2
    <3>2. CASE p[n] < n
      <4>1. p[n] \in D /\ p[n] # k - 1 BY <1>0, <2>2, <2>8, <3>2
      <4>2. QED BY <3>1, <4>1
    <3>3. CASE \A v1, w \in V : step[n][v1] = step[n][w]
      <4>1. h[p[n]] \in V /\ g[p[n]] \in V BY <1>0, <2>6, <2>7 DEF Run
      <4>2. QED BY <3>1, <3>3, <4>1
    <3>4. QED BY <3>2, <3>3
  <2>9. Run(g, k) BY <2>7, <2>8 DEF Run
  <2>10. QED BY <2>2, <2>9
<1>2. ASSUME NEW k \in Nat, NEW m \in Nat, NEW g, NEW h, Run(g, k), Run(h, m),
             NEW n \in D, n < k, n < m
      PROVE  g[n] = h[n]
  <2> DEFINE Bad == {i \in D : i < k /\ i < m /\ g[i] # h[i]}
  <2>1. SUFFICES ASSUME Bad # {} PROVE FALSE BY <1>2
  <2>2. PICK i \in Bad : \A j \in Bad : i <= j BY <2>1, Least
  <2>3. g[i] = step[i][g[p[i]]] /\ h[i] = step[i][h[p[i]]] BY <1>2, <2>2 DEF Run
  <2>4. CASE p[i] < i
    <3>1. p[i] \in D /\ p[i] < k /\ p[i] < m /\ ~(i <= p[i]) BY <1>0, <1>2, <2>2, <2>4
    <3>2. g[p[i]] = h[p[i]] BY <2>2, <3>1
    <3>3. QED BY <2>2, <2>3, <3>2
  <2>5. CASE \A v, w \in V : step[i][v] = step[i][w]
    <3>1. g[p[i]] \in V /\ h[p[i]] \in V BY <1>0, <1>2, <2>2 DEF Run
    <3>2. QED BY <2>2, <2>3, <2>5, <3>1
  <2>6. QED BY <2>2, <2>4, <2>5
<1> DEFINE it(k) == CHOOSE h : Run(h, k)
           f == [n \in D |-> it(n + 1)[n]]
<1>3. \A k \in Nat : Run(it(k), k) BY <1>1
<1> HIDE DEF it
<1>4. f \in [D -> V] BY <1>3 DEF Run
<1>5. ASSUME NEW n \in D PROVE f[n] = step[n][f[p[n]]]
  <2>1. n \in Nat /\ n + 1 \in Nat /\ n < n + 1 /\ p[n] \in D /\ p[n] + 1 \in Nat
        /\ p[n] < p[n] + 1
    BY <1>0
  <2>2. it(n + 1)[n] = step[n][it(n + 1)[p[n]]] BY <1>3, <2>1 DEF Run
  <2>3. CASE p[n] < n
    <3>1. p[n] < n + 1 BY <1>0, <2>3
    <3>2. p[n] < p[n] + 1 /\ Run(it(n + 1), n + 1) /\ Run(it(p[n] + 1), p[n] + 1) BY <1>3, <2>1
    <3>3. \A k, m \in Nat : Run(it(k), k) /\ Run(it(m), m) =>
            \A i \in D : i < k /\ i < m => it(k)[i] = it(m)[i]
      BY <1>2
    <3>4. it(n + 1)[p[n]] = it(p[n] + 1)[p[n]] BY <2>1, <3>1, <3>2, <3>3
    <3>5. QED BY <2>1, <2>2, <3>4
  <2>4. CASE \A v, w \in V : step[n][v] = step[n][w]
    <3>1. it(n + 1)[p[n]] \in V /\ f[p[n]] \in V BY <1>3, <1>4, <2>1 DEF Run
    <3>2. QED BY <2>2, <2>4, <3>1
  <2>5. QED BY <2>3, <2>4
<1>6. QED BY <1>4, <1>5 DEF IsSolution
=============================================================================
