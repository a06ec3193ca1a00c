--------------------------- MODULE GlobalFee_proofs --------------------------
(***************************************************************************)
(* For any denominations, prices, nodes, transactions and proposals for    *)
(* the parameters: a node accepts what the rule of the fees allows, by way *)
(* of sorted lists of any length, binary searches and rounded amounts.     *)
(***************************************************************************)
EXTENDS GlobalFee, Numbers_proofs

-----------------------------------------------------------------------------
(* Sorting: the coins before coin i, and every place is taken once.        *)
Before(coins, i) == {j \in DOMAIN coins : coins[j].denom < coins[i].denom}

LEMMA CoinType ==
  ASSUME NEW coins \in Coins
  PROVE  /\ Len(coins) \in Nat /\ DOMAIN coins = 1..Len(coins)
         /\ \A i \in DOMAIN coins :
              /\ coins[i] \in [denom : Denom, amount : Nat]
              /\ coins[i].denom \in Denom /\ coins[i].denom \in Nat
              /\ coins[i].amount \in Nat
<1> DEFINE R == [denom : Denom, amount : Nat]
<1>1. coins \in Seq(R) BY DEF Coins
<1>2. Len(coins) \in Nat /\ DOMAIN coins = 1..Len(coins) BY <1>1
<1>3. \A i \in DOMAIN coins : coins[i] \in R
  <2> HIDE DEF R
  <2>1. QED BY <1>1, <1>2
<1>4. Denom \subseteq Nat BY FeeAssumption DEF FeeAssumption
<1>5. QED BY <1>2, <1>3, <1>4

LEMMA NoCoins ==
  ASSUME NEW coins \in Coins
  PROVE  /\ coins = <<>> <=> DOMAIN coins = {}
         /\ coins = <<>> <=> Len(coins) = 0
<1> DEFINE R == [denom : Denom, amount : Nat]
<1>1. coins \in Seq(R) BY DEF Coins
<1> HIDE DEF R
<1>2. coins = <<>> <=> Len(coins) = 0 BY <1>1
<1>3. Len(coins) = 0 <=> DOMAIN coins = {} BY CoinType
<1>4. QED BY <1>2, <1>3

LEMMA PlaceType ==
  ASSUME NEW coins \in Coins, NEW i \in DOMAIN coins
  PROVE  /\ IsFiniteSet(Before(coins, i))
         /\ Place(coins, i) = Cardinality(Before(coins, i)) + 1
         /\ Place(coins, i) \in 1..Len(coins)
<1> DEFINE n == Len(coins)
<1>1. n \in Nat /\ DOMAIN coins = 1..n BY CoinType
<1>2. IsFiniteSet(1..n) /\ Cardinality(1..n) = n BY <1>1, FirstNumbers
<1>3. IsFiniteSet(1..n \ {i}) /\ Cardinality(1..n \ {i}) = n - 1
  <2>1. i \in 1..n BY <1>1
  <2> HIDE DEF n
  <2>2. QED BY <1>2, <2>1, FS_RemoveElement
<1>4. coins[i].denom \in Nat BY CoinType
<1>5. Before(coins, i) \in SUBSET (1..n \ {i}) BY <1>1, <1>4 DEF Before
<1>6. IsFiniteSet(Before(coins, i)) /\ Cardinality(Before(coins, i)) <= n - 1
  BY <1>3, <1>5, FS_Subset
<1>7. Cardinality(Before(coins, i)) \in Nat BY <1>6, FS_CardinalityType
<1>8. Place(coins, i) = Cardinality(Before(coins, i)) + 1 BY DEF Place, Before
<1>9. QED BY <1>1, <1>6, <1>7, <1>8

LEMMA PlaceOrder ==
  ASSUME NEW coins \in Coins, NEW i \in DOMAIN coins, NEW j \in DOMAIN coins,
         coins[i].denom < coins[j].denom
  PROVE  Place(coins, i) < Place(coins, j)
<1> DEFINE A == Before(coins, i)
           B == Before(coins, j)
<1>1. /\ IsFiniteSet(A) /\ IsFiniteSet(B)
      /\ Place(coins, i) = Cardinality(A) + 1 /\ Place(coins, j) = Cardinality(B) + 1
  BY PlaceType
<1>2. A \subseteq B /\ i \in B /\ i \notin A BY CoinType DEF Before
<1> HIDE DEF A, B
<1>3. Cardinality(A) <= Cardinality(B) /\ Cardinality(B) # Cardinality(A)
  BY <1>1, <1>2, FS_Subset
<1>4. Cardinality(A) \in Nat /\ Cardinality(B) \in Nat BY <1>1, FS_CardinalityType
<1>5. QED BY <1>1, <1>3, <1>4

LEMMA EveryPlace ==
  ASSUME NEW coins \in Coins, Distinct(coins), NEW k \in DOMAIN coins
  PROVE  \E i \in DOMAIN coins : Place(coins, i) = k
<1> DEFINE S == 1..Len(coins)
           f == [i \in S |-> Place(coins, i)]
<1>1. DOMAIN coins = S /\ Len(coins) \in Nat BY CoinType
<1>2. f \in [S -> S] BY <1>1, PlaceType
<1>3. ASSUME NEW i \in S, NEW j \in S, f[i] = f[j] PROVE i = j
  <2>1. Place(coins, i) = Place(coins, j) BY <1>3
  <2>2. Place(coins, i) \in Int BY <1>1, PlaceType
  <2>3. ~(coins[i].denom < coins[j].denom) /\ ~(coins[j].denom < coins[i].denom)
    BY <1>1, <2>1, <2>2, PlaceOrder
  <2>4. coins[i].denom \in Nat /\ coins[j].denom \in Nat BY <1>1, CoinType
  <2>5. coins[i].denom = coins[j].denom BY <2>3, <2>4
  <2>6. QED BY <1>1, <2>5 DEF Distinct
<1>4. f \in Injection(S, S) BY <1>2, <1>3 DEF Injection, IsInjective
<1>5. IsFiniteSet(S) BY <1>1, FS_Interval
<1>6. f \in Surjection(S, S) BY <1>4, <1>5, FS_Injection
<1>7. QED BY <1>1, <1>6 DEF Surjection

(* Sorting keeps the coins and puts the denominations in their order.      *)
LEMMA SortCorrect ==
  ASSUME NEW coins \in Coins, Distinct(coins)
  PROVE  /\ Sort(coins) \in Coins /\ Ascending(Sort(coins))
         /\ Len(Sort(coins)) = Len(coins)
         /\ \A i \in DOMAIN coins : \E k \in DOMAIN Sort(coins) : Sort(coins)[k] = coins[i]
         /\ \A k \in DOMAIN Sort(coins) : \E i \in DOMAIN coins : Sort(coins)[k] = coins[i]
<1> DEFINE at(k) == CHOOSE i \in DOMAIN coins : Place(coins, i) = k
           s == Sort(coins)
<1>1. Len(coins) \in Nat /\ DOMAIN coins = 1..Len(coins) BY CoinType
<1>2. \A k \in DOMAIN coins : at(k) \in DOMAIN coins /\ Place(coins, at(k)) = k
  BY EveryPlace
<1>3. s = [k \in 1..Len(coins) |-> coins[at(k)]] BY <1>1 DEF Sort
<1> HIDE DEF at, s
<1>4. \A k \in 1..Len(coins) : s[k] = coins[at(k)] /\ s[k] \in [denom : Denom, amount : Nat]
  BY <1>1, <1>2, <1>3, CoinType
<1>5. s \in Seq([denom : Denom, amount : Nat]) /\ Len(s) = Len(coins)
  BY <1>1, <1>3, <1>4
<1>6. DOMAIN s = DOMAIN coins BY <1>1, <1>3
<1>7. Ascending(s)
  <2>1. SUFFICES ASSUME NEW k \in DOMAIN s, NEW l \in DOMAIN s, k < l
                 PROVE  s[k].denom < s[l].denom
    BY DEF Ascending
  <2>2. at(k) \in DOMAIN coins /\ at(l) \in DOMAIN coins
        /\ Place(coins, at(k)) < Place(coins, at(l))
    BY <1>2, <1>6, <2>1
  <2>3. coins[at(k)].denom \in Nat /\ coins[at(l)].denom \in Nat BY <2>2, CoinType
  <2>4. Place(coins, at(k)) \in Int /\ Place(coins, at(l)) \in Int BY <2>2, PlaceType
  <2>5. ~(coins[at(l)].denom < coins[at(k)].denom) BY <2>2, <2>4, PlaceOrder
  <2>6. coins[at(k)].denom # coins[at(l)].denom BY <2>2, <2>4 DEF Distinct
  <2>7. coins[at(k)].denom < coins[at(l)].denom BY <2>3, <2>5, <2>6
  <2>8. QED BY <1>1, <1>4, <1>6, <2>7
<1>8. \A i \in DOMAIN coins : \E k \in DOMAIN s : s[k] = coins[i]
  <2>1. SUFFICES ASSUME NEW i \in DOMAIN coins PROVE \E k \in DOMAIN s : s[k] = coins[i]
    OBVIOUS
  <2>2. Place(coins, i) \in DOMAIN s BY <1>1, <1>6, PlaceType
  <2> DEFINE k == Place(coins, i)
  <2>3. at(k) \in DOMAIN coins /\ Place(coins, at(k)) = k BY <1>2, <1>6, <2>2
  <2>4. Place(coins, i) \in Int BY <1>1, PlaceType
  <2>5. ~(coins[i].denom < coins[at(k)].denom) /\ ~(coins[at(k)].denom < coins[i].denom)
    BY <2>3, <2>4, PlaceOrder
  <2>6. coins[i].denom \in Nat /\ coins[at(k)].denom \in Nat BY <2>3, CoinType
  <2>7. at(k) = i BY <2>3, <2>5, <2>6 DEF Distinct
  <2>8. s[k] = coins[i] BY <1>1, <1>4, <1>6, <2>2, <2>7
  <2>9. QED BY <2>2, <2>8
<1>9. \A k \in DOMAIN s : \E i \in DOMAIN coins : s[k] = coins[i]
  BY <1>1, <1>2, <1>4, <1>6
<1>10. QED BY <1>5, <1>7, <1>8, <1>9 DEF s, Coins

-----------------------------------------------------------------------------
(* Searching: what one call of the search looks at, and the answer for a   *)
(* slice, the only place in it that has the denomination.                  *)
Slices(coins) == (1..Len(coins)+1) \X (0..Len(coins))

Look(h, coins, denom, s) ==
  LET lo == s[1]  hi == s[2]  mid == lo + (hi - lo + 1) \div 2 IN
  IF lo > hi THEN 0
  ELSE IF lo = hi THEN IF coins[lo].denom = denom THEN lo ELSE 0
  ELSE IF denom < coins[mid].denom THEN h[<<lo, mid - 1>>]
  ELSE IF denom = coins[mid].denom THEN mid
  ELSE h[<<mid + 1, hi>>]

IsSearch(h, coins, denom) == h = [s \in Slices(coins) |-> Look(h, coins, denom, s)]

At(coins, denom, lo, hi) == {i \in lo..hi : coins[i].denom = denom}

OneOf(places) == IF places = {} THEN 0 ELSE CHOOSE i \in places : TRUE
Answer(coins, denom, lo, hi) == OneOf(At(coins, denom, lo, hi))

LEMMA FindUnfolded ==
  ASSUME NEW coins, NEW denom
  PROVE  Find(coins, denom) = (CHOOSE h : IsSearch(h, coins, denom))[<<1, Len(coins)>>]
<1> DEFINE InSlice == CHOOSE h : IsSearch(h, coins, denom)
<1>1. Find(coins, denom) = InSlice[<<1, Len(coins)>>] BY DEF Find, IsSearch, Look, Slices
<1>2. QED BY <1>1

LEMMA OnlyAnswer ==
  ASSUME NEW coins \in Coins, Ascending(coins), NEW denom \in Nat,
         NEW lo \in 1..Len(coins)+1, NEW hi \in 0..Len(coins)
  PROVE  /\ \A i \in lo..hi : coins[i].denom = denom => Answer(coins, denom, lo, hi) = i
         /\ (\A i \in lo..hi : coins[i].denom # denom) => Answer(coins, denom, lo, hi) = 0
<1>1. Len(coins) \in Nat /\ DOMAIN coins = 1..Len(coins) BY CoinType
<1>2. \A i \in lo..hi : i \in DOMAIN coins /\ coins[i].denom \in Nat
  <2>1. \A i \in lo..hi : i \in DOMAIN coins BY <1>1
  <2>2. QED BY <2>1, CoinType
<1>3. ASSUME NEW i \in lo..hi, NEW j \in lo..hi, coins[i].denom = denom, coins[j].denom = denom
      PROVE  i = j
  <2>1. ~(i < j) /\ ~(j < i) BY <1>2, <1>3 DEF Ascending
  <2>2. QED BY <2>1
<1>4. ASSUME NEW i \in lo..hi, coins[i].denom = denom
      PROVE  Answer(coins, denom, lo, hi) = i
  <2> DEFINE A == At(coins, denom, lo, hi)
  <2>1. i \in A /\ \A j \in A : j = i BY <1>3, <1>4 DEF At
  <2> HIDE DEF A
  <2>2. (CHOOSE j \in A : TRUE) = i BY <2>1
  <2>3. QED BY <2>1, <2>2 DEF Answer, OneOf, A
<1>5. ASSUME \A i \in lo..hi : coins[i].denom # denom PROVE Answer(coins, denom, lo, hi) = 0
  BY <1>5 DEF Answer, OneOf, At
<1>6. QED BY <1>4, <1>5

(* One call is right when the calls it makes are right.                    *)
LEMMA LookCorrect ==
  ASSUME NEW coins \in Coins, Ascending(coins), NEW denom \in Nat, NEW h,
         NEW lo \in 1..Len(coins)+1, NEW hi \in 0..Len(coins),
         \A l \in 1..Len(coins)+1, k \in 0..Len(coins) :
           k - l < hi - lo => h[<<l, k>>] = Answer(coins, denom, l, k)
  PROVE  Look(h, coins, denom, <<lo, hi>>) = Answer(coins, denom, lo, hi)
<1> DEFINE n == Len(coins)
           mid == lo + (hi - lo + 1) \div 2
<1>1. n \in Nat /\ DOMAIN coins = 1..n /\ \A i \in 1..n : coins[i].denom \in Nat
  BY CoinType
<1>2. Look(h, coins, denom, <<lo, hi>>) =
        IF lo > hi THEN 0
        ELSE IF lo = hi THEN IF coins[lo].denom = denom THEN lo ELSE 0
        ELSE IF denom < coins[mid].denom THEN h[<<lo, mid - 1>>]
        ELSE IF denom = coins[mid].denom THEN mid
        ELSE h[<<mid + 1, hi>>]
  BY DEF Look
<1>3. CASE lo > hi
  <2>1. lo..hi = {} BY <1>1, <1>3
  <2>2. Answer(coins, denom, lo, hi) = 0 BY <2>1 DEF Answer, OneOf, At
  <2>3. QED BY <1>2, <1>3, <2>2
<1>4. CASE lo = hi
  <2>1. lo..hi = {lo} /\ ~(lo > hi) BY <1>1, <1>4
  <2>2. Answer(coins, denom, lo, hi) = IF coins[lo].denom = denom THEN lo ELSE 0
    BY <2>1, OnlyAnswer
  <2>3. QED BY <1>2, <1>4, <2>1, <2>2
<1>5. CASE lo < hi
  <2>1. mid \in lo+1..hi /\ lo \in Int /\ hi \in Int BY <1>1, <1>5
  <2>2. ~(lo > hi) /\ ~(lo = hi) BY <1>5, <2>1
  <2> HIDE DEF mid
  <2>3. /\ mid \in lo..hi /\ mid \in 1..n
        /\ mid - 1 \in 0..n /\ mid + 1 \in 1..n+1
        /\ mid - 1 - lo < hi - lo /\ hi - (mid + 1) < hi - lo
    BY <1>1, <2>1
  <2>4. /\ \A i \in lo..hi : i < mid => coins[i].denom < coins[mid].denom
        /\ \A i \in lo..hi : i > mid => coins[mid].denom < coins[i].denom
    <3>1. SUFFICES ASSUME NEW i \in lo..hi
                   PROVE  /\ i < mid => coins[i].denom < coins[mid].denom
                          /\ i > mid => coins[mid].denom < coins[i].denom
      OBVIOUS
    <3>2. i \in 1..n /\ i \in Int BY <1>1
    <3>3. QED BY <1>1, <2>3, <3>2 DEF Ascending
  <2>5. \A i \in lo..hi : coins[i].denom \in Nat
    <3>1. \A i \in lo..hi : i \in 1..n BY <1>1
    <3>2. QED BY <1>1, <3>1
  <2>6. coins[mid].denom \in Nat BY <1>1, <2>3
  <2>7. CASE denom = coins[mid].denom
    <3>1. Answer(coins, denom, lo, hi) = mid BY <2>3, <2>7, OnlyAnswer
    <3>2. ~(denom < coins[mid].denom) BY <2>6, <2>7
    <3>3. QED BY <1>2, <2>2, <2>7, <3>1, <3>2
  <2>8. CASE denom < coins[mid].denom
    <3>1. Look(h, coins, denom, <<lo, hi>>) = h[<<lo, mid - 1>>] BY <1>2, <2>2, <2>8
    <3>2. h[<<lo, mid - 1>>] = Answer(coins, denom, lo, mid - 1)
      <4>1. lo \in 1..n+1 /\ mid - 1 \in 0..n /\ mid - 1 - lo < hi - lo BY <2>3
      <4>2. QED BY <4>1, Zenon
    <3>3. ASSUME NEW i \in lo..hi, coins[i].denom = denom PROVE i \in lo..mid - 1
      <4>1. ~(i > mid) /\ i # mid BY <2>4, <2>5, <2>6, <2>8, <3>3
      <4>2. QED BY <2>3, <4>1
    <3>4. \A i \in lo..mid - 1 : i \in lo..hi BY <2>3
    <3>5. Answer(coins, denom, lo, mid - 1) = Answer(coins, denom, lo, hi)
      <4>1. At(coins, denom, lo, mid - 1) = At(coins, denom, lo, hi)
        BY <3>3, <3>4, Zenon DEF At
      <4>2. QED BY <4>1 DEF Answer
    <3>6. QED BY <3>1, <3>2, <3>5
  <2>9. CASE coins[mid].denom < denom
    <3>1. Look(h, coins, denom, <<lo, hi>>) = h[<<mid + 1, hi>>]
      <4>1. ~(denom < coins[mid].denom) /\ ~(denom = coins[mid].denom) BY <2>6, <2>9
      <4>2. QED BY <1>2, <2>2, <4>1
    <3>2. h[<<mid + 1, hi>>] = Answer(coins, denom, mid + 1, hi)
      <4>1. mid + 1 \in 1..n+1 /\ hi \in 0..n /\ hi - (mid + 1) < hi - lo BY <2>3
      <4>2. QED BY <4>1, Zenon
    <3>3. ASSUME NEW i \in lo..hi, coins[i].denom = denom PROVE i \in mid + 1..hi
      <4>1. ~(i < mid) /\ i # mid BY <2>4, <2>5, <2>6, <2>9, <3>3
      <4>2. QED BY <2>3, <4>1
    <3>4. \A i \in mid + 1..hi : i \in lo..hi BY <2>3
    <3>5. Answer(coins, denom, mid + 1, hi) = Answer(coins, denom, lo, hi)
      <4>1. At(coins, denom, mid + 1, hi) = At(coins, denom, lo, hi) BY <3>3, <3>4 DEF At
      <4>2. QED BY <4>1 DEF Answer
    <3>6. QED BY <3>1, <3>2, <3>5
  <2>10. QED BY <2>6, <2>7, <2>8, <2>9
<1>6. QED BY <1>1, <1>3, <1>4, <1>5

(* There is a search, and every search gives the answer, by induction on   *)
(* the length of the slice.                                                *)
LEMMA SearchExists ==
  ASSUME NEW coins \in Coins, Ascending(coins), NEW denom \in Nat
  PROVE  \E h : IsSearch(h, coins, denom)
<1> DEFINE h == [s \in Slices(coins) |-> Answer(coins, denom, s[1], s[2])]
<1>1. \A l \in 1..Len(coins)+1, k \in 0..Len(coins) : h[<<l, k>>] = Answer(coins, denom, l, k)
  BY DEF Slices
<1>2. \A s \in Slices(coins) : Answer(coins, denom, s[1], s[2]) = Look(h, coins, denom, s)
  <2>1. SUFFICES ASSUME NEW lo \in 1..Len(coins)+1, NEW hi \in 0..Len(coins)
                 PROVE  Answer(coins, denom, lo, hi) = Look(h, coins, denom, <<lo, hi>>)
    <3>1. SUFFICES ASSUME NEW s \in Slices(coins)
                   PROVE  Answer(coins, denom, s[1], s[2]) = Look(h, coins, denom, s)
      OBVIOUS
    <3>2. s[1] \in 1..Len(coins)+1 /\ s[2] \in 0..Len(coins) /\ s = <<s[1], s[2]>>
      BY DEF Slices
    <3> HIDE DEF h
    <3>3. QED BY <2>1, <3>2
  <2> HIDE DEF h
  <2>2. QED BY <1>1, LookCorrect
<1>3. h = [s \in Slices(coins) |-> Look(h, coins, denom, s)] BY <1>2
<1> HIDE DEF h
<1>4. QED BY <1>3 DEF IsSearch

LEMMA SearchCorrect ==
  ASSUME NEW coins \in Coins, Ascending(coins), NEW denom \in Nat,
         NEW h, IsSearch(h, coins, denom)
  PROVE  h[<<1, Len(coins)>>] = Answer(coins, denom, 1, Len(coins))
<1> DEFINE n == Len(coins)
           Ok(l, k) == h[<<l, k>>] = Answer(coins, denom, l, k)
           Bad == {m \in Nat : \E l \in 1..n+1, k \in 0..n : m = k - l + n + 1 /\ ~Ok(l, k)}
<1>1. n \in Nat BY CoinType
<1>2. ASSUME Bad # {} PROVE FALSE
  <2>1. PICK m \in Bad : \A j \in Bad : m <= j BY <1>2, Least
  <2>2. PICK l \in 1..n+1, k \in 0..n : m = k - l + n + 1 /\ ~Ok(l, k) BY <2>1
  <2>3. ASSUME NEW ll \in 1..n+1, NEW kk \in 0..n, kk - ll < k - l PROVE Ok(ll, kk)
    <3> DEFINE j == kk - ll + n + 1
    <3>1. j \in Nat /\ ~(m <= j) BY <1>1, <2>2, <2>3
    <3> HIDE DEF Ok
    <3>2. QED BY <2>1, <3>1
  <2>4. Look(h, coins, denom, <<l, k>>) = Answer(coins, denom, l, k)
    BY <2>3, LookCorrect
  <2>5. h[<<l, k>>] = Look(h, coins, denom, <<l, k>>) BY DEF IsSearch, Slices
  <2>6. QED BY <2>2, <2>4, <2>5
<1>3. Ok(1, n)
  <2>1. 1 \in 1..n+1 /\ n \in 0..n /\ n - 1 + n + 1 \in Nat BY <1>1
  <2> HIDE DEF Ok
  <2>2. QED BY <1>2, <2>1
<1>4. QED BY <1>3

(* The binary search finds a denomination wherever it is.                  *)
LEMMA FindCorrect ==
  ASSUME NEW coins \in Coins, Ascending(coins), NEW denom \in Nat
  PROVE  /\ Find(coins, denom) \in 0..Len(coins)
         /\ Find(coins, denom) # 0 =>
              /\ Find(coins, denom) \in DOMAIN coins
              /\ coins[Find(coins, denom)].denom = denom
         /\ \A i \in DOMAIN coins : coins[i].denom = denom => Find(coins, denom) = i
<1>1. Len(coins) \in Nat /\ DOMAIN coins = 1..Len(coins) BY CoinType
<1>2. Find(coins, denom) = Answer(coins, denom, 1, Len(coins))
  <2>1. IsSearch(CHOOSE h : IsSearch(h, coins, denom), coins, denom)
    <3>1. PICK h : IsSearch(h, coins, denom) BY SearchExists
    <3>2. QED BY <3>1, Zenon
  <2>2. QED BY <2>1, FindUnfolded, SearchCorrect
<1>3. /\ \A i \in DOMAIN coins : coins[i].denom = denom => Find(coins, denom) = i
      /\ (\A i \in DOMAIN coins : coins[i].denom # denom) => Find(coins, denom) = 0
  <2>1. 1 \in 1..Len(coins)+1 /\ Len(coins) \in 0..Len(coins) BY <1>1
  <2> DEFINE n == Len(coins)
  <2>2. /\ \A i \in 1..n : coins[i].denom = denom => Answer(coins, denom, 1, n) = i
        /\ (\A i \in 1..n : coins[i].denom # denom) => Answer(coins, denom, 1, n) = 0
    BY <2>1, OnlyAnswer, Zenon
  <2>3. QED BY <1>1, <1>2, <2>2
<1>4. QED BY <1>1, <1>3

-----------------------------------------------------------------------------
(* Rounding: what a price asks for an amount of gas, in whole coins.       *)
Charge(price, gas) == (price * gas + PriceUnit - 1) \div PriceUnit

LEMMA ChargeCorrect ==
  ASSUME NEW price \in Nat, NEW gas \in Nat
  PROVE  /\ Charge(price, gas) \in Nat
         /\ \A a \in Nat : a >= Charge(price, gas) <=> a * PriceUnit >= price * gas
<1> DEFINE u == PriceUnit
           c == price * gas
           q == Charge(price, gas)
<1>1. u \in Nat \ {0} BY FeeAssumption DEF FeeAssumption
<1>2. c \in Nat /\ c + u - 1 \in Nat BY <1>1
<1>3. q = (c + u - 1) \div u BY DEF Charge
<1> HIDE DEF u, c, q
<1>4. q \in Nat /\ q * u <= c + u - 1 /\ c + u - 1 < (q + 1) * u BY <1>1, <1>2, <1>3, QuotientBounds
<1>5. q * u \in Nat /\ (q + 1) * u = q * u + u BY <1>1, <1>4
<1>6. c <= q * u BY <1>1, <1>2, <1>4, <1>5
<1>7. ASSUME NEW a \in Nat PROVE a >= q <=> a * u >= c
  <2>1. a * u \in Nat /\ (a + 1) * u = a * u + u BY <1>1
  <2>2. CASE q <= a
    <3>1. q * u <= a * u BY <1>1, <1>4, <2>2, TimesMonotone
    <3>2. QED BY <1>2, <1>4, <1>5, <1>6, <2>1, <2>2, <3>1
  <2>3. CASE a + 1 <= q
    <3>1. (a + 1) * u <= q * u BY <1>1, <1>4, <2>3, TimesMonotone
    <3>2. a * u + u <= c + u - 1 BY <1>1, <1>2, <1>4, <1>5, <2>1, <3>1
    <3>3. QED BY <1>1, <1>2, <1>4, <2>1, <2>3, <3>2
  <2>4. QED BY <1>4, <2>2, <2>3
<1>8. QED BY <1>4, <1>7 DEF q, c, u

LEMMA ChargeOrder ==
  ASSUME NEW p \in Nat, NEW q \in Nat, NEW gas \in Nat, p <= q
  PROVE  Charge(p, gas) <= Charge(q, gas)
<1>1. /\ Charge(q, gas) \in Nat /\ Charge(p, gas) \in Nat
      /\ Charge(q, gas) * PriceUnit >= q * gas
      /\ Charge(q, gas) >= Charge(p, gas) <=> Charge(q, gas) * PriceUnit >= p * gas
  <2>1. Charge(q, gas) \in Nat /\ Charge(p, gas) \in Nat BY ChargeCorrect
  <2>2. Charge(q, gas) >= Charge(q, gas) BY <2>1
  <2>3. QED BY <2>1, <2>2, ChargeCorrect
<1>2. p * gas <= q * gas BY TimesMonotone
<1> DEFINE x == Charge(q, gas) * PriceUnit
           y == p * gas
           z == q * gas
<1>3. x \in Int /\ y \in Int /\ z \in Int BY <1>1, FeeAssumption DEF FeeAssumption
<1> HIDE DEF x, y, z
<1>4. x >= y BY <1>1, <1>2, <1>3 DEF x, y, z
<1>5. QED BY <1>1, <1>4 DEF x, y

LEMMA ChargeZero ==
  ASSUME NEW p \in Nat, NEW gas \in Nat \ {0}
  PROVE  Charge(p, gas) = 0 <=> p = 0
<1>1. Charge(p, gas) \in Nat /\ (0 >= Charge(p, gas) <=> 0 * PriceUnit >= p * gas)
  BY ChargeCorrect
<1>2. 0 * PriceUnit = 0 BY FeeAssumption DEF FeeAssumption
<1>3. p * gas = 0 <=> p = 0 OBVIOUS
<1>4. p * gas \in Nat OBVIOUS
<1>5. QED BY <1>1, <1>2, <1>3, <1>4

(* The validation lets only ascending lists of prices through.             *)
LEMMA ValidIsAscending ==
  ASSUME NEW prices \in Seq([denom : Denom, amount : Int]), ValidPrices(prices)
  PROVE  prices \in Coins /\ Ascending(prices)
<1> DEFINE R == [denom : Denom, amount : Int]
           n == Len(prices)
<1>1. n \in Nat /\ DOMAIN prices = 1..n /\ \A i \in 1..n : prices[i] \in R
  <2> HIDE DEF R
  <2>1. prices \in Seq(R) BY DEF R
  <2>2. QED BY <2>1
<1>2. \A i \in 1..n : prices[i] \in R BY <1>1
<1>3. \A i \in 1..n : prices[i] \in [denom : Denom, amount : Nat] /\ prices[i].denom \in Nat
  <2>1. Denom \subseteq Nat BY FeeAssumption DEF FeeAssumption
  <2>2. \A i \in 1..n : prices[i].amount >= 0 BY <1>1 DEF ValidPrices
  <2>3. \A c \in R : c.amount >= 0 => c \in [denom : Denom, amount : Nat] /\ c.denom \in Nat
    <3>1. SUFFICES ASSUME NEW c \in R, c.amount >= 0
                   PROVE  c \in [denom : Denom, amount : Nat] /\ c.denom \in Nat
      OBVIOUS
    <3>2. c = [denom |-> c.denom, amount |-> c.amount] /\ c.denom \in Denom /\ c.amount \in Int
      OBVIOUS
    <3>3. c.amount \in Nat BY <3>1, <3>2
    <3>4. QED BY <2>1, <3>2, <3>3
  <2> HIDE DEF n, R
  <2>4. QED BY <1>2, <2>2, <2>3
<1>4. prices \in Coins
  <2> DEFINE C == [denom : Denom, amount : Nat]
  <2> HIDE DEF C
  <2>1. \A i \in 1..n : prices[i] \in C BY <1>3 DEF C
  <2>2. prices \in Seq(C) BY <1>1, <2>1
  <2>3. QED BY <2>2 DEF Coins, C
<1>5. ASSUME NEW i \in 1..n, NEW j \in 1..n, i < j PROVE prices[i].denom < prices[j].denom
  <2> DEFINE Bad == {k \in 1..n : i < k /\ ~(prices[i].denom < prices[k].denom)}
  <2>1. SUFFICES ASSUME Bad # {} PROVE FALSE BY <1>5
  <2>2. Bad \in SUBSET Nat BY <1>1
  <2>3. PICK k \in Bad : \A l \in Bad : k <= l BY <2>1, <2>2, Least
  <2>4. k \in 1..n /\ i < k /\ ~(prices[i].denom < prices[k].denom) BY <2>3
  <2>5. k \in 2..n /\ k - 1 \in 1..n /\ ~(k <= k - 1) BY <1>1, <2>4
  <2>6. prices[k].denom > prices[k-1].denom BY <2>5 DEF ValidPrices
  <2>7. CASE i = k - 1 BY <1>3, <2>4, <2>5, <2>6, <2>7
  <2>8. CASE i < k - 1
    <3>1. prices[i].denom < prices[k-1].denom BY <2>3, <2>5, <2>8
    <3>2. prices[i].denom \in Nat /\ prices[k-1].denom \in Nat /\ prices[k].denom \in Nat
      BY <1>3, <2>4, <2>5
    <3>3. \A x, y, z \in Nat : x < y /\ z > y => x < z OBVIOUS
    <3>4. prices[i].denom < prices[k].denom BY <2>6, <3>1, <3>2, <3>3, Zenon
    <3>5. QED BY <2>4, <3>4
  <2>9. QED BY <1>1, <2>4, <2>5, <2>7, <2>8
<1>6. QED BY <1>1, <1>4, <1>5 DEF Ascending

-----------------------------------------------------------------------------
(* A list of fees for an amount of gas: the denominations listed, in       *)
(* order, each with what its price asks for.                               *)
IsFees(fees, listed, price, gas) ==
  /\ fees \in Coins /\ Ascending(fees)
  /\ \A i \in DOMAIN fees :
       fees[i].denom \in listed /\ fees[i].amount = Charge(price[fees[i].denom], gas)
  /\ \A d \in listed : \E i \in DOMAIN fees : fees[i].denom = d

Denoms(prices) == {prices[i].denom : i \in DOMAIN prices}
PriceOf(prices) == [d \in Denom |-> PriceIn(prices, d)]

LEMMA AscendingDistinct ==
  ASSUME NEW coins \in Coins, Ascending(coins)
  PROVE  Distinct(coins)
<1>1. SUFFICES ASSUME NEW i \in DOMAIN coins, NEW j \in DOMAIN coins,
                      coins[i].denom = coins[j].denom
               PROVE  i = j
  BY DEF Distinct
<1>2. coins[i].denom \in Nat /\ coins[j].denom \in Nat /\ i \in Int /\ j \in Int BY CoinType
<1>3. ~(i < j) /\ ~(j < i) BY <1>1, <1>2 DEF Ascending
<1>4. QED BY <1>2, <1>3

LEMMA PriceInCorrect ==
  ASSUME NEW prices \in Coins, Distinct(prices)
  PROVE  /\ \A i \in DOMAIN prices : PriceIn(prices, prices[i].denom) = prices[i].amount
         /\ \A d : d \notin Denoms(prices) => PriceIn(prices, d) = 0
         /\ PriceOf(prices) \in [Denom -> Nat]
<1>1. ASSUME NEW i \in DOMAIN prices
      PROVE  PriceIn(prices, prices[i].denom) = prices[i].amount
  <2> DEFINE listed == {j \in DOMAIN prices : prices[j].denom = prices[i].denom}
  <2>1. listed = {i} BY DEF Distinct
  <2>2. PriceIn(prices, prices[i].denom) =
          IF listed = {} THEN 0 ELSE prices[CHOOSE j \in listed : TRUE].amount
    BY DEF PriceIn
  <2> HIDE DEF listed
  <2>3. (CHOOSE j \in listed : TRUE) = i BY <2>1
  <2>4. QED BY <2>1, <2>2, <2>3
<1>2. ASSUME NEW d, d \notin Denoms(prices) PROVE PriceIn(prices, d) = 0
  <2>1. {j \in DOMAIN prices : prices[j].denom = d} = {} BY <1>2 DEF Denoms
  <2>2. QED BY <2>1 DEF PriceIn
<1>3. ASSUME NEW d \in Denom PROVE PriceIn(prices, d) \in Nat
  <2>1. CASE d \in Denoms(prices)
    <3>1. PICK i \in DOMAIN prices : d = prices[i].denom BY <2>1 DEF Denoms
    <3>2. QED BY <1>1, <3>1, CoinType
  <2>2. CASE d \notin Denoms(prices) BY <1>2, <2>2
  <2>3. QED BY <2>1, <2>2
<1>4. QED BY <1>1, <1>2, <1>3 DEF PriceOf

LEMMA CostCorrect ==
  ASSUME NEW prices \in Coins, NEW gas \in Nat
  PROVE  /\ Cost(prices, gas) \in Coins
         /\ DOMAIN Cost(prices, gas) = DOMAIN prices
         /\ \A i \in DOMAIN prices :
              /\ Cost(prices, gas)[i].denom = prices[i].denom
              /\ Cost(prices, gas)[i].amount = Charge(prices[i].amount, gas)
<1> DEFINE C == [denom : Denom, amount : Nat]
           cost == Cost(prices, gas)
<1>1. Len(prices) \in Nat /\ DOMAIN prices = 1..Len(prices) BY CoinType
<1>2. cost = [i \in DOMAIN prices |->
                [prices[i] EXCEPT !.amount = (prices[i].amount * gas + PriceUnit - 1) \div PriceUnit]]
  BY DEF Cost
<1> HIDE DEF cost
<1>3. ASSUME NEW i \in DOMAIN prices
      PROVE  /\ cost[i] \in C /\ cost[i].denom = prices[i].denom
             /\ cost[i].amount = Charge(prices[i].amount, gas)
  <2>1. prices[i] \in C /\ prices[i].amount \in Nat BY CoinType
  <2>2. Charge(prices[i].amount, gas) \in Nat BY <2>1, ChargeCorrect
  <2>3. cost[i] = [prices[i] EXCEPT !.amount = Charge(prices[i].amount, gas)]
    BY <1>2 DEF Charge
  <2>4. QED BY <2>1, <2>2, <2>3
<1>4. DOMAIN cost = 1..Len(prices) BY <1>1, <1>2
<1>5. cost \in Coins
  <2> HIDE DEF C
  <2>1. \A i \in 1..Len(prices) : cost[i] \in C BY <1>1, <1>3
  <2>2. cost = [i \in 1..Len(prices) |-> cost[i]] BY <1>1, <1>2
  <2>3. cost \in Seq(C) BY <1>1, <2>1, <2>2
  <2>4. QED BY <2>3 DEF Coins, C
<1>6. QED BY <1>1, <1>3, <1>4, <1>5 DEF cost

LEMMA SortedCost ==
  ASSUME NEW prices \in Coins, Ascending(prices), NEW gas \in Nat
  PROVE  IsFees(Sort(Cost(prices, gas)), Denoms(prices), PriceOf(prices), gas)
<1> DEFINE cost == Cost(prices, gas)
           fees == Sort(cost)
<1>1. /\ cost \in Coins /\ DOMAIN cost = DOMAIN prices
      /\ \A i \in DOMAIN prices : /\ cost[i].denom = prices[i].denom
                                  /\ cost[i].amount = Charge(prices[i].amount, gas)
  BY CostCorrect
<1>2. Distinct(prices) BY AscendingDistinct
<1> HIDE DEF cost
<1>3. Distinct(cost) BY <1>1, <1>2 DEF Distinct
<1>4. /\ fees \in Coins /\ Ascending(fees)
      /\ \A i \in DOMAIN cost : \E k \in DOMAIN fees : fees[k] = cost[i]
      /\ \A k \in DOMAIN fees : \E i \in DOMAIN cost : fees[k] = cost[i]
  BY <1>1, <1>3, SortCorrect
<1> HIDE DEF fees
<1>5. ASSUME NEW k \in DOMAIN fees
      PROVE  /\ fees[k].denom \in Denoms(prices)
             /\ fees[k].amount = Charge(PriceOf(prices)[fees[k].denom], gas)
  <2>1. PICK i \in DOMAIN prices : fees[k] = cost[i] BY <1>1, <1>4
  <2>2. prices[i].denom \in Denom BY CoinType
  <2>3. PriceOf(prices)[prices[i].denom] = prices[i].amount
    BY <1>2, <2>2, PriceInCorrect DEF PriceOf
  <2>4. QED BY <1>1, <2>1, <2>3 DEF Denoms
<1>6. ASSUME NEW d \in Denoms(prices) PROVE \E k \in DOMAIN fees : fees[k].denom = d
  <2>1. PICK i \in DOMAIN prices : d = prices[i].denom BY <1>6 DEF Denoms
  <2>2. PICK k \in DOMAIN fees : fees[k] = cost[i] BY <1>1, <1>4
  <2>3. QED BY <1>1, <2>1, <2>2
<1>7. IsFees(fees, Denoms(prices), PriceOf(prices), gas) BY <1>4, <1>5, <1>6 DEF IsFees
<1>8. QED BY <1>7 DEF fees, cost

-----------------------------------------------------------------------------
(* What the network asks for, what a node asks for, and both combined.     *)
WellPriced == params.prices \in Coins /\ Ascending(params.prices)

IsNodeList(prices) ==
  /\ prices \in Coins /\ Ascending(prices)
  /\ \A i \in DOMAIN prices : prices[i].amount > 0

LEMMA GlobalFeesCorrect ==
  ASSUME WellPriced, NEW gas \in Nat
  PROVE  IsFees(GlobalFees(gas), Listed, PriceOf(params.prices), gas)
<1>1. CASE params.prices # <<>>
  <2>1. GlobalFees(gas) = Sort(Cost(params.prices, gas)) BY <1>1 DEF GlobalFees
  <2>2. Listed = Denoms(params.prices) BY <1>1 DEF Listed, Denoms
  <2>3. QED BY <2>1, <2>2, SortedCost DEF WellPriced
<1>2. CASE params.prices = <<>>
  <2> DEFINE c == [denom |-> BondDenom, amount |-> 0]
             none == <<c>>
  <2>1. c \in [denom : Denom, amount : Nat] BY FeeAssumption DEF FeeAssumption
  <2>2. none \in Coins /\ DOMAIN none = {1} /\ none[1] = c BY <2>1 DEF Coins
  <2>3. c.denom = BondDenom /\ c.amount = 0 OBVIOUS
  <2> HIDE DEF c, none
  <2>4. Ascending(none) BY <2>2 DEF Ascending
  <2>5. Denoms(none) = {BondDenom} /\ Denoms(<<>>) = {} BY <2>2, <2>3 DEF Denoms
  <2>6. Distinct(none) BY <2>2 DEF Distinct
  <2>7. PriceIn(none, BondDenom) = 0 BY <2>2, <2>3, <2>6, PriceInCorrect
  <2>8. ASSUME NEW d \in Denom PROVE PriceIn(none, d) = 0 /\ PriceIn(<<>>, d) = 0
    <3>1. \A e : e \notin Denoms(none) => PriceIn(none, e) = 0 BY <2>2, <2>6, PriceInCorrect
    <3>2. PriceIn(<<>>, d) = 0
      <4>1. {i \in DOMAIN <<>> : <<>>[i].denom = d} = {} OBVIOUS
      <4>2. QED BY <4>1 DEF PriceIn
    <3>3. QED BY <2>5, <2>7, <3>1, <3>2
  <2>9. PriceOf(none) = PriceOf(<<>>) BY <2>8 DEF PriceOf
  <2>10. GlobalFees(gas) = Sort(Cost(none, gas)) BY <1>2 DEF GlobalFees, none, c
  <2>11. Listed = Denoms(none) BY <1>2, <2>5 DEF Listed
  <2>12. IsFees(Sort(Cost(none, gas)), Denoms(none), PriceOf(none), gas)
    BY <2>2, <2>4, SortedCost
  <2>13. QED BY <1>2, <2>9, <2>10, <2>11, <2>12
<1>3. QED BY <1>1, <1>2

LEMMA NodeFeesCorrect ==
  ASSUME NEW prices, IsNodeList(prices), NEW gas \in Nat
  PROVE  IsFees(NodeFees(prices, gas), Denoms(prices), PriceOf(prices), gas)
<1>1. CASE DOMAIN prices = {}
  <2>1. NodeFees(prices, gas) = <<>> BY <1>1 DEF NodeFees
  <2>2. Denoms(prices) = {} BY <1>1 DEF Denoms
  <2>3. <<>> \in Coins /\ DOMAIN <<>> = {} BY DEF Coins
  <2>4. QED BY <2>1, <2>2, <2>3 DEF IsFees, Ascending
<1>2. CASE DOMAIN prices # {}
  <2>1. \E i \in DOMAIN prices : prices[i].amount # 0 BY <1>2 DEF IsNodeList
  <2>2. NodeFees(prices, gas) = Sort(Cost(prices, gas)) BY <2>1 DEF NodeFees
  <2>3. QED BY <2>2, SortedCost DEF IsNodeList
<1>3. QED BY <1>1, <1>2

(* Looking a denomination up in a list of fees.                            *)
LEMMA FindFee ==
  ASSUME NEW fees, NEW listed, NEW price, NEW gas, IsFees(fees, listed, price, gas),
         NEW d \in Denom
  PROVE  /\ Find(fees, d) # 0 <=> d \in listed
         /\ Find(fees, d) # 0 =>
              /\ Find(fees, d) \in DOMAIN fees
              /\ fees[Find(fees, d)].denom = d
              /\ fees[Find(fees, d)].amount = Charge(price[d], gas)
<1>1. d \in Nat BY FeeAssumption DEF FeeAssumption
<1>2. fees \in Coins /\ Ascending(fees) BY DEF IsFees
<1>3. /\ Find(fees, d) # 0 => Find(fees, d) \in DOMAIN fees /\ fees[Find(fees, d)].denom = d
      /\ \A i \in DOMAIN fees : fees[i].denom = d => Find(fees, d) = i
  BY <1>1, <1>2, FindCorrect
<1>4. \A i \in DOMAIN fees : i # 0
  <2>1. DOMAIN fees = 1..Len(fees) /\ Len(fees) \in Nat BY <1>2, CoinType
  <2>2. QED BY <2>1
<1>5. QED BY <1>3, <1>4 DEF IsFees

(* The higher of two prices.                                               *)
Higher(f, h) == [d \in Denom |-> IF h[d] > f[d] THEN h[d] ELSE f[d]]

LEMMA CombinedCorrect ==
  ASSUME NEW global, NEW listed, NEW f \in [Denom -> Nat], NEW gas \in Nat,
         IsFees(global, listed, f, gas),
         NEW node, NEW named, NEW h \in [Denom -> Nat], IsFees(node, named, h, gas),
         \A d \in Denom : d \notin named => h[d] = 0
  PROVE  IsFees(CombinedFeeRequirement(global, node), listed, Higher(f, h), gas)
<1> DEFINE all == CombinedFeeRequirement(global, node)
           C == [denom : Denom, amount : Nat]
           k(i) == Find(node, global[i].denom)
<1>1. global \in Coins /\ Ascending(global) /\ node \in Coins BY DEF IsFees
<1>2. Len(global) \in Nat /\ DOMAIN global = 1..Len(global) BY <1>1, CoinType
<1>3. all = [i \in DOMAIN global |->
               IF k(i) # 0 /\ node[k(i)].amount > global[i].amount
               THEN node[k(i)] ELSE global[i]]
  BY DEF CombinedFeeRequirement
<1> HIDE DEF all, k, C
<1>4. ASSUME NEW i \in DOMAIN global
      PROVE  /\ all[i] \in C /\ all[i].denom = global[i].denom
             /\ all[i].amount = Charge(Higher(f, h)[global[i].denom], gas)
  <2> DEFINE d == global[i].denom
             c == node[k(i)]
  <2>1. d \in Denom /\ d \in listed /\ global[i] \in C /\ global[i].amount = Charge(f[d], gas)
    BY <1>1, CoinType DEF IsFees, C
  <2>2. k(i) # 0 <=> d \in named BY <2>1, FindFee DEF k
  <2>3. k(i) # 0 => /\ k(i) \in DOMAIN node /\ c.denom = d
                    /\ c.amount = Charge(h[d], gas) /\ c \in C
    BY <1>1, <2>1, FindFee, CoinType DEF k, C
  <2>4. Higher(f, h)[d] = IF h[d] > f[d] THEN h[d] ELSE f[d] BY <2>1 DEF Higher
  <2>5. all[i] = IF k(i) # 0 /\ c.amount > global[i].amount THEN c ELSE global[i] BY <1>3
  <2>6. f[d] \in Nat /\ h[d] \in Nat BY <2>1
  <2>7. Charge(f[d], gas) \in Nat /\ Charge(h[d], gas) \in Nat BY <2>6, ChargeCorrect
  <2> HIDE DEF d, c
  <2>8. CASE h[d] > f[d]
    <3>1. k(i) # 0 BY <2>1, <2>2, <2>6, <2>8 DEF d
    <3>2. Charge(f[d], gas) <= Charge(h[d], gas) BY <2>6, <2>8, ChargeOrder
    <3>3. CASE c.amount > global[i].amount
      <4>1. all[i] = c BY <2>5, <3>1, <3>3
      <4>2. QED BY <2>3, <2>4, <2>8, <3>1, <4>1 DEF d
    <3>4. CASE ~(c.amount > global[i].amount)
      <4>1. all[i] = global[i] BY <2>5, <3>4
      <4>2. Charge(h[d], gas) = Charge(f[d], gas) BY <2>1, <2>3, <2>7, <3>1, <3>2, <3>4
      <4>3. QED BY <2>1, <2>4, <2>8, <4>1, <4>2 DEF d
    <3>5. QED BY <3>3, <3>4
  <2>9. CASE ~(h[d] > f[d])
    <3>1. Charge(h[d], gas) <= Charge(f[d], gas) BY <2>6, <2>9, ChargeOrder
    <3>2. all[i] = global[i] BY <2>1, <2>3, <2>5, <2>7, <3>1
    <3>3. QED BY <2>1, <2>4, <2>9, <3>2 DEF d
  <2>10. QED BY <2>8, <2>9
<1>5. DOMAIN all = DOMAIN global BY <1>3
<1>6. all \in Coins
  <2>1. \A i \in 1..Len(global) : all[i] \in C BY <1>2, <1>4
  <2>2. all = [i \in 1..Len(global) |-> all[i]] BY <1>2, <1>3
  <2>3. all \in Seq(C) BY <1>2, <2>1, <2>2
  <2>4. QED BY <2>3 DEF Coins, C
<1>7. Ascending(all) BY <1>1, <1>4, <1>5 DEF Ascending
<1>8. \A i \in DOMAIN all :
        all[i].denom \in listed /\ all[i].amount = Charge(Higher(f, h)[all[i].denom], gas)
  BY <1>4, <1>5 DEF IsFees
<1>9. \A d \in listed : \E i \in DOMAIN all : all[i].denom = d BY <1>4, <1>5 DEF IsFees
<1>10. QED BY <1>6, <1>7, <1>8, <1>9 DEF IsFees, all

-----------------------------------------------------------------------------
(* The checks of a fee against a list.  A fee is never longer than the     *)
(* list that has all its denominations.                                    *)
LEMMA SubsetCorrect ==
  ASSUME NEW fees, NEW listed, NEW price, NEW gas, IsFees(fees, listed, price, gas),
         NEW paid \in Coins, Distinct(paid)
  PROVE  DenomsSubsetOfIncludingZero(paid, fees) <=> \A i \in DOMAIN paid : paid[i].denom \in listed
<1>1. \A i \in DOMAIN paid : Find(fees, paid[i].denom) # 0 <=> paid[i].denom \in listed
  BY FindFee, CoinType
<1>2. fees \in Coins BY DEF IsFees
<1>3. /\ Len(fees) \in Nat /\ DOMAIN fees = 1..Len(fees)
      /\ Len(paid) \in Nat /\ DOMAIN paid = 1..Len(paid)
  BY <1>2, CoinType
<1>4. ASSUME \A i \in DOMAIN paid : paid[i].denom \in listed
      PROVE  Len(paid) <= Len(fees)
  <2> DEFINE S == DOMAIN paid
             T == DOMAIN fees
             f == [i \in S |-> Find(fees, paid[i].denom)]
  <2>1. \A i \in S : f[i] \in T /\ fees[f[i]].denom = paid[i].denom
    BY <1>1, <1>4, FindFee, CoinType
  <2>2. f \in [S -> T] BY <2>1
  <2>3. \A i, j \in S : f[i] = f[j] => i = j
    <3>1. SUFFICES ASSUME NEW i \in S, NEW j \in S, f[i] = f[j] PROVE i = j OBVIOUS
    <3>2. paid[i].denom = paid[j].denom BY <2>1, <3>1
    <3>3. QED BY <3>2 DEF Distinct
  <2> HIDE DEF f
  <2>4. f \in Injection(S, T) BY <2>2, <2>3 DEF Injection, IsInjective
  <2>5. IsFiniteSet(T) /\ Cardinality(T) = Len(fees) /\ Cardinality(S) = Len(paid)
    BY <1>3, FirstNumbers
  <2> HIDE DEF S, T
  <2>6. Cardinality(S) <= Cardinality(T) BY <2>4, <2>5, FS_Injection
  <2>7. QED BY <2>5, <2>6
<1>5. QED BY <1>1, <1>4 DEF DenomsSubsetOfIncludingZero

Pays(amount, price, gas) == amount * PriceUnit >= price * gas

LEMMA AnyGTECorrect ==
  ASSUME NEW fees, NEW listed \in SUBSET Denom, listed # {}, NEW price \in [Denom -> Nat],
         NEW gas \in Nat \ {0}, IsFees(fees, listed, price, gas), NEW paid \in Coins
  PROVE  IsAnyGTEIncludingZero(paid, fees) <=>
           \/ paid = <<>> /\ \E d \in listed : price[d] = 0
           \/ \E i \in DOMAIN paid : /\ paid[i].denom \in listed
                                     /\ Pays(paid[i].amount, price[paid[i].denom], gas)
<1>1. fees # <<>> BY DEF IsFees
<1>2. ContainZeroCoins(fees) <=> \E d \in listed : price[d] = 0
  <2>1. \A d \in listed : Charge(price[d], gas) = 0 <=> price[d] = 0 BY ChargeZero
  <2>2. QED BY <1>1, <2>1 DEF ContainZeroCoins, IsFees
<1>3. ASSUME NEW i \in DOMAIN paid
      PROVE  /\ Find(fees, paid[i].denom) # 0 <=> paid[i].denom \in listed
             /\ Find(fees, paid[i].denom) # 0 =>
                  (paid[i].amount >= fees[Find(fees, paid[i].denom)].amount
                     <=> Pays(paid[i].amount, price[paid[i].denom], gas))
  <2>1. paid[i].denom \in Denom /\ paid[i].amount \in Nat BY CoinType
  <2>2. /\ Find(fees, paid[i].denom) # 0 <=> paid[i].denom \in listed
        /\ Find(fees, paid[i].denom) # 0 =>
             fees[Find(fees, paid[i].denom)].amount = Charge(price[paid[i].denom], gas)
    BY <2>1, FindFee
  <2>3. price[paid[i].denom] \in Nat BY <2>1
  <2>4. paid[i].amount >= Charge(price[paid[i].denom], gas)
          <=> Pays(paid[i].amount, price[paid[i].denom], gas)
    BY <2>1, <2>3, ChargeCorrect DEF Pays
  <2>5. QED BY <2>2, <2>4
<1>4. IsAnyGTEIncludingZero(paid, fees) <=>
        \/ paid = <<>> /\ ContainZeroCoins(fees)
        \/ \E i \in DOMAIN paid : /\ Find(fees, paid[i].denom) # 0
                                  /\ paid[i].amount >= fees[Find(fees, paid[i].denom)].amount
  BY DEF IsAnyGTEIncludingZero
<1>5. (\E i \in DOMAIN paid : /\ Find(fees, paid[i].denom) # 0
                              /\ paid[i].amount >= fees[Find(fees, paid[i].denom)].amount)
        <=> \E i \in DOMAIN paid : /\ paid[i].denom \in listed
                                   /\ Pays(paid[i].amount, price[paid[i].denom], gas)
  BY <1>3
<1>6. QED BY <1>2, <1>4, <1>5

LEMMA MempoolFeeCorrect ==
  ASSUME NEW prices, IsNodeList(prices), NEW tx \in Transaction
  PROVE  MempoolFee(prices, tx) <=>
           \/ prices = <<>>
           \/ \E i \in DOMAIN tx.fee :
                /\ PriceIn(prices, tx.fee[i].denom) > 0
                /\ Pays(tx.fee[i].amount, PriceIn(prices, tx.fee[i].denom), tx.gas)
<1>1. tx.fee \in Coins /\ tx.gas \in Nat BY DEF Transaction
<1>2. prices \in Coins /\ Distinct(prices) BY AscendingDistinct DEF IsNodeList
<1>3. ASSUME NEW i \in DOMAIN tx.fee
      PROVE  (\E j \in DOMAIN prices : /\ tx.fee[i].denom = prices[j].denom
                                       /\ tx.fee[i].amount >= Cost(prices, tx.gas)[j].amount)
               <=> /\ PriceIn(prices, tx.fee[i].denom) > 0
                   /\ Pays(tx.fee[i].amount, PriceIn(prices, tx.fee[i].denom), tx.gas)
  <2> DEFINE d == tx.fee[i].denom
             a == tx.fee[i].amount
  <2>1. d \in Denom /\ a \in Nat BY <1>1, CoinType
  <2> HIDE DEF d, a
  <2>2. ASSUME NEW j \in DOMAIN prices
        PROVE  /\ PriceIn(prices, prices[j].denom) = prices[j].amount /\ prices[j].amount > 0
               /\ a >= Cost(prices, tx.gas)[j].amount <=> Pays(a, prices[j].amount, tx.gas)
    <3>1. prices[j].amount \in Nat /\ prices[j].amount > 0
          /\ PriceIn(prices, prices[j].denom) = prices[j].amount
      BY <1>2, PriceInCorrect, CoinType DEF IsNodeList
    <3>2. Cost(prices, tx.gas)[j].amount = Charge(prices[j].amount, tx.gas)
      BY <1>1, <1>2, CostCorrect
    <3>3. QED BY <1>1, <2>1, <3>1, <3>2, ChargeCorrect DEF Pays
  <2>3. PriceIn(prices, d) > 0 => \E j \in DOMAIN prices : d = prices[j].denom
    <3>1. d \notin Denoms(prices) => PriceIn(prices, d) = 0 BY <1>2, PriceInCorrect
    <3>2. QED BY <3>1 DEF Denoms
  <2>4. (\E j \in DOMAIN prices : d = prices[j].denom /\ a >= Cost(prices, tx.gas)[j].amount)
          <=> PriceIn(prices, d) > 0 /\ Pays(a, PriceIn(prices, d), tx.gas)
    BY <2>2, <2>3
  <2>5. QED BY <2>4 DEF d, a
<1>4. QED BY <1>3 DEF MempoolFee

-----------------------------------------------------------------------------
(* The rule, coin by coin.                                                 *)
InListed(tx) == \A i \in DOMAIN tx.fee : tx.fee[i].denom \in Listed

PaysEnough(prices, tx) ==
  \/ tx.fee = <<>> /\ \E d \in Listed : Price(prices, d) = 0
  \/ \E i \in DOMAIN tx.fee : Pays(tx.fee[i].amount, Price(prices, tx.fee[i].denom), tx.gas)

PaysNode(prices, tx) ==
  \/ prices = <<>>
  \/ \E i \in DOMAIN tx.fee :
       /\ PriceIn(prices, tx.fee[i].denom) > 0
       /\ Pays(tx.fee[i].amount, PriceIn(prices, tx.fee[i].denom), tx.gas)

LEMMA RuleByCoin ==
  ASSUME NEW prices, NEW tx \in Transaction
  PROVE  FeeRule(prices, tx) <=>
           InListed(tx) /\ (MayBypass(tx) \/ PaysEnough(prices, tx)) /\ PaysNode(prices, tx)
<1> DEFINE paid == {tx.fee[i] : i \in DOMAIN tx.fee}
<1>1. tx.fee \in Coins BY DEF Transaction
<1>2. paid = {} <=> tx.fee = <<>>
  <2>1. tx.fee = <<>> <=> DOMAIN tx.fee = {} BY <1>1, NoCoins
  <2>2. QED BY <2>1
<1>3. InListed(tx) <=> \A c \in paid : c.denom \in Listed BY DEF InListed
<1>4. PaysEnough(prices, tx) <=>
        \/ paid = {} /\ \E d \in Listed : Price(prices, d) = 0
        \/ \E c \in paid : c.amount * PriceUnit >= Price(prices, c.denom) * tx.gas
  BY <1>2 DEF PaysEnough, Pays
<1>5. PaysNode(prices, tx) <=>
        \/ prices = <<>>
        \/ \E c \in paid : /\ PriceIn(prices, c.denom) > 0
                           /\ c.amount * PriceUnit >= PriceIn(prices, c.denom) * tx.gas
  BY DEF PaysNode, Pays
<1>6. FeeRule(prices, tx) <=>
        /\ \A c \in paid : c.denom \in Listed
        /\ \/ tx.msgs \subseteq params.bypass /\ tx.gas <= MaxBypassGas
           \/ \E c \in paid : c.amount * PriceUnit >= Price(prices, c.denom) * tx.gas
           \/ paid = {} /\ \E d \in Listed : Price(prices, d) = 0
        /\ \/ prices = <<>>
           \/ \E c \in paid : /\ PriceIn(prices, c.denom) > 0
                              /\ c.amount * PriceUnit >= PriceIn(prices, c.denom) * tx.gas
  BY DEF FeeRule
<1> HIDE DEF paid
<1>7. QED BY <1>3, <1>4, <1>5, <1>6 DEF MayBypass

LEMMA SortedFee ==
  ASSUME NEW tx \in Transaction
  PROVE  /\ Sort(tx.fee) \in Coins /\ Distinct(Sort(tx.fee))
         /\ Sort(tx.fee) = <<>> <=> tx.fee = <<>>
         /\ \A i \in DOMAIN tx.fee : \E k \in DOMAIN Sort(tx.fee) : Sort(tx.fee)[k] = tx.fee[i]
         /\ \A k \in DOMAIN Sort(tx.fee) : \E i \in DOMAIN tx.fee : Sort(tx.fee)[k] = tx.fee[i]
<1>1. tx.fee \in Coins /\ Distinct(tx.fee) BY DEF Transaction
<1>2. Sort(tx.fee) \in Coins /\ Ascending(Sort(tx.fee)) /\ Len(Sort(tx.fee)) = Len(tx.fee)
  BY <1>1, SortCorrect
<1>3. \A c \in Coins : c = <<>> <=> Len(c) = 0 BY NoCoins
<1>4. QED BY <1>1, <1>2, <1>3, SortCorrect, AscendingDistinct

LEMMA ListedType ==
  ASSUME WellPriced
  PROVE  Listed \in SUBSET Denom /\ Listed # {}
<1>1. CASE params.prices = <<>>
  <2>1. BondDenom \in Denom BY FeeAssumption DEF FeeAssumption
  <2>2. Listed = {BondDenom} BY <1>1 DEF Listed
  <2>3. QED BY <2>1, <2>2
<1>2. CASE params.prices # <<>>
  <2>1. \A i \in DOMAIN params.prices : params.prices[i].denom \in Denom
    BY CoinType DEF WellPriced
  <2>2. PICK k \in DOMAIN params.prices : TRUE BY <1>2, NoCoins DEF WellPriced
  <2>3. Listed = Denoms(params.prices) BY <1>2 DEF Listed, Denoms
  <2>4. params.prices[k].denom \in Denoms(params.prices) BY DEF Denoms
  <2>5. Denoms(params.prices) \in SUBSET Denom BY <2>1 DEF Denoms
  <2>6. QED BY <2>3, <2>4, <2>5
<1>3. QED BY <1>1, <1>2

LEMMA PriceType ==
  ASSUME WellPriced, NEW prices, IsNodeList(prices)
  PROVE  /\ PriceOf(params.prices) \in [Denom -> Nat] /\ PriceOf(prices) \in [Denom -> Nat]
         /\ \A d \in Denom : d \notin Denoms(prices) => PriceOf(prices)[d] = 0
         /\ Higher(PriceOf(params.prices), PriceOf(prices)) \in [Denom -> Nat]
         /\ \A d \in Denom :
              /\ Price(prices, d) = Higher(PriceOf(params.prices), PriceOf(prices))[d]
              /\ Price(prices, d) \in Nat /\ PriceIn(prices, d) \in Nat
              /\ PriceIn(params.prices, d) \in Nat
              /\ Price(prices, d) = IF PriceIn(prices, d) > PriceIn(params.prices, d)
                                    THEN PriceIn(prices, d) ELSE PriceIn(params.prices, d)
<1>1. PriceOf(params.prices) \in [Denom -> Nat] /\ PriceOf(prices) \in [Denom -> Nat]
  BY AscendingDistinct, PriceInCorrect DEF WellPriced, IsNodeList
<1>2. \A d \in Denom : d \notin Denoms(prices) => PriceOf(prices)[d] = 0
  BY AscendingDistinct, PriceInCorrect DEF IsNodeList, PriceOf
<1>3. \A d \in Denom : /\ PriceOf(prices)[d] = PriceIn(prices, d)
                       /\ PriceOf(params.prices)[d] = PriceIn(params.prices, d)
  BY DEF PriceOf
<1>4. \A d \in Denom : Price(prices, d) = IF PriceIn(prices, d) > PriceIn(params.prices, d)
                                          THEN PriceIn(prices, d) ELSE PriceIn(params.prices, d)
  BY DEF Price
<1>5. QED BY <1>1, <1>2, <1>3, <1>4 DEF Higher

(* The decorator is the rule about the fee, the SDK's check the rule about *)
(* the prices of the node.                                                 *)
LEMMA DecoratorCorrect ==
  ASSUME WellPriced, NEW prices, IsNodeList(prices), NEW tx \in Transaction
  PROVE  FeeDecorator(prices, tx) <=>
           InListed(tx) /\ (MayBypass(tx) \/ PaysEnough(prices, tx))
<1> DEFINE fee == Sort(tx.fee)
           global == GlobalFees(tx.gas)
           all == CombinedFeeRequirement(global, NodeFees(prices, tx.gas))
           f == PriceOf(params.prices)
           h == PriceOf(prices)
<1>1. tx.gas \in Nat \ {0} BY DEF Transaction
<1>2. /\ fee \in Coins /\ Distinct(fee) /\ (fee = <<>> <=> tx.fee = <<>>)
      /\ \A i \in DOMAIN tx.fee : \E k \in DOMAIN fee : fee[k] = tx.fee[i]
      /\ \A k \in DOMAIN fee : \E i \in DOMAIN tx.fee : fee[k] = tx.fee[i]
  BY SortedFee
<1>3. /\ f \in [Denom -> Nat] /\ h \in [Denom -> Nat] /\ Higher(f, h) \in [Denom -> Nat]
      /\ \A d \in Denom : d \notin Denoms(prices) => h[d] = 0
      /\ \A d \in Denom : Price(prices, d) = Higher(f, h)[d]
  BY PriceType
<1>4. IsFees(global, Listed, f, tx.gas) BY <1>1, GlobalFeesCorrect
<1>5. IsFees(NodeFees(prices, tx.gas), Denoms(prices), h, tx.gas) BY <1>1, NodeFeesCorrect
<1> HIDE DEF fee, global, f, h
<1>6. IsFees(all, Listed, Higher(f, h), tx.gas) BY <1>1, <1>3, <1>4, <1>5, CombinedCorrect
<1> HIDE DEF all
<1>7. InListed(tx) <=> \A k \in DOMAIN fee : fee[k].denom \in Listed BY <1>2 DEF InListed
<1>8. /\ DenomsSubsetOfIncludingZero(fee, global) <=> InListed(tx)
      /\ DenomsSubsetOfIncludingZero(fee, all) <=> InListed(tx)
  BY <1>2, <1>4, <1>6, <1>7, SubsetCorrect
<1>9. Listed \in SUBSET Denom /\ Listed # {} BY ListedType
<1>10. IsAnyGTEIncludingZero(fee, all) <=>
         \/ fee = <<>> /\ \E d \in Listed : Higher(f, h)[d] = 0
         \/ \E k \in DOMAIN fee : /\ fee[k].denom \in Listed
                                  /\ Pays(fee[k].amount, Higher(f, h)[fee[k].denom], tx.gas)
  BY <1>1, <1>2, <1>3, <1>6, <1>9, AnyGTECorrect
<1>11. (\E k \in DOMAIN fee : /\ fee[k].denom \in Listed
                              /\ Pays(fee[k].amount, Higher(f, h)[fee[k].denom], tx.gas))
         <=> \E i \in DOMAIN tx.fee :
               /\ tx.fee[i].denom \in Listed
               /\ Pays(tx.fee[i].amount, Higher(f, h)[tx.fee[i].denom], tx.gas)
  BY <1>2
<1>12. \A d \in Listed : Price(prices, d) = Higher(f, h)[d] BY <1>3, <1>9
<1>13. InListed(tx) => (IsAnyGTEIncludingZero(fee, all) <=> PaysEnough(prices, tx))
  BY <1>2, <1>10, <1>11, <1>12 DEF InListed, PaysEnough
<1>14. fee = <<>> => InListed(tx)
  <2>1. tx.fee = <<>> => DOMAIN tx.fee = {} OBVIOUS
  <2>2. QED BY <1>2, <2>1 DEF InListed
<1>15. FeeDecorator(prices, tx) <=>
         IF MayBypass(tx)
         THEN fee = <<>> \/ DenomsSubsetOfIncludingZero(fee, global)
         ELSE DenomsSubsetOfIncludingZero(fee, all) /\ IsAnyGTEIncludingZero(fee, all)
  BY DEF FeeDecorator, fee, global, all
<1>16. QED BY <1>8, <1>13, <1>14, <1>15

(* A check accepts what the rule allows.                                   *)
LEMMA AcceptsIsRule ==
  ASSUME WellPriced, NEW prices, IsNodeList(prices), NEW tx \in Transaction
  PROVE  Accepts(prices, tx) <=> FeeRule(prices, tx)
<1>1. MempoolFee(prices, tx) <=> PaysNode(prices, tx) BY MempoolFeeCorrect DEF PaysNode
<1>2. QED BY <1>1, DecoratorCorrect, RuleByCoin DEF Accepts

-----------------------------------------------------------------------------
(* Paying more, for less gas, at a lower price.                            *)
LEMMA PaysMonotone ==
  ASSUME NEW a \in Nat, NEW b \in Nat, a <= b, NEW p \in Nat, NEW q \in Nat, q <= p,
         NEW g \in Nat, NEW k \in Nat, k <= g, Pays(a, p, g)
  PROVE  Pays(b, q, k)
<1>1. PriceUnit \in Nat BY FeeAssumption DEF FeeAssumption
<1>2. a * PriceUnit <= b * PriceUnit BY <1>1, TimesMonotone
<1>3. q * g <= p * g BY TimesMonotone
<1>4. k * q <= g * q /\ k * q = q * k /\ g * q = q * g BY TimesMonotone
<1>5. a * PriceUnit >= p * g BY DEF Pays
<1> DEFINE au == a * PriceUnit
           bu == b * PriceUnit
           pg == p * g
           qg == q * g
           qk == q * k
<1>6. au \in Int /\ bu \in Int /\ pg \in Int /\ qg \in Int /\ qk \in Int BY <1>1
<1>7. qk <= qg BY <1>4
<1> HIDE DEF au, bu, pg, qg, qk
<1>8. bu >= qk BY <1>2, <1>3, <1>5, <1>6, <1>7 DEF au, bu, pg, qg
<1>9. QED BY <1>8 DEF Pays, bu, qk

LEMMA RuleMonotone ==
  ASSUME WellPriced, NEW prices, IsNodeList(prices),
         NEW tx \in Transaction, NEW better \in Transaction, FeeRule(prices, tx),
         better.gas <= tx.gas, better.msgs = tx.msgs, DOMAIN better.fee = DOMAIN tx.fee,
         \A i \in DOMAIN tx.fee : /\ better.fee[i].denom = tx.fee[i].denom
                                  /\ better.fee[i].amount >= tx.fee[i].amount
  PROVE  FeeRule(prices, better)
<1>1. /\ tx.fee \in Coins /\ better.fee \in Coins
      /\ tx.gas \in Nat /\ better.gas \in Nat
  BY DEF Transaction
<1>2. InListed(tx) /\ (MayBypass(tx) \/ PaysEnough(prices, tx)) /\ PaysNode(prices, tx)
  BY RuleByCoin
<1>3. ASSUME NEW i \in DOMAIN tx.fee
      PROVE  LET d == tx.fee[i].denom IN
             /\ better.fee[i].denom = d
             /\ Pays(tx.fee[i].amount, Price(prices, d), tx.gas)
                  => Pays(better.fee[i].amount, Price(prices, d), better.gas)
             /\ Pays(tx.fee[i].amount, PriceIn(prices, d), tx.gas)
                  => Pays(better.fee[i].amount, PriceIn(prices, d), better.gas)
  <2> DEFINE d == tx.fee[i].denom
  <2>1. d \in Denom /\ tx.fee[i].amount \in Nat /\ better.fee[i].amount \in Nat
    BY <1>1, CoinType
  <2> HIDE DEF d
  <2>2. Price(prices, d) \in Nat /\ PriceIn(prices, d) \in Nat BY <2>1, PriceType
  <2>3. tx.fee[i].amount <= better.fee[i].amount BY <2>1
  <2>4. tx.gas \in Nat /\ better.gas \in Nat /\ better.gas <= tx.gas BY <1>1
  <2>5. ASSUME NEW p \in Nat, Pays(tx.fee[i].amount, p, tx.gas)
        PROVE  Pays(better.fee[i].amount, p, better.gas)
    <3>1. p <= p BY <2>5
    <3>2. QED BY <2>1, <2>3, <2>4, <2>5, <3>1, PaysMonotone
  <2>6. better.fee[i].denom = d BY DEF d
  <2>7. QED BY <2>2, <2>5, <2>6, Zenon DEF d
<1>4. InListed(better) BY <1>2, <1>3 DEF InListed
<1>5. MayBypass(tx) => MayBypass(better)
  <2>1. MaxBypassGas \in Nat BY FeeAssumption DEF FeeAssumption
  <2>2. QED BY <1>1, <2>1 DEF MayBypass
<1>6. tx.fee = <<>> => better.fee = <<>> BY <1>1, NoCoins
<1>7. PaysEnough(prices, tx) => PaysEnough(prices, better) BY <1>3, <1>6 DEF PaysEnough
<1>8. PaysNode(prices, tx) => PaysNode(prices, better) BY <1>3 DEF PaysNode
<1>9. QED BY <1>2, <1>4, <1>5, <1>7, <1>8, RuleByCoin

LEMMA NoNodePrices == IsNodeList(<<>>)
<1>1. <<>> \in Coins /\ DOMAIN <<>> = {} BY DEF Coins
<1>2. QED BY <1>1 DEF IsNodeList, Ascending

LEMMA RuleWithoutNode ==
  ASSUME WellPriced, NEW prices, IsNodeList(prices), NEW tx \in Transaction,
         FeeRule(prices, tx)
  PROVE  FeeRule(<<>>, tx)
<1>1. tx.fee \in Coins /\ tx.gas \in Nat BY DEF Transaction
<1>2. InListed(tx) /\ (MayBypass(tx) \/ PaysEnough(prices, tx)) BY RuleByCoin
<1>3. \A d \in Denom : PriceIn(<<>>, d) = 0
  <2>1. \A d : {i \in DOMAIN <<>> : <<>>[i].denom = d} = {} OBVIOUS
  <2>2. QED BY <2>1 DEF PriceIn
<1>4. \A d \in Denom : /\ Price(<<>>, d) \in Nat /\ Price(prices, d) \in Nat
                       /\ Price(<<>>, d) <= Price(prices, d)
  <2>1. SUFFICES ASSUME NEW d \in Denom
                 PROVE  /\ Price(<<>>, d) \in Nat /\ Price(prices, d) \in Nat
                        /\ Price(<<>>, d) <= Price(prices, d)
    OBVIOUS
  <2> DEFINE g == PriceIn(params.prices, d)
             p == PriceIn(prices, d)
  <2>2. /\ g \in Nat /\ p \in Nat /\ Price(prices, d) = IF p > g THEN p ELSE g
        /\ Price(<<>>, d) \in Nat
        /\ Price(<<>>, d) = IF PriceIn(<<>>, d) > g THEN PriceIn(<<>>, d) ELSE g
    BY PriceType, NoNodePrices
  <2> HIDE DEF g, p
  <2>3. QED BY <1>3, <2>2
<1>5. (\E d \in Listed : Price(prices, d) = 0) => \E d \in Listed : Price(<<>>, d) = 0
  <2>1. \A d \in Listed : Price(prices, d) = 0 => Price(<<>>, d) = 0 BY <1>4, ListedType
  <2>2. QED BY <2>1
<1>6. ASSUME NEW i \in DOMAIN tx.fee,
             Pays(tx.fee[i].amount, Price(prices, tx.fee[i].denom), tx.gas)
      PROVE  Pays(tx.fee[i].amount, Price(<<>>, tx.fee[i].denom), tx.gas)
  <2>1. tx.fee[i].denom \in Denom /\ tx.fee[i].amount \in Nat BY <1>1, CoinType
  <2>2. tx.fee[i].amount <= tx.fee[i].amount /\ tx.gas <= tx.gas BY <1>1, <2>1
  <2>3. QED BY <1>1, <1>4, <1>6, <2>1, <2>2, PaysMonotone
<1>7. PaysEnough(prices, tx) => PaysEnough(<<>>, tx) BY <1>5, <1>6 DEF PaysEnough
<1>8. PaysNode(<<>>, tx) BY DEF PaysNode
<1>9. QED BY <1>2, <1>7, <1>8, RuleByCoin

-----------------------------------------------------------------------------
(* What holds in every state of the right types.                           *)
LEMMA NodeListed ==
  ASSUME NEW n \in Node
  PROVE  IsNodeList(NodePrices[n])
BY FeeAssumption DEF FeeAssumption, IsNodeList

LEMMA TransactionType == Tx \subseteq Transaction /\ Submitted \subseteq Tx
BY FeeAssumption DEF FeeAssumption

LEMMA RuleHolds == TypeOK => FeeCheckIsTheRule
<1>1. SUFFICES ASSUME TypeOK PROVE FeeCheckIsTheRule OBVIOUS
<1>2. WellPriced BY <1>1 DEF TypeOK, WellPriced
<1>3. QED BY <1>2, AcceptsIsRule, NodeListed, TransactionType DEF FeeCheckIsTheRule

LEMMA RaisesHolds == TypeOK => NodeOnlyRaises
<1>1. SUFFICES ASSUME TypeOK, NEW n \in Node, NEW tx \in Tx, Accepts(NodePrices[n], tx)
               PROVE  Accepts(<<>>, tx)
  BY DEF NodeOnlyRaises
<1>2. WellPriced BY <1>1 DEF TypeOK, WellPriced
<1>3. tx \in Transaction BY TransactionType
<1>4. FeeRule(NodePrices[n], tx) BY <1>1, <1>2, <1>3, AcceptsIsRule, NodeListed
<1>5. FeeRule(<<>>, tx) BY <1>2, <1>3, <1>4, RuleWithoutNode, NodeListed
<1>6. QED BY <1>2, <1>3, <1>5, AcceptsIsRule, NoNodePrices

LEMMA CheaperHolds == TypeOK => CheaperIsAccepted
<1>1. SUFFICES ASSUME TypeOK, NEW n \in Node, NEW tx \in Tx, Accepts(NodePrices[n], tx)
               PROVE  /\ \A gas \in 1..tx.gas :
                           Accepts(NodePrices[n], [tx EXCEPT !.gas = gas])
                      /\ \A i \in DOMAIN tx.fee :
                           Accepts(NodePrices[n], [tx EXCEPT !.fee[i].amount = @ + 1])
  BY DEF CheaperIsAccepted
<1>2. WellPriced BY <1>1 DEF TypeOK, WellPriced
<1>3. tx \in Transaction BY TransactionType
<1>4. IsNodeList(NodePrices[n]) BY NodeListed
<1>5. FeeRule(NodePrices[n], tx) BY <1>1, <1>2, <1>3, <1>4, AcceptsIsRule
<1>6. /\ tx.fee \in Coins /\ Distinct(tx.fee) /\ tx.gas \in Nat \ {0}
      /\ tx.msgs \in (SUBSET MsgType) \ {{}}
      /\ tx = [fee |-> tx.fee, gas |-> tx.gas, msgs |-> tx.msgs]
  BY <1>3 DEF Transaction
<1>7. \A i \in DOMAIN tx.fee : tx.fee[i].amount >= tx.fee[i].amount BY <1>6, CoinType
<1>8. ASSUME NEW gas \in 1..tx.gas
      PROVE  Accepts(NodePrices[n], [tx EXCEPT !.gas = gas])
  <2> DEFINE better == [fee |-> tx.fee, gas |-> gas, msgs |-> tx.msgs]
  <2>1. [tx EXCEPT !.gas = gas] = better BY <1>6
  <2>2. gas \in Nat \ {0} /\ gas <= tx.gas BY <1>6
  <2>3. better \in Transaction BY <1>6, <2>2 DEF Transaction
  <2>4. better.gas = gas /\ better.fee = tx.fee /\ better.msgs = tx.msgs OBVIOUS
  <2> HIDE DEF better
  <2>5. FeeRule(NodePrices[n], better)
    BY <1>2, <1>3, <1>4, <1>5, <1>7, <2>2, <2>3, <2>4, RuleMonotone
  <2>6. QED BY <1>2, <1>4, <2>1, <2>3, <2>5, AcceptsIsRule
<1>9. ASSUME NEW i \in DOMAIN tx.fee
      PROVE  Accepts(NodePrices[n], [tx EXCEPT !.fee[i].amount = @ + 1])
  <2> DEFINE C == [denom : Denom, amount : Nat]
             c == [denom |-> tx.fee[i].denom, amount |-> tx.fee[i].amount + 1]
             fee == [tx.fee EXCEPT ![i] = c]
             better == [fee |-> fee, gas |-> tx.gas, msgs |-> tx.msgs]
  <2>1. tx.fee[i] \in C /\ tx.fee[i].denom \in Denom /\ tx.fee[i].amount \in Nat
    BY <1>6, CoinType
  <2>2. [tx.fee[i] EXCEPT !.amount = @ + 1] = c BY <2>1
  <2>3. c \in C /\ c.denom = tx.fee[i].denom /\ c.amount >= tx.fee[i].amount BY <2>1
  <2>4. [tx EXCEPT !.fee[i].amount = @ + 1] = [tx EXCEPT !.fee[i] = c]
    BY <2>2
  <2>5. [tx EXCEPT !.fee[i] = c] = better BY <1>6
  <2> HIDE DEF c, C
  <2>6. fee \in Coins /\ DOMAIN fee = DOMAIN tx.fee
    <3>1. tx.fee \in Seq(C) BY <1>6 DEF Coins, C
    <3>2. fee \in Seq(C) /\ DOMAIN fee = DOMAIN tx.fee BY <2>3, <3>1
    <3>3. QED BY <3>2 DEF Coins, C
  <2>7. \A j \in DOMAIN tx.fee : /\ fee[j].denom = tx.fee[j].denom
                                 /\ fee[j].amount >= tx.fee[j].amount
    BY <1>7, <2>3
  <2> HIDE DEF fee
  <2>8. Distinct(fee) BY <1>6, <2>6, <2>7 DEF Distinct
  <2>9. better \in Transaction BY <1>6, <2>6, <2>8 DEF Transaction
  <2>10. better.gas = tx.gas /\ better.fee = fee /\ better.msgs = tx.msgs OBVIOUS
  <2>11. tx.gas <= tx.gas BY <1>6
  <2> HIDE DEF better
  <2>12. FeeRule(NodePrices[n], better)
    BY <1>2, <1>3, <1>4, <1>5, <2>6, <2>7, <2>9, <2>10, <2>11, RuleMonotone
  <2>13. Accepts(NodePrices[n], better) BY <1>2, <1>4, <2>9, <2>12, AcceptsIsRule
  <2>14. QED BY <2>4, <2>5, <2>13
<1>10. QED BY <1>8, <1>9

-----------------------------------------------------------------------------
(* The inductive invariant: the types, and mempools that obey the rule.    *)
FeeInv ==
  /\ TypeOK /\ MempoolIsPaidFor
  /\ \A n \in Node : IsFiniteSet(mempool[n])

LEMMA ProposalType ==
  ASSUME NEW p \in ParamSets, ValidPrices(p.prices)
  PROVE  p.prices \in Coins /\ Ascending(p.prices)
<1>1. p.prices \in Seq([denom : Denom, amount : Int]) BY FeeAssumption DEF FeeAssumption
<1>2. QED BY <1>1, ValidIsAscending

LEMMA FeeInvInit == Init => FeeInv
<1>1. SUFFICES ASSUME Init PROVE FeeInv OBVIOUS
<1>2. params.prices \in Coins /\ Ascending(params.prices) BY <1>1, ProposalType DEF Init
<1>3. \A n \in Node : mempool[n] = {} BY <1>1 DEF Init
<1>4. IsFiniteSet({}) /\ Cardinality({}) = 0 BY FS_EmptySet
<1>5. 0 <= MaxMempool BY FeeAssumption DEF FeeAssumption
<1>6. mempool \in [Node -> SUBSET Submitted] BY <1>1 DEF Init
<1>7. QED BY <1>2, <1>3, <1>4, <1>5, <1>6 DEF FeeInv, TypeOK, MempoolIsPaidFor

LEMMA CheckTxInv ==
  ASSUME FeeInv, NEW n \in Node, NEW tx \in Submitted, CheckTx(n, tx)
  PROVE  FeeInv'
<1>1. TypeOK BY DEF FeeInv
<1>2. /\ mempool \in [Node -> SUBSET Submitted] /\ params' = params
      /\ mempool' = [mempool EXCEPT ![n] = @ \cup {tx}]
      /\ Cardinality(mempool[n]) < MaxMempool /\ Accepts(NodePrices[n], tx)
  BY <1>1 DEF CheckTx, TypeOK
<1>3. mempool' \in [Node -> SUBSET Submitted] BY <1>2
<1>4. \A m \in Node : mempool'[m] = IF m = n THEN mempool[m] \cup {tx} ELSE mempool[m]
  BY <1>2
<1>5. ASSUME NEW m \in Node
      PROVE  IsFiniteSet(mempool'[m]) /\ Cardinality(mempool'[m]) <= MaxMempool
  <2>1. IsFiniteSet(mempool[m]) /\ Cardinality(mempool[m]) <= MaxMempool
    BY DEF FeeInv, TypeOK
  <2>2. CASE m # n BY <1>4, <2>1, <2>2
  <2>3. CASE m = n
    <3>1. Cardinality(mempool[n]) \in Nat BY <2>1, <2>3, FS_CardinalityType
    <3>2. /\ IsFiniteSet(mempool[n] \cup {tx})
          /\ Cardinality(mempool[n] \cup {tx}) =
               IF tx \in mempool[n] THEN Cardinality(mempool[n]) ELSE Cardinality(mempool[n]) + 1
      BY <2>1, <2>3, FS_AddElement
    <3>3. MaxMempool \in Nat BY FeeAssumption DEF FeeAssumption
    <3>4. Cardinality(mempool[n] \cup {tx}) <= MaxMempool BY <1>2, <3>1, <3>2, <3>3
    <3>5. QED BY <1>4, <2>3, <3>2, <3>4
  <2>4. QED BY <2>2, <2>3
<1>6. TypeOK' BY <1>1, <1>2, <1>3, <1>5 DEF TypeOK
<1>7. FeeRule(NodePrices[n], tx) BY <1>1, <1>2, RuleHolds, TransactionType DEF FeeCheckIsTheRule
<1>8. ASSUME NEW m \in Node, NEW t \in mempool'[m] PROVE FeeRule(NodePrices[m], t)'
  <2>1. FeeRule(NodePrices[m], t)
    <3>1. \A u \in mempool[m] : FeeRule(NodePrices[m], u) BY DEF FeeInv, MempoolIsPaidFor
    <3>2. QED BY <1>4, <1>7, <3>1
  <2>2. FeeRule(NodePrices[m], t)' <=> FeeRule(NodePrices[m], t)
    BY <1>2 DEF FeeRule, Listed, Price, PriceIn
  <2>3. QED BY <2>1, <2>2
<1>9. QED BY <1>5, <1>6, <1>8 DEF FeeInv, MempoolIsPaidFor

LEMMA BlockInv ==
  ASSUME FeeInv, NEW included, NEW new \in ParamSets, Block(included, new)
  PROVE  FeeInv'
<1>1. TypeOK BY DEF FeeInv
<1>2. /\ ValidPrices(new.prices) /\ params' = new
      /\ mempool' = [n \in Node |->
                       {tx \in mempool[n] \ included : Accepts(NodePrices[n], tx)'}]
      /\ mempool \in [Node -> SUBSET Submitted]
  BY <1>1 DEF Block, TypeOK
<1>3. params'.prices \in Coins /\ Ascending(params'.prices) BY <1>2, ProposalType
<1>4. \A n \in Node : mempool'[n] \subseteq mempool[n] BY <1>2
<1>5. mempool' \in [Node -> SUBSET Submitted] BY <1>2
<1>6. ASSUME NEW n \in Node
      PROVE  IsFiniteSet(mempool'[n]) /\ Cardinality(mempool'[n]) <= MaxMempool
  <2>1. IsFiniteSet(mempool[n]) /\ Cardinality(mempool[n]) <= MaxMempool BY DEF FeeInv, TypeOK
  <2>2. IsFiniteSet(mempool'[n]) /\ Cardinality(mempool'[n]) <= Cardinality(mempool[n])
    BY <1>4, <2>1, FS_Subset
  <2>3. Cardinality(mempool[n]) \in Nat /\ Cardinality(mempool'[n]) \in Nat
    BY <2>1, <2>2, FS_CardinalityType
  <2>4. MaxMempool \in Nat BY FeeAssumption DEF FeeAssumption
  <2>5. QED BY <2>1, <2>2, <2>3, <2>4
<1>7. TypeOK' BY <1>3, <1>5, <1>6 DEF TypeOK
<1>8. FeeCheckIsTheRule' BY <1>7, RuleHolds, PTL
<1>9. ASSUME NEW n \in Node, NEW tx \in mempool'[n] PROVE FeeRule(NodePrices[n], tx)'
  <2>1. Accepts(NodePrices[n], tx)' BY <1>2
  <2>2. tx \in Tx BY <1>5, TransactionType
  <2>3. QED BY <1>8, <2>1, <2>2 DEF FeeCheckIsTheRule
<1>10. QED BY <1>6, <1>7, <1>9 DEF FeeInv, MempoolIsPaidFor

LEMMA FeeInvStep == FeeInv /\ [Next]_vars => FeeInv'
<1>1. SUFFICES ASSUME FeeInv, [Next]_vars PROVE FeeInv' OBVIOUS
<1>2. CASE UNCHANGED vars
  <2>1. params' = params /\ mempool' = mempool BY <1>2 DEF vars
  <2>2. TypeOK' BY <1>1, <2>1 DEF FeeInv, TypeOK
  <2>3. \A n \in Node : \A tx : FeeRule(NodePrices[n], tx)' <=> FeeRule(NodePrices[n], tx)
    BY <2>1 DEF FeeRule, Listed, Price, PriceIn
  <2>4. MempoolIsPaidFor' BY <1>1, <2>1, <2>3 DEF FeeInv, MempoolIsPaidFor
  <2>5. QED BY <1>1, <2>1, <2>2, <2>4 DEF FeeInv
<1>3. CASE \E n \in Node, tx \in Submitted : CheckTx(n, tx) BY <1>1, <1>3, CheckTxInv
<1>4. CASE \E included \in SUBSET UNION {mempool[n] : n \in Node}, new \in ParamSets :
             Block(included, new)
  BY <1>1, <1>4, BlockInv
<1>5. QED BY <1>1, <1>2, <1>3, <1>4 DEF Next

LEMMA FeeInvHolds == Spec => []FeeInv
BY FeeInvInit, FeeInvStep, PTL DEF Spec

(* The parameters in force passed the validation, and no mempool has more  *)
(* than it may: the types of the module.                                   *)
THEOREM FeeTypeCorrect == Spec => []TypeOK
<1>1. FeeInv => TypeOK BY DEF FeeInv
<1>2. QED BY <1>1, FeeInvHolds, PTL

(* Sorting, searching and rounding never make a node accept or refuse a    *)
(* fee otherwise than the rule says.                                       *)
THEOREM FeeCheckCorrect == Spec => []FeeCheckIsTheRule
BY FeeTypeCorrect, RuleHolds, PTL

(* Whoever pays more or asks for less is not refused for it.               *)
THEOREM CheaperCorrect == Spec => []CheaperIsAccepted
BY FeeTypeCorrect, CheaperHolds, PTL

(* A node's own prices never let a transaction through that a node without *)
(* prices refuses.                                                         *)
THEOREM NodeRaisesCorrect == Spec => []NodeOnlyRaises
BY FeeTypeCorrect, RaisesHolds, PTL

(* Whatever parameters come into force, the recheck after each block keeps *)
(* in the mempools only transactions that obey the rule of the moment.     *)
THEOREM MempoolCorrect == Spec => []MempoolIsPaidFor
<1>1. FeeInv => MempoolIsPaidFor BY DEF FeeInv
<1>2. QED BY <1>1, FeeInvHolds, PTL
=============================================================================
