---------------------------- MODULE Tariff_proofs ----------------------------
(***************************************************************************)
(* For any accounts, channels, denominations, parameters and amounts: the  *)
(* escrow accounts under the tariff are an ideal escrow, which holds all   *)
(* that may be asked of it, whatever the rest of the chain does with the   *)
(* coins outside them.                                                     *)
(***************************************************************************)
EXTENDS Tariff, Bank_proofs

(* The inductive invariant: an escrow account covers what it owes.         *)
TariffInv == TariffTypeOK /\ EscrowCovers

(* No account but the collector has less, and no other module's has more.  *)
OnlyCollectorPays(b, c) ==
  /\ \A a \in Acc \ {FeeCollector}, d \in Denom : c[a][d] >= b[a][d]
  /\ \A a \in Blocked \ {FeeCollector}, d \in Denom : c[a][d] = b[a][d]

(* Module accounts that fees do not pass through are left alone.           *)
ModulesKept(b, c) ==
  \A a \in Blocked \ {FeeCollector, Distribution}, d \in Denom : c[a][d] = b[a][d]

(* Only vouchers are minted and burnt, not the coins of this chain.        *)
SupplyKept(b, c) ==
  \A d \in Denom : Home[d] = None => TotalSupply(c, d) = TotalSupply(b, d)

Kept(b, c) == ModulesKept(b, c) /\ SupplyKept(b, c)

-----------------------------------------------------------------------------
(* The fee never exceeds the amount, whatever the parameters are.          *)
LEMMA FeeInAmount ==
  ASSUME ValidParams(params), NEW denom, NEW amount \in Nat
  PROVE  TransferFee(denom, amount) \in 0..amount
<1> DEFINE x == amount * params.bps
           q == x \div BpsUnit
<1>1. /\ BpsUnit \in Nat \ {0} /\ params.bps \in 0..BpsUnit /\ params.max \in Nat
  BY TariffAssumption DEF ValidParams
<1>2. x \in Nat /\ x <= amount * BpsUnit
  <2>1. x \in Nat BY <1>1
  <2>2. amount * (BpsUnit - params.bps) \in Nat BY <1>1
  <2>3. amount * BpsUnit = x + amount * (BpsUnit - params.bps) BY <1>1
  <2>4. QED BY <1>1, <2>1, <2>2, <2>3
<1>3. q \in Int /\ 0 <= q /\ q * BpsUnit <= x
  BY <1>1, <1>2
<1>4. q <= amount
  <2> HIDE DEF q, x
  <2>1. SUFFICES ASSUME q >= amount + 1 PROVE FALSE BY <1>3
  <2>2. (q - amount - 1) * BpsUnit >= 0 BY <1>1, <1>3, <2>1
  <2>3. q * BpsUnit = (q - amount - 1) * BpsUnit + amount * BpsUnit + BpsUnit BY <1>1, <1>3
  <2>4. amount * BpsUnit \in Int /\ q * BpsUnit \in Int /\ (q - amount - 1) * BpsUnit \in Int
    BY <1>1, <1>3
  <2>5. QED BY <1>1, <1>2, <1>3, <2>2, <2>3, <2>4
<1> HIDE DEF x
<1>5. TransferFee(denom, amount) = IF Path[denom] # params.denom THEN 0
                                   ELSE IF q > params.max THEN params.max ELSE q
  BY DEF TransferFee, x
<1> HIDE DEF q
<1>6. QED BY <1>1, <1>3, <1>4, <1>5

-----------------------------------------------------------------------------
(* The begin blockers take coins from nobody but the collector.            *)
LEMMA EntityCoinsType ==
  ASSUME NEW collected \in Coins, NEW entity, entity.share \in Nat, params.share \in Nat
  PROVE  EntityCoins(collected, entity) \in Coins
<1>1. Prec \in Nat \ {0} BY TariffAssumption
<1>2. \A n \in Nat : n \div Prec \in Nat BY <1>1
<1>3. \A a, e \in Nat : MulDecTruncate(a, e) \in Nat
  <2>1. SUFFICES ASSUME NEW a \in Nat, NEW e \in Nat PROVE MulDecTruncate(a, e) \in Nat OBVIOUS
  <2>2. a * e \in Nat OBVIOUS
  <2>3. QED BY <1>2, <2>2 DEF MulDecTruncate
<1>4. \A d \in Denom : collected[d] * Prec \in Nat BY <1>1 DEF Coins
<1>5. QED BY <1>2, <1>3, <1>4 DEF EntityCoins, Coins

LEMMA PayEffect ==
  ASSUME NEW b \in Balances, NEW collected \in Coins, NEW entity,
         entity.address \in Addr, entity.share \in Nat, params.share \in Nat
  PROVE  /\ PayEntity(b, collected, entity) \in Balances
         /\ OnlyCollectorPays(b, PayEntity(b, collected, entity))
         /\ SupplyKept(b, PayEntity(b, collected, entity))
<1> DEFINE coins == EntityCoins(collected, entity)
           to == AccOf[entity.address]
<1>1. coins \in Coins BY EntityCoinsType
<1>2. to \in Acc /\ FeeCollector \in Acc BY AddressAssumption, TariffAssumption
<1> HIDE DEF coins, to
<1>3. PayEntity(b, collected, entity) =
        IF to \notin Blocked /\ Covers(b[FeeCollector], coins)
        THEN SendCoins(b, FeeCollector, to, coins) ELSE b
  BY DEF PayEntity, coins, to
<1>4. \A a \in Acc, d \in Denom : b[a][d] \in Nat BY DEF Balances, Coins
<1>5. \A d \in Denom : coins[d] \in Nat BY <1>1 DEF Coins
<1>6. CASE to \notin Blocked /\ Covers(b[FeeCollector], coins)
  <2> DEFINE c == SendCoins(b, FeeCollector, to, coins)
  <2>1. /\ c \in Balances
        /\ \A a \in Acc, d \in Denom :
             c[a][d] = IF FeeCollector = to THEN b[a][d]
                       ELSE IF a = FeeCollector THEN b[a][d] - coins[d]
                       ELSE IF a = to THEN b[a][d] + coins[d] ELSE b[a][d]
    BY <1>1, <1>2, <1>6, SendEffect
  <2>1a. SupplyKept(b, c) BY <1>1, <1>2, <1>6, SendSupply DEF SupplyKept
  <2> HIDE DEF c
  <2>2. OnlyCollectorPays(b, c)
    BY <1>4, <1>5, <1>6, <2>1, AddressAssumption DEF OnlyCollectorPays
  <2>3. PayEntity(b, collected, entity) = c BY <1>3, <1>6 DEF c
  <2>4. QED BY <2>1, <2>1a, <2>2, <2>3
<1>7. CASE ~(to \notin Blocked /\ Covers(b[FeeCollector], coins))
  <2>1. PayEntity(b, collected, entity) = b BY <1>3, <1>7
  <2>2. QED BY <1>4, <2>1 DEF OnlyCollectorPays, SupplyKept
<1>8. QED BY <1>6, <1>7

(* What the loop over the entities leaves, entity by entity.               *)
LEMMA ValidShares ==
  ASSUME TariffTypeOK
  PROVE  /\ Len(params.entities) \in Nat
         /\ DOMAIN params.entities = 1..Len(params.entities)
         /\ params.share \in 0..Prec
         /\ \A i \in DOMAIN params.entities :
              params.entities[i].address \in Addr /\ params.entities[i].share \in 1..Prec
         /\ params.entities # <<>> =>
              SumFunction([i \in DOMAIN params.entities |-> params.entities[i].share]) = Prec
<1>1. params.entities \in Seq([address : Spelling, share : Int])
  BY TariffAssumption DEF TariffTypeOK
<1>2. ValidEntities(params.entities) /\ params.share \in 0..Prec
  BY Zenon DEF TariffTypeOK, ValidParams
<1>3. \A i \in DOMAIN params.entities :
        params.entities[i].address \in Addr /\ params.entities[i].share \in 1..Prec
  BY Zenon, <1>2 DEF ValidEntities
<1>4. params.entities # <<>> =>
        SumFunction([i \in DOMAIN params.entities |-> params.entities[i].share]) = Prec
  BY Zenon, <1>2 DEF ValidEntities
<1> DEFINE s == params.entities
<1>5. s \in Seq([address : Spelling, share : Int]) => Len(s) \in Nat /\ DOMAIN s = 1..Len(s)
  <2> HIDE DEF s
  <2>1. QED OBVIOUS
<1>6. QED BY <1>1, <1>2, <1>3, <1>4, <1>5

LEMMA AllocationRuns ==
  ASSUME TariffTypeOK, NEW b
  PROVE  \E f : /\ f = [i \in 0..Len(params.entities) |->
                         IF i = 0 THEN b
                         ELSE PayEntity(f[i-1], b[FeeCollector], params.entities[i])]
                /\ AllocateTokens(b) = f[Len(params.entities)]
<1> DEFINE n == Len(params.entities)
           Step(x, i) == PayEntity(x, b[FeeCollector], params.entities[i])
           Run(f, k) == f = [i \in 0..k |-> IF i = 0 THEN b ELSE Step(f[i-1], i)]
           Paid == CHOOSE f : Run(f, n)
<1>1. n \in Nat BY ValidShares
<1> HIDE DEF Step, n
<1>2. \A k \in 0..n : \E f : Run(f, k)
  <2> DEFINE Bad == {k \in 0..n : \A f : ~Run(f, k)}
  <2>1. SUFFICES ASSUME Bad # {} PROVE FALSE OBVIOUS
  <2>2. Bad \in SUBSET Nat BY <1>1
  <2>3. PICK m \in Bad : \A k \in Bad : m <= k BY <2>1, <2>2, Least
  <2>4. m \in 0..n /\ \A f : ~Run(f, m) BY <2>3
  <2>5. m # 0
    <3>1. SUFFICES ASSUME m = 0 PROVE FALSE OBVIOUS
    <3> DEFINE g == [i \in 0..m |-> b]
    <3>2. Run(g, m) BY <3>1
    <3>3. QED BY <2>4, <3>2
  <2>6. m - 1 \in 0..n /\ ~(m <= m - 1) BY <1>1, <2>4, <2>5
  <2>7. m - 1 \notin Bad BY <2>3, <2>6
  <2>8. PICK f : Run(f, m - 1) BY <2>6, <2>7
  <2> DEFINE g == [i \in 0..m |-> IF i = m THEN Step(f[m-1], m) ELSE f[i]]
  <2>9. \A i \in 0..m : g[i] = IF i = 0 THEN b ELSE Step(g[i-1], i)
    <3>1. SUFFICES ASSUME NEW i \in 0..m PROVE g[i] = IF i = 0 THEN b ELSE Step(g[i-1], i)
      OBVIOUS
    <3>2. CASE i = m
      <4>1. m - 1 \in 0..m /\ m - 1 # m BY <1>1, <2>4, <2>5
      <4>2. g[i-1] = f[m-1] BY <3>2, <4>1
      <4>3. QED BY <2>5, <3>2, <4>2
    <3>3. CASE i # m
      <4>1. i \in 0..(m-1) BY <1>1, <2>4, <3>3
      <4>2. f[i] = IF i = 0 THEN b ELSE Step(f[i-1], i) BY <2>8, <4>1
      <4>3. g[i] = f[i] BY <3>3
      <4>4. i # 0 => g[i-1] = f[i-1] BY <1>1, <2>4, <3>3, <4>1
      <4>5. QED BY <4>2, <4>3, <4>4
    <3>4. QED BY <3>2, <3>3
  <2>9a. g = [i \in 0..m |-> g[i]] OBVIOUS
  <2> HIDE DEF g
  <2>10. Run(g, m)
    <3>1. [i \in 0..m |-> g[i]] = [i \in 0..m |-> IF i = 0 THEN b ELSE Step(g[i-1], i)] BY <2>9
    <3>2. QED BY <2>9a, <3>1
  <2>11. QED BY <2>4, <2>10
<1>3. Run(Paid, n)
  <2>1. \E f : Run(f, n) BY <1>1, <1>2
  <2> HIDE DEF Run
  <2>2. QED BY Zenon, <2>1
<1> HIDE DEF Paid
<1>4. AllocateTokens(b) = Paid[n] BY DEF AllocateTokens, Paid, n, Step
<1>5. QED BY <1>3, <1>4 DEF n, Step

LEMMA AllocateEffect ==
  ASSUME TariffTypeOK, NEW b \in Balances
  PROVE  /\ AllocateTokens(b) \in Balances
         /\ OnlyCollectorPays(b, AllocateTokens(b))
         /\ SupplyKept(b, AllocateTokens(b))
<1> DEFINE n == Len(params.entities)
           Step(x, i) == PayEntity(x, b[FeeCollector], params.entities[i])
           Ok(x) == x \in Balances /\ OnlyCollectorPays(b, x) /\ SupplyKept(b, x)
<1>1. n \in Nat /\ \A i \in 1..n : params.entities[i].address \in Addr
                                  /\ params.entities[i].share \in Nat
  BY ValidShares, TariffAssumption
<1>2. b[FeeCollector] \in Coins BY TariffAssumption, AddressAssumption DEF Balances
<1>3. \A a \in Acc, d \in Denom : b[a][d] \in Nat BY DEF Balances, Coins
<1>4. params.share \in Nat BY ValidShares, TariffAssumption
<1>5. \A i \in 1..n : \A x : Ok(x) => Ok(Step(x, i))
  <2>1. SUFFICES ASSUME NEW i \in 1..n, NEW x, Ok(x) PROVE Ok(Step(x, i)) OBVIOUS
  <2>2. /\ Step(x, i) \in Balances
        /\ OnlyCollectorPays(x, Step(x, i)) /\ SupplyKept(x, Step(x, i))
    BY <1>1, <1>2, <1>4, <2>1, PayEffect
  <2> HIDE DEF Step
  <2>3. \A a \in Acc, d \in Denom : x[a][d] \in Nat /\ Step(x, i)[a][d] \in Nat
    BY <2>1, <2>2 DEF Balances, Coins
  <2>4. OnlyCollectorPays(b, Step(x, i)) BY <1>3, <2>1, <2>2, <2>3 DEF OnlyCollectorPays
  <2>5. SupplyKept(b, Step(x, i)) BY <2>1, <2>2 DEF SupplyKept
  <2>6. QED BY <2>2, <2>4, <2>5
<1> HIDE DEF Step, n
<1>6. PICK Paid : /\ Paid = [i \in 0..n |-> IF i = 0 THEN b ELSE Step(Paid[i-1], i)]
                  /\ AllocateTokens(b) = Paid[n]
  BY AllocationRuns DEF n, Step
<1>7. \A i \in 0..n : Ok(Paid[i])
  <2> DEFINE Bad == {i \in 0..n : ~Ok(Paid[i])}
  <2>1. SUFFICES ASSUME Bad # {} PROVE FALSE OBVIOUS
  <2>2. Bad \in SUBSET Nat BY <1>1
  <2>3. PICK m \in Bad : \A k \in Bad : m <= k BY <2>1, <2>2, Least
  <2>4. m \in 0..n /\ ~Ok(Paid[m]) BY <2>3
  <2>5. Paid[m] = IF m = 0 THEN b ELSE Step(Paid[m-1], m) BY <1>6, <2>4
  <2>6. m # 0 BY <1>3, <2>4, <2>5 DEF OnlyCollectorPays, SupplyKept
  <2>7. m \in 1..n /\ m - 1 \in 0..n /\ ~(m <= m - 1) BY <1>1, <2>4, <2>6
  <2>8. Ok(Paid[m-1]) BY <2>3, <2>7
  <2>9. QED BY <1>5, <2>4, <2>5, <2>6, <2>7, <2>8
<1>8. QED BY <1>1, <1>6, <1>7

-----------------------------------------------------------------------------
(* What a step does to the escrow accounts: nothing is taken out, or one   *)
(* denomination of one account is charged or discharged and nothing else   *)
(* is taken out.                                                           *)
Donated ==
  /\ UNCHANGED owed
  /\ \A ch \in Channel, d \in Denom : balances'[Escrow[ch]][d] >= balances[Escrow[ch]][d]

Settled(ch, d, n) ==
  /\ balances[Escrow[ch]][d] + n >= 0
  /\ \A c \in Channel, e \in Denom :
       balances'[Escrow[c]][e] >=
         balances[Escrow[c]][e] + (IF c = ch /\ e = d THEN n ELSE 0)
  /\ owed' = [owed EXCEPT ![ch][d] = @ + n]

Effect == Donated \/ \E ch \in Channel, d \in Denom, n \in Int : Settled(ch, d, n)

Held == [ch \in Channel |-> balances[Escrow[ch]]]

LEMMA AddedTo ==
  ASSUME NEW f \in [Channel -> [Denom -> Int]], NEW ch \in Channel, NEW d \in Denom,
         NEW n \in Int
  PROVE  /\ [f EXCEPT ![ch][d] = @ + n] \in [Channel -> [Denom -> Int]]
         /\ \A c \in Channel, e \in Denom :
              [f EXCEPT ![ch][d] = @ + n][c][e] =
                f[c][e] + (IF c = ch /\ e = d THEN n ELSE 0)
OBVIOUS

LEMMA SameAmounts ==
  ASSUME NEW f \in [Channel -> [Denom -> Int]], NEW g \in [Channel -> [Denom -> Int]],
         \A c \in Channel, e \in Denom : f[c][e] = g[c][e]
  PROVE  f = g
<1>1. \A c \in Channel : f[c] = g[c]
  <2>1. SUFFICES ASSUME NEW c \in Channel PROVE f[c] = g[c] OBVIOUS
  <2>2. f[c] \in [Denom -> Int] /\ g[c] \in [Denom -> Int] OBVIOUS
  <2>3. \A e \in Denom : f[c][e] = g[c][e] OBVIOUS
  <2>4. QED BY <2>2, <2>3
<1>2. QED BY <1>1

LEMMA HeldType ==
  ASSUME NEW b \in Balances
  PROVE  /\ [ch \in Channel |-> b[Escrow[ch]]] \in [Channel -> [Denom -> Int]]
         /\ \A ch \in Channel, d \in Denom :
              [c \in Channel |-> b[Escrow[c]]][ch][d] = b[Escrow[ch]][d]
<1>1. \A ch \in Channel : Escrow[ch] \in Acc BY TariffAssumption
<1>2. \A ch \in Channel : b[Escrow[ch]] \in [Denom -> Int] BY <1>1 DEF Balances, Coins
<1>3. QED BY <1>2

LEMMA EffectRefines ==
  ASSUME TariffTypeOK, TariffTypeOK', Effect
  PROVE  Ideal!Next
<1>1. /\ balances \in Balances /\ balances' \in Balances
      /\ owed \in [Channel -> [Denom -> Int]]
  BY DEF TariffTypeOK, Balances
<1>2. /\ Held \in [Channel -> [Denom -> Int]] /\ Held' \in [Channel -> [Denom -> Int]]
      /\ \A c \in Channel, e \in Denom : /\ Held[c][e] = balances[Escrow[c]][e]
                                         /\ Held'[c][e] = balances'[Escrow[c]][e]
  BY <1>1, HeldType DEF Held
<1>3. CASE Donated
  <2>1. Ideal!NothingTaken
    <3>1. \A c \in Channel, e \in Denom : Ideal!Change(c, e) = 0
      BY <1>1, <1>3 DEF Ideal!Change, Donated
    <3>2. \A c \in Channel, e \in Denom : Held'[c][e] >= Held[c][e] + Ideal!Change(c, e)
      BY <1>2, <1>3, <3>1 DEF Donated
    <3>3. QED BY <1>2, <3>2 DEF Ideal!NothingTaken, Ideal!Amounts, Held
  <2>2. Ideal!Donate BY <1>3, <2>1 DEF Ideal!Donate, Donated
  <2>3. QED BY <2>2 DEF Ideal!Next
<1>4. CASE \E ch \in Channel, d \in Denom, n \in Int : Settled(ch, d, n)
  <2>1. PICK ch \in Channel, d \in Denom, n \in Int : Settled(ch, d, n) BY <1>4
  <2>2. owed' = [owed EXCEPT ![ch][d] = @ + n] BY <2>1 DEF Settled
  <2>3. \A c \in Channel, e \in Denom :
          owed[c][e] \in Int /\ owed'[c][e] - owed[c][e] = IF c = ch /\ e = d THEN n ELSE 0
    <3>1. \A c \in Channel, e \in Denom :
            owed'[c][e] = owed[c][e] + (IF c = ch /\ e = d THEN n ELSE 0)
      BY <1>1, <2>2, AddedTo
    <3>2. QED BY <1>1, <3>1
  <2>4. \A c \in Channel, e \in Denom :
          Ideal!Change(c, e) = IF c = ch /\ e = d THEN n ELSE 0
    BY <2>3 DEF Ideal!Change
  <2>5. Ideal!NothingTaken
    <3>1. \A c \in Channel, e \in Denom : Held'[c][e] >= Held[c][e] + Ideal!Change(c, e)
      BY <1>2, <2>1, <2>4 DEF Settled
    <3>2. QED BY <1>2, <3>1 DEF Ideal!NothingTaken, Ideal!Amounts, Held
  <2>6. Ideal!Change(ch, d) = n BY <2>4
  <2>7. Ideal!Owe(ch, d) BY <2>2, <2>6 DEF Ideal!Owe
  <2>8. Held[ch][d] \in Int /\ Held[ch][d] + n >= 0 BY <1>2, <2>1 DEF Settled
  <2>9. CASE n >= 0
    <3>1. Ideal!Lock(ch, d) BY <2>5, <2>6, <2>7, <2>9 DEF Ideal!Lock
    <3>2. QED BY <3>1 DEF Ideal!Next
  <2>10. CASE n < 0
    <3>1. n <= 0 /\ -n <= Held[ch][d] BY <2>8, <2>10
    <3>2. Ideal!Release(ch, d) BY <2>5, <2>6, <2>7, <3>1 DEF Ideal!Release, Held
    <3>3. QED BY <3>2 DEF Ideal!Next
  <2>11. QED BY <2>9, <2>10
<1>5. QED BY <1>3, <1>4 DEF Effect

LEMMA EffectCovers ==
  ASSUME TariffTypeOK, TariffTypeOK', EscrowCovers, Effect
  PROVE  EscrowCovers'
<1>1. /\ balances \in Balances /\ balances' \in Balances
      /\ owed \in [Channel -> [Denom -> Int]]
      /\ \A ch \in Channel : Escrow[ch] \in Acc
  BY TariffAssumption DEF TariffTypeOK, Balances
<1>2. \A ch \in Channel, d \in Denom :
        /\ balances[Escrow[ch]][d] \in Int /\ balances'[Escrow[ch]][d] \in Int
        /\ owed[ch][d] \in Int
  BY <1>1 DEF Balances, Coins
<1>3. CASE Donated BY <1>2, <1>3 DEF Donated, EscrowCovers
<1>4. CASE \E ch \in Channel, d \in Denom, n \in Int : Settled(ch, d, n)
  <2>1. PICK ch \in Channel, d \in Denom, n \in Int : Settled(ch, d, n) BY <1>4
  <2>2. \A c \in Channel, e \in Denom :
          owed'[c][e] = owed[c][e] + (IF c = ch /\ e = d THEN n ELSE 0)
    BY <1>1, <2>1, AddedTo DEF Settled
  <2>3. QED BY <1>2, <2>1, <2>2 DEF Settled, EscrowCovers
<1>5. QED BY <1>3, <1>4 DEF Effect

-----------------------------------------------------------------------------
(* Each action keeps the types and has such an effect.                     *)
LEMMA Typed ==
  ASSUME TariffTypeOK
  PROVE  /\ balances \in Balances
         /\ \A a \in Acc, d \in Denom : balances[a][d] \in Nat
         /\ owed \in [Channel -> [Denom -> Int]]
         /\ vouchers \in [Channel -> [Denom -> Int]]
         /\ \A ch \in Channel, d \in Denom : vouchers[ch][d] \in Nat
         /\ inFlight \in [Packet -> Nat]
         /\ ValidParams(params)
<1>1. balances \in Balances /\ vouchers \in [Channel -> Coins] BY DEF TariffTypeOK, Balances
<1>2. QED BY <1>1 DEF TariffTypeOK, Balances, Coins

LEMMA Accounts ==
  /\ FeeCollector \in Acc /\ Distribution \in Acc
  /\ \A u \in User : u \in Acc
  /\ \A ch \in Channel :
       /\ Escrow[ch] \in Acc
       /\ Escrow[ch] \notin User \cup {FeeCollector, Distribution}
       /\ \A c \in Channel : Escrow[c] = Escrow[ch] => c = ch
       /\ Escrow[ch] \notin Blocked
  /\ \A u \in User : u \notin Blocked
  /\ FeeCollector # Distribution
  /\ Blocked \subseteq Acc
BY TariffAssumption, AddressAssumption

LEMMA UserAndEscrow ==
  ASSUME NEW u \in User, NEW ch \in Channel
  PROVE  /\ u \in Acc /\ Escrow[ch] \in Acc /\ FeeCollector \in Acc
         /\ u # Escrow[ch] /\ FeeCollector # Escrow[ch] /\ u # FeeCollector
<1>1. /\ FeeCollector \in Blocked /\ u \in Acc \ Blocked /\ Blocked \subseteq Acc
  BY TariffAssumption, AddressAssumption
<1>2. Escrow[ch] \in Acc \ (Blocked \cup User) BY TariffAssumption
<1>3. QED BY <1>1, <1>2

LEMMA ParamBounds ==
  ASSUME ValidParams(params)
  PROVE  params.bps \in Nat /\ params.max \in Nat /\ BpsUnit \in Nat \ {0}
<1>1. BpsUnit \in Nat \ {0} BY TariffAssumption
<1>2. params.bps \in 0..BpsUnit /\ params.max \in Nat BY DEF ValidParams
<1>3. QED BY <1>1, <1>2

LEMMA PacketType ==
  \A p \in Packet :
    /\ p.sender \in User /\ p.channel \in Channel /\ p.denom \in Denom
    /\ p.amount \in Nat /\ p.amount \in 0..MaxAmount
<1>1. MaxAmount \in Nat BY TariffAssumption
<1>2. QED BY <1>1 DEF Packet

LEMMA UpdateParamsStep ==
  ASSUME TariffTypeOK, UpdateParams
  PROVE  TariffTypeOK' /\ Effect /\ Kept(balances, balances')
<1>1. TariffTypeOK' BY DEF TariffTypeOK, UpdateParams
<1>2. Donated BY Typed, Accounts DEF Donated, UpdateParams
<1>3. Kept(balances, balances') BY DEF Kept, ModulesKept, SupplyKept, UpdateParams
<1>4. QED BY <1>1, <1>2, <1>3 DEF Effect

(* Coins that leave a user for any account.                                *)
LEMMA UserPays ==
  ASSUME TariffTypeOK, NEW u \in User, NEW to \in Acc, NEW d \in Denom, NEW n \in Nat,
         to \notin Blocked \ {FeeCollector, Distribution},
         Covers(balances[u], Only(d, n)),
         balances' = SendCoins(balances, u, to, Only(d, n)),
         UNCHANGED tariffState
  PROVE  TariffTypeOK' /\ Effect /\ Kept(balances, balances')
<1> DEFINE c == SendCoins(balances, u, to, Only(d, n))
<1>1. Only(d, n) \in Coins /\ \A e \in Denom : Only(d, n)[e] \in Nat BY OnlyType
<1>2. u \in Acc /\ balances \in Balances BY Accounts, Typed
<1>2a. SupplyKept(balances, c) BY <1>1, <1>2, SendSupply DEF SupplyKept
<1>3. /\ c \in Balances
      /\ \A a \in Acc, e \in Denom :
           c[a][e] = IF u = to THEN balances[a][e]
                     ELSE IF a = u THEN balances[a][e] - Only(d, n)[e]
                     ELSE IF a = to THEN balances[a][e] + Only(d, n)[e] ELSE balances[a][e]
  BY <1>1, <1>2, SendEffect
<1> HIDE DEF c
<1>4. TariffTypeOK' BY <1>3 DEF TariffTypeOK, tariffState, c
<1>5. \A ch \in Channel, e \in Denom : c[Escrow[ch]][e] >= balances[Escrow[ch]][e]
  BY <1>1, <1>3, Typed, Accounts
<1>6. Donated BY <1>5 DEF Donated, tariffState, c
<1>7. ModulesKept(balances, c) BY <1>3, Accounts DEF ModulesKept
<1>8. QED BY <1>2a, <1>4, <1>6, <1>7 DEF Effect, Kept, c

LEMMA PayFeeStep ==
  ASSUME TariffTypeOK, NEW u \in User, NEW d \in Denom, NEW n \in Nat, PayFee(u, Only(d, n))
  PROVE  TariffTypeOK' /\ Effect /\ Kept(balances, balances')
BY UserPays, Accounts DEF PayFee

LEMMA SendStep ==
  ASSUME TariffTypeOK, NEW u \in User, NEW acc \in Acc, NEW d \in Denom, NEW n \in Nat,
         Send(u, acc, Only(d, n)), UNCHANGED tariffState
  PROVE  TariffTypeOK' /\ Effect /\ Kept(balances, balances')
BY UserPays DEF Send

LEMMA OwingType ==
  ASSUME TariffTypeOK, NEW ch \in Channel, NEW d \in Denom, NEW n \in Int
  PROVE  Owing(ch, d, n) \in [Channel -> [Denom -> Int]]
BY Typed, AddedTo DEF Owing

LEMMA DeliverStep ==
  ASSUME TariffTypeOK, NEW p \in Packet, Deliver(p)
  PROVE  TariffTypeOK' /\ Effect /\ Kept(balances, balances')
<1>1. p.channel \in Channel /\ p.denom \in Denom /\ p.amount \in Nat
  BY TariffAssumption DEF Packet
<1>2. inFlight' \in [Packet -> Nat] BY Typed DEF Deliver
<1>3. vouchers' \in [Channel -> Coins]
  <2> DEFINE v == [vouchers EXCEPT ![p.channel][p.denom] = @ + p.amount]
  <2>1. v \in [Channel -> [Denom -> Int]]
        /\ \A c \in Channel, e \in Denom :
             v[c][e] = vouchers[c][e] + (IF c = p.channel /\ e = p.denom THEN p.amount ELSE 0)
    BY <1>1, Typed, AddedTo
  <2>2. vouchers' = v \/ vouchers' = vouchers BY DEF Deliver
  <2> HIDE DEF v
  <2>3. \A c \in Channel, e \in Denom : v[c][e] \in Nat
    <3>1. ASSUME NEW c \in Channel, NEW e \in Denom PROVE v[c][e] \in Nat
      <4>1. vouchers[c][e] \in Nat BY Typed
      <4>2. QED BY <1>1, <2>1, <4>1
    <3>2. QED BY <3>1
  <2>4. v \in [Channel -> Coins] BY <2>1, <2>3 DEF Coins
  <2>5. QED BY <2>2, <2>4 DEF TariffTypeOK
<1>4. TariffTypeOK' BY <1>2, <1>3 DEF TariffTypeOK, Deliver
<1>5. Donated BY Typed, Accounts DEF Donated, Deliver
<1>6. Kept(balances, balances') BY DEF Kept, ModulesKept, SupplyKept, Deliver
<1>7. QED BY <1>4, <1>5, <1>6 DEF Effect

(* Coins that an escrow account pays out.                                  *)
LEMMA EscrowPays ==
  ASSUME TariffTypeOK, NEW b \in Balances, NEW ch \in Channel, NEW to \in Acc,
         to \notin Blocked \ {FeeCollector, Distribution},
         NEW d \in Denom, NEW n \in Nat, b[Escrow[ch]][d] >= n
  PROVE  /\ SendCoins(b, Escrow[ch], to, Only(d, n)) \in Balances
         /\ \A c \in Channel, e \in Denom :
              SendCoins(b, Escrow[ch], to, Only(d, n))[Escrow[c]][e] >=
                b[Escrow[c]][e] - (IF c = ch /\ e = d THEN n ELSE 0)
         /\ Kept(b, SendCoins(b, Escrow[ch], to, Only(d, n)))
<1> DEFINE x == SendCoins(b, Escrow[ch], to, Only(d, n))
<1>1. Escrow[ch] \in Acc /\ Escrow[ch] \notin Blocked BY Accounts
<1>2. Only(d, n) \in Coins /\ \A e \in Denom : Only(d, n)[e] = IF e = d THEN n ELSE 0
  BY OnlyType
<1>3. Covers(b[Escrow[ch]], Only(d, n)) BY <1>1, OnlyCovered
<1>4. /\ x \in Balances
      /\ \A a \in Acc, e \in Denom :
           x[a][e] = IF Escrow[ch] = to THEN b[a][e]
                     ELSE IF a = Escrow[ch] THEN b[a][e] - Only(d, n)[e]
                     ELSE IF a = to THEN b[a][e] + Only(d, n)[e] ELSE b[a][e]
  BY <1>1, <1>2, <1>3, SendEffect
<1>4a. SupplyKept(b, x) BY <1>1, <1>2, <1>3, SendSupply DEF SupplyKept
<1> HIDE DEF x
<1>5. \A a \in Acc, e \in Denom : b[a][e] \in Nat BY DEF Balances, Coins
<1>6. \A c \in Channel, e \in Denom :
        x[Escrow[c]][e] >= b[Escrow[c]][e] - (IF c = ch /\ e = d THEN n ELSE 0)
  BY <1>1, <1>2, <1>4, <1>5, Accounts
<1>7. ModulesKept(b, x) BY <1>1, <1>4, Accounts DEF ModulesKept
<1>8. QED BY <1>4, <1>4a, <1>6, <1>7 DEF Kept, x

LEMMA BeginBlockStep ==
  ASSUME TariffTypeOK, BeginBlock
  PROVE  TariffTypeOK' /\ Effect /\ Kept(balances, balances')
<1> DEFINE c == AllocateTokens(balances)
           e == SendCoins(c, FeeCollector, Distribution, c[FeeCollector])
<1>1. c \in Balances /\ OnlyCollectorPays(balances, c) /\ SupplyKept(balances, c)
  BY Typed, AllocateEffect
<1> HIDE DEF c
<1>2. c[FeeCollector] \in Coins /\ Covers(c[FeeCollector], c[FeeCollector])
      /\ \A a \in Acc, d \in Denom : c[a][d] \in Nat
  BY <1>1, Accounts DEF Balances, Coins, Covers
<1>3. /\ e \in Balances
      /\ \A a \in Acc, d \in Denom :
           e[a][d] = IF FeeCollector = Distribution THEN c[a][d]
                     ELSE IF a = FeeCollector THEN c[a][d] - c[FeeCollector][d]
                     ELSE IF a = Distribution THEN c[a][d] + c[FeeCollector][d] ELSE c[a][d]
  BY <1>1, <1>2, Accounts, SendEffect
<1>3a. SupplyKept(c, e) BY <1>1, <1>2, Accounts, SendSupply DEF SupplyKept
<1> HIDE DEF e
<1>4. balances' = e BY DEF BeginBlock, DistributeRest, e, c
<1>5. TariffTypeOK' BY <1>3, <1>4 DEF TariffTypeOK, BeginBlock, tariffState
<1>6. \A ch \in Channel, d \in Denom : e[Escrow[ch]][d] >= balances[Escrow[ch]][d]
  BY <1>1, <1>2, <1>3, Accounts DEF OnlyCollectorPays
<1>7. Donated BY <1>4, <1>6 DEF Donated, BeginBlock, tariffState
<1>8. ModulesKept(balances, balances')
  BY <1>1, <1>3, <1>4, Accounts DEF ModulesKept, OnlyCollectorPays
<1>9. SupplyKept(balances, balances') BY <1>1, <1>3a, <1>4 DEF SupplyKept
<1>10. QED BY <1>5, <1>7, <1>8, <1>9 DEF Effect, Kept

LEMMA RedeemStep ==
  ASSUME TariffTypeOK, NEW ch \in Channel, NEW d \in Denom, NEW n \in Nat, NEW acc \in Acc,
         Redeem(ch, d, n, acc)
  PROVE  TariffTypeOK' /\ Effect /\ Kept(balances, balances')
<1>1. balances \in Balances /\ balances[Escrow[ch]][d] >= n /\ acc \notin Blocked
  BY Typed, Accounts DEF Redeem
<1>2. /\ balances' \in Balances
      /\ \A c \in Channel, e \in Denom :
           balances'[Escrow[c]][e] >=
             balances[Escrow[c]][e] - (IF c = ch /\ e = d THEN n ELSE 0)
      /\ Kept(balances, balances')
  BY <1>1, EscrowPays DEF Redeem
<1>3. vouchers' \in [Channel -> Coins]
  <2>1. vouchers' = [vouchers EXCEPT ![ch][d] = @ + (-n)]
    <3>1. vouchers[ch][d] - n = vouchers[ch][d] + (-n) BY Typed
    <3>2. QED BY <3>1 DEF Redeem
  <2>2. /\ vouchers' \in [Channel -> [Denom -> Int]]
        /\ \A c \in Channel, e \in Denom :
             vouchers'[c][e] = vouchers[c][e] + (IF c = ch /\ e = d THEN -n ELSE 0)
    BY <2>1, Typed, AddedTo
  <2>3. \A c \in Channel, e \in Denom : vouchers'[c][e] \in Nat
    BY <2>2, Typed DEF Redeem
  <2>4. QED BY <2>2, <2>3 DEF Coins
<1>4. owed' = [owed EXCEPT ![ch][d] = @ + (-n)]
  <2>1. owed[ch][d] - n = owed[ch][d] + (-n) BY Typed
  <2>2. QED BY <2>1 DEF Redeem
<1>5. owed' \in [Channel -> [Denom -> Int]] BY <1>4, Typed, AddedTo
<1>6. TariffTypeOK' BY <1>2, <1>3, <1>5 DEF TariffTypeOK, Redeem
<1>7. Settled(ch, d, -n)
  <2>1. \A c \in Channel, e \in Denom : balances[Escrow[c]][e] \in Nat BY Typed, Accounts
  <2>2. QED BY <1>1, <1>2, <1>4, <2>1 DEF Settled
<1>8. QED BY <1>2, <1>6, <1>7 DEF Effect

LEMMA RefundStep ==
  ASSUME TariffTypeOK, NEW p \in Packet, Refund(p)
  PROVE  TariffTypeOK' /\ Effect /\ Kept(balances, balances')
<1> DEFINE ch == p.channel  d == p.denom  n == p.amount
<1>1. ch \in Channel /\ d \in Denom /\ n \in Nat /\ p.sender \in User
  BY TariffAssumption DEF Packet
<1>2. p.sender \in Acc /\ p.sender \notin Blocked /\ \A c \in Channel : Escrow[c] # p.sender
  BY <1>1, Accounts
<1>3. inFlight' \in [Packet -> Nat] BY Typed DEF Refund
<1>4. owed' = Owing(ch, d, -n) /\ owed' \in [Channel -> [Denom -> Int]]
  BY <1>1, OwingType DEF Refund
<1>5. \A a \in Acc, e \in Denom : balances[a][e] \in Nat BY Typed
<1> HIDE DEF ch, d, n
<1>6. CASE Escrowed(ch, d)
  <2>1. balances[Escrow[ch]][d] >= n
        /\ balances' = SendCoins(balances, Escrow[ch], p.sender, Only(d, n))
    BY <1>6 DEF Refund, ch, d, n
  <2>2. /\ balances' \in Balances
        /\ \A c \in Channel, e \in Denom :
             balances'[Escrow[c]][e] >=
               balances[Escrow[c]][e] - (IF c = ch /\ e = d THEN n ELSE 0)
        /\ Kept(balances, balances')
    BY <1>1, <1>2, <2>1, Typed, EscrowPays
  <2>3. TariffTypeOK' BY <1>3, <1>4, <2>2 DEF TariffTypeOK, Refund
  <2>4. owed' = [owed EXCEPT ![ch][d] = @ + (-n)] BY <1>4, <1>6 DEF Owing
  <2>5. Settled(ch, d, -n) BY <1>1, <1>5, <2>1, <2>2, <2>4, Accounts DEF Settled
  <2>6. QED BY <1>1, <2>2, <2>3, <2>5 DEF Effect
<1>7. CASE ~Escrowed(ch, d)
  <2>1. balances' = AddCoins(balances, p.sender, Only(d, n)) BY <1>7 DEF Refund, ch, d, n
  <2>2. Only(d, n) \in Coins BY <1>1, OnlyType
  <2>3. /\ balances' \in Balances
        /\ \A a \in Acc : a # p.sender => balances'[a] = balances[a]
    BY <1>2, <2>1, <2>2, Typed, AddEffect
  <2>4. TariffTypeOK' BY <1>3, <1>4, <2>3 DEF TariffTypeOK, Refund
  <2>5. owed' = owed BY <1>4, <1>7 DEF Owing
  <2>6. \A c \in Channel, e \in Denom : balances'[Escrow[c]][e] >= balances[Escrow[c]][e]
    BY <1>2, <1>5, <2>3, Accounts
  <2>7. Donated BY <2>5, <2>6 DEF Donated
  <2>8. ModulesKept(balances, balances') BY <1>2, <2>3, Accounts DEF ModulesKept
  <2>9. SupplyKept(balances, balances')
    <3>1. \A e \in Denom : TotalSupply(balances', e) = TotalSupply(balances, e) + Only(d, n)[e]
      BY <1>2, <2>1, <2>2, Typed, AddSupply
    <3>2. \A e \in Denom : Home[e] = None => Only(d, n)[e] = 0
      BY <1>1, <1>7, OnlyType, TariffAssumption DEF Escrowed
    <3>3. \A e \in Denom : TotalSupply(balances, e) \in Nat BY Typed, SupplyType
    <3>4. QED BY <3>1, <3>2, <3>3 DEF SupplyKept
  <2>10. QED BY <2>4, <2>7, <2>8, <2>9 DEF Effect, Kept
<1>8. QED BY <1>6, <1>7

(* The fee leaves the escrow account in the step that brings the amount.   *)
LEMMA TransferStep ==
  ASSUME TariffTypeOK, NEW u \in User, NEW ch \in Channel, NEW d \in Denom, NEW n \in Nat,
         Transfer(u, ch, d, n)
  PROVE  TariffTypeOK' /\ Effect /\ Kept(balances, balances')
<1> DEFINE coins == Only(d, n)
           fee == TransferFee(d, n)
           p == Sent(u, ch, d, n - fee)
           b == IF Escrowed(ch, d) THEN SendCoins(balances, u, Escrow[ch], coins)
                ELSE SubCoins(balances, u, coins)
<1>1. fee \in 0..n BY Typed, FeeInAmount
<1>2. /\ balances[u][d] >= n
      /\ HasCoins(b, Escrow[ch], d, fee)
      /\ balances' = SendCoins(b, Escrow[ch], FeeCollector, Only(d, fee))
      /\ inFlight' = [inFlight EXCEPT ![p] = @ + 1]
      /\ owed' = Owing(ch, d, n - fee)
      /\ UNCHANGED <<params, vouchers>>
  BY DEF Transfer, SendPacket, Outgoing, fee, p, b, coins
<1> HIDE DEF fee, p, b
<1>3. u \in Acc /\ Escrow[ch] \in Acc /\ u # Escrow[ch] /\ FeeCollector \in Acc
      /\ \A c \in Channel : Escrow[c] # FeeCollector /\ Escrow[c] # u
  BY Accounts
<1>4. coins \in Coins /\ \A e \in Denom : coins[e] = IF e = d THEN n ELSE 0 BY OnlyType
<1>5. Covers(balances[u], coins) BY <1>2, <1>3, Typed, OnlyCovered
<1>6. balances \in Balances /\ \A a \in Acc, e \in Denom : balances[a][e] \in Nat BY Typed
<1>7. /\ b \in Balances
      /\ \A c \in Channel, e \in Denom :
           b[Escrow[c]][e] = balances[Escrow[c]][e] +
                               (IF Escrowed(ch, d) /\ c = ch /\ e = d THEN n ELSE 0)
      /\ Kept(balances, b)
  <2>1. CASE Escrowed(ch, d)
    <3> DEFINE x == SendCoins(balances, u, Escrow[ch], coins)
    <3>1. /\ x \in Balances
          /\ \A a \in Acc, e \in Denom :
               x[a][e] = IF u = Escrow[ch] THEN balances[a][e]
                         ELSE IF a = u THEN balances[a][e] - coins[e]
                         ELSE IF a = Escrow[ch] THEN balances[a][e] + coins[e]
                         ELSE balances[a][e]
      BY <1>3, <1>4, <1>5, <1>6, SendEffect
    <3>1a. SupplyKept(balances, x) BY <1>3, <1>4, <1>5, <1>6, SendSupply DEF SupplyKept
    <3>2. b = x BY <2>1 DEF b
    <3> HIDE DEF x, coins
    <3>3. \A c \in Channel, e \in Denom :
            x[Escrow[c]][e] = balances[Escrow[c]][e] + (IF c = ch /\ e = d THEN n ELSE 0)
      BY <1>3, <1>4, <1>6, <3>1, Accounts
    <3>4. ModulesKept(balances, x) BY <1>3, <3>1, Accounts DEF ModulesKept
    <3>5. QED BY <2>1, <3>1, <3>1a, <3>2, <3>3, <3>4 DEF Kept
  <2>2. CASE ~Escrowed(ch, d)
    <3>1. b = SubCoins(balances, u, coins) BY <2>2 DEF b
    <3>2. b \in Balances /\ \A a \in Acc : a # u => b[a] = balances[a]
      BY <1>3, <1>4, <1>5, <1>6, <3>1, SubEffect
    <3>3. ModulesKept(balances, b) BY <3>2, Accounts DEF ModulesKept
    <3>4. SupplyKept(balances, b)
      <4>1. \A e \in Denom : TotalSupply(b, e) = TotalSupply(balances, e) - coins[e]
        BY <1>3, <1>4, <1>5, <1>6, <3>1, SubSupply
      <4>2. \A e \in Denom : Home[e] = None => coins[e] = 0
        BY <1>4, <2>2, TariffAssumption DEF Escrowed
      <4>3. \A e \in Denom : TotalSupply(balances, e) \in Nat BY <1>6, SupplyType
      <4>4. QED BY <4>1, <4>2, <4>3 DEF SupplyKept
    <3>5. QED BY <1>3, <1>6, <2>2, <3>2, <3>3, <3>4, Accounts DEF Kept
  <2>3. QED BY <2>1, <2>2
<1>8. \A c \in Channel, e \in Denom : b[Escrow[c]][e] \in Nat
  BY <1>7, Accounts DEF Balances, Coins
<1>9. b[Escrow[ch]][d] >= fee BY <1>1, <1>2, <1>8 DEF HasCoins
<1>10. /\ balances' \in Balances
       /\ \A c \in Channel, e \in Denom :
            balances'[Escrow[c]][e] >= b[Escrow[c]][e] - (IF c = ch /\ e = d THEN fee ELSE 0)
       /\ Kept(b, balances')
  BY <1>1, <1>2, <1>3, <1>7, <1>9, EscrowPays
<1>11. owed' \in [Channel -> [Denom -> Int]]
  <2>1. n - fee \in Int BY <1>1
  <2>2. Owing(ch, d, n - fee) \in [Channel -> [Denom -> Int]] BY <2>1, OwingType
  <2>3. QED BY <1>2, <2>2
<1>12. inFlight' \in [Packet -> Nat]
  <2>1. inFlight \in [Packet -> Nat] /\ inFlight' = [inFlight EXCEPT ![p] = @ + 1] BY <1>2, Typed
  <2>2. CASE p \in Packet BY <2>1, <2>2
  <2>3. CASE p \notin Packet
    <3>1. \A q \in Packet : inFlight'[q] = inFlight[q] BY <2>1, <2>3
    <3>2. inFlight' = [q \in Packet |-> inFlight'[q]] BY <2>1
    <3>3. QED BY <2>1, <3>1, <3>2
  <2>4. QED BY <2>2, <2>3
<1>13. TariffTypeOK' /\ Kept(balances, balances')
  BY <1>2, <1>7, <1>10, <1>11, <1>12 DEF TariffTypeOK, Kept, ModulesKept, SupplyKept
<1>14. CASE Escrowed(ch, d)
  <2>1. owed' = [owed EXCEPT ![ch][d] = @ + (n - fee)] BY <1>2, <1>14 DEF Owing
  <2>2. \A c \in Channel, e \in Denom :
          balances'[Escrow[c]][e] >=
            balances[Escrow[c]][e] + (IF c = ch /\ e = d THEN n - fee ELSE 0)
    BY <1>1, <1>3, <1>6, <1>7, <1>8, <1>10, <1>14, Accounts
  <2>3. balances[Escrow[ch]][d] + (n - fee) >= 0 BY <1>1, <1>3, <1>6
  <2>4. Settled(ch, d, n - fee) BY <2>1, <2>2, <2>3 DEF Settled
  <2>5. n - fee \in Int BY <1>1
  <2>6. QED BY <1>13, <2>4, <2>5 DEF Effect
<1>15. CASE ~Escrowed(ch, d)
  <2>1. fee = 0
    <3>1. Home[d] = ch /\ Home[d] # None BY <1>15, TariffAssumption DEF Escrowed
    <3>2. Path[d] # d BY <3>1, TariffAssumption
    <3>3. QED BY <1>1, <1>2, <3>2 DEF HasCoins
  <2>2. owed' = owed BY <1>2, <1>15 DEF Owing
  <2>3. \A c \in Channel, e \in Denom :
          balances'[Escrow[c]][e] >= balances[Escrow[c]][e]
    BY <1>6, <1>7, <1>8, <1>10, <1>15, <2>1, Accounts
  <2>4. Donated BY <2>2, <2>3 DEF Donated
  <2>5. QED BY <1>13, <2>4 DEF Effect
<1>16. QED BY <1>14, <1>15

LEMMA StepEffect ==
  ASSUME TariffTypeOK, TariffNext
  PROVE  TariffTypeOK' /\ Effect /\ Kept(balances, balances')
<1> DEFINE Done == TariffTypeOK' /\ Effect /\ Kept(balances, balances')
<1>1. CASE UpdateParams BY <1>1, UpdateParamsStep
<1>2. CASE BeginBlock BY <1>2, BeginBlockStep
<1>3. ASSUME NEW u \in User, NEW d \in Denom, NEW n \in 1..MaxAmount,
             \/ PayFee(u, Only(d, n))
             \/ \E acc \in Acc : Send(u, acc, Only(d, n)) /\ UNCHANGED tariffState
             \/ \E ch \in Channel :
                  Transfer(u, ch, d, n) \/ \E acc \in Acc : Redeem(ch, d, n, acc)
      PROVE  Done
  <2>1. n \in Nat BY TariffAssumption
  <2>2. CASE PayFee(u, Only(d, n)) BY <2>1, <2>2, PayFeeStep
  <2>3. CASE \E acc \in Acc : Send(u, acc, Only(d, n)) /\ UNCHANGED tariffState
    BY <2>1, <2>3, SendStep
  <2>4. CASE \E ch \in Channel : Transfer(u, ch, d, n) BY <2>1, <2>4, TransferStep
  <2>5. CASE \E ch \in Channel, acc \in Acc : Redeem(ch, d, n, acc)
    BY <2>1, <2>5, RedeemStep
  <2>6. QED BY <1>3, <2>2, <2>3, <2>4, <2>5
<1>4. ASSUME NEW p \in Packet, Deliver(p) \/ Refund(p)
      PROVE  Done
  BY <1>4, DeliverStep, RefundStep
<1>5. QED BY <1>1, <1>2, <1>3, <1>4 DEF TariffNext

(* So have the steps of the rest of the chain, and those that change       *)
(* nothing.                                                                *)
LEMMA OpenStepEffect ==
  ASSUME TariffTypeOK, [TariffNext \/ TariffElsewhere]_tariffVars
  PROVE  TariffTypeOK' /\ Effect
<1>1. CASE TariffNext BY <1>1, StepEffect
<1>2. CASE TariffElsewhere
  <2>1. TariffTypeOK' BY <1>2 DEF TariffElsewhere, TariffTypeOK, tariffState
  <2>2. Donated BY <1>2 DEF TariffElsewhere, Donated, Covers, tariffState
  <2>3. QED BY <2>1, <2>2 DEF Effect
<1>3. CASE UNCHANGED tariffVars
  <2>1. TariffTypeOK' BY <1>3 DEF TariffTypeOK, tariffVars, tariffState
  <2>2. Donated BY <1>3, Typed, Accounts DEF Donated, tariffVars, tariffState
  <2>3. QED BY <2>1, <2>2 DEF Effect
<1>4. QED BY <1>1, <1>2, <1>3

LEMMA InitEffect ==
  ASSUME TariffInit
  PROVE  TariffInv /\ Ideal!Init
<1>1. balances = Wealth /\ Wealth \in Balances BY BankAssumption DEF TariffInit
<1>2. owed = [ch \in Channel |-> [d \in Denom |-> 0]] /\ vouchers = owed
  BY DEF TariffInit
<1>3. [d \in Denom |-> 0] \in Coins BY DEF Coins
<1>4. TariffTypeOK BY <1>1, <1>2, <1>3 DEF TariffTypeOK, TariffInit, Coins
<1>5. \A ch \in Channel : balances[Escrow[ch]] = [d \in Denom |-> 0]
  <2>1. SUFFICES ASSUME NEW ch \in Channel PROVE Wealth[Escrow[ch]] = [d \in Denom |-> 0]
    BY <1>1
  <2>2. Wealth[Escrow[ch]] \in [Denom -> Nat] BY <1>1, Accounts DEF Balances, Coins
  <2>3. \A d \in Denom : Wealth[Escrow[ch]][d] = 0 BY TariffAssumption
  <2>4. QED BY <2>2, <2>3
<1>6. EscrowCovers BY <1>2, <1>5 DEF EscrowCovers
<1>7. Ideal!Init BY <1>2, <1>5 DEF Ideal!Init
<1>8. QED BY <1>4, <1>6, <1>7 DEF TariffInv

-----------------------------------------------------------------------------
(* The tariff by itself is the tariff on a chain where nobody else moves   *)
(* coins: what is proved of the latter holds of it.                        *)
THEOREM TariffIsOpen == TariffSpec => TariffOpenSpec
<1>1. [TariffNext]_tariffVars => [TariffNext \/ TariffElsewhere]_tariffVars
  OBVIOUS
<1>2. QED BY <1>1, PTL DEF TariffSpec, TariffOpenSpec

(* Amounts are never negative, and the parameters in force are always ones *)
(* that Params.Validate accepts.                                           *)
THEOREM TariffTypeCorrect == TariffOpenSpec => []TariffTypeOK
<1>1. TariffInit => TariffTypeOK BY InitEffect DEF TariffInv
<1>2. TariffTypeOK /\ [TariffNext \/ TariffElsewhere]_tariffVars => TariffTypeOK'
  BY OpenStepEffect
<1>3. QED BY <1>1, <1>2, PTL DEF TariffOpenSpec

(* The escrow account of a channel always holds what may be asked of it:   *)
(* what SendPacket takes as a fee is never owed to anybody.                *)
THEOREM EscrowIsCovered == TariffOpenSpec => []EscrowCovers
<1>1. TariffInit => TariffInv BY InitEffect
<1>2. TariffInv /\ [TariffNext \/ TariffElsewhere]_tariffVars => TariffInv'
  BY OpenStepEffect, EffectCovers DEF TariffInv
<1>3. TariffInv => EscrowCovers BY DEF TariffInv
<1>4. QED BY <1>1, <1>2, <1>3, PTL DEF TariffOpenSpec

(* The escrow accounts under the tariff implement the ideal escrow.        *)
THEOREM EscrowIsIdeal == TariffOpenSpec => ImplementsIdealEscrow
<1>1. TariffInit => TariffTypeOK /\ Ideal!Init BY InitEffect DEF TariffInv
<1>2. TariffTypeOK /\ [TariffNext \/ TariffElsewhere]_tariffVars
        => TariffTypeOK' /\ Ideal!Next
  BY OpenStepEffect, EffectRefines
<1>3. QED BY <1>1, <1>2, PTL DEF TariffOpenSpec, ImplementsIdealEscrow, Ideal!Spec

-----------------------------------------------------------------------------
(* What is owed is what exists as vouchers or is under way.                *)
Balanced == \A ch \in Channel, d \in Denom : owed[ch][d] = vouchers[ch][d] + UnderWay(ch, d)

Packets(ch, d) == {p \in Packet : p.channel = ch /\ p.denom = d /\ Escrowed(ch, d)}

(* Packets of one coin over one channel differ in their sender or amount,  *)
(* so that there are finitely many.                                        *)
LEMMA PacketsFinite ==
  ASSUME NEW ch \in Channel, NEW d \in Denom
  PROVE  IsFiniteSet(Packets(ch, d))
<1> DEFINE T == User \X (0..MaxAmount)
           f == [p \in Packets(ch, d) |-> <<p.sender, p.amount>>]
<1>1. IsFiniteSet(T)
  <2>1. IsFiniteSet(User) BY BankAssumption, AddressAssumption, FS_Subset
  <2>2. IsFiniteSet(0..MaxAmount) BY TariffAssumption, FS_Interval
  <2>3. QED BY <2>1, <2>2, FS_Product
<1>2. f \in [Packets(ch, d) -> T] BY DEF Packets, Packet
<1>3. ASSUME NEW p \in Packets(ch, d), NEW q \in Packets(ch, d), f[p] = f[q]
      PROVE  p = q
  <2>1. p.sender = q.sender /\ p.amount = q.amount BY <1>3
  <2>2. p.channel = q.channel /\ p.denom = q.denom BY DEF Packets
  <2>3. QED BY <2>1, <2>2 DEF Packets, Packet
<1>4. f \in Injection(Packets(ch, d), T) BY <1>2, <1>3 DEF Injection, IsInjective
<1>5. QED BY <1>1, <1>4, FS_Injection

LEMMA UnderWayIsSum ==
  ASSUME NEW ch \in Channel, NEW d \in Denom
  PROVE  UnderWay(ch, d) =
           SumFunctionOnSet([p \in Packets(ch, d) |-> p.amount * inFlight[p]], Packets(ch, d))
BY DEF UnderWay, Packets, SumFunction

LEMMA UnderWayType ==
  ASSUME TariffTypeOK, NEW ch \in Channel, NEW d \in Denom
  PROVE  UnderWay(ch, d) \in Nat
<1> DEFINE f == [p \in Packets(ch, d) |-> p.amount * inFlight[p]]
<1>1. ASSUME NEW p \in Packets(ch, d) PROVE f[p] \in Nat
  <2>1. p \in Packet BY DEF Packets
  <2>2. p.amount \in Nat /\ inFlight[p] \in Nat BY <2>1, Typed, PacketType
  <2>3. QED BY <2>2
<1> HIDE DEF f
<1>2. SumFunctionOnSet(f, Packets(ch, d)) \in Nat BY <1>1, PacketsFinite, SumType
<1>3. QED BY <1>2, UnderWayIsSum DEF f

(* One packet is sent or answered, and what is under way changes by what   *)
(* it carries.                                                             *)
LEMMA UnderWayChange ==
  ASSUME TariffTypeOK, TariffTypeOK', NEW q \in Packet, NEW n \in Int,
         inFlight' = [inFlight EXCEPT ![q] = @ + n],
         NEW ch \in Channel, NEW d \in Denom
  PROVE  UnderWay(ch, d)' =
           UnderWay(ch, d) + (IF q \in Packets(ch, d) THEN q.amount * n ELSE 0)
<1> DEFINE P == Packets(ch, d)
           f == [p \in P |-> p.amount * inFlight[p]]
           g == [p \in P |-> p.amount * inFlight'[p]]
<1>1. P \subseteq Packet BY DEF Packets
<1>2. \A p \in Packet : p.amount \in Nat /\ inFlight[p] \in Nat /\ inFlight'[p] \in Nat
  BY PacketType DEF TariffTypeOK
<1>3. \A p \in Packet : inFlight'[p] = inFlight[p] + (IF p = q THEN n ELSE 0)
  BY <1>2 DEF TariffTypeOK
<1>4. UnderWay(ch, d) = SumFunctionOnSet(f, P) BY UnderWayIsSum
<1>5. UnderWay(ch, d)' = SumFunctionOnSet(g, P) BY DEF UnderWay, Packets, SumFunction
<1>6. IsFiniteSet(P) BY PacketsFinite
<1>7. UnderWay(ch, d) \in Nat BY UnderWayType
<1>8. \A p \in P : f[p] \in Int /\ g[p] \in Int BY <1>1, <1>2
<1>9. \A p \in P \ {q} : g[p] = f[p] BY <1>1, <1>2, <1>3
<1>10. CASE q \in P
  <2>1. f[q] = q.amount * inFlight[q] /\ g[q] = q.amount * (inFlight[q] + n)
    BY <1>3, <1>10
  <2>2. g[q] - f[q] = q.amount * n BY <1>2, <2>1
  <2> HIDE DEF f, g, P
  <2>3. SumFunctionOnSet(g, P) = SumFunctionOnSet(f, P) + (g[q] - f[q])
    BY <1>6, <1>8, <1>9, <1>10, SumChange
  <2>4. QED BY <1>4, <1>5, <1>10, <2>2, <2>3 DEF P
<1>11. CASE q \notin P
  <2> HIDE DEF f, g, P
  <2>1. SumFunctionOnSet(f, P) = SumFunctionOnSet(g, P) BY <1>6, <1>9, <1>11, SumSame
  <2>2. QED BY <1>4, <1>5, <1>7, <1>11, <2>1 DEF P
<1>12. QED BY <1>10, <1>11

LEMMA UnchangedBalanced ==
  ASSUME Balanced, UNCHANGED <<inFlight, vouchers, owed>>
  PROVE  Balanced'
BY DEF Balanced, UnderWay

LEMMA OwingAmounts ==
  ASSUME TariffTypeOK, NEW ch \in Channel, NEW d \in Denom, NEW n \in Int
  PROVE  \A c \in Channel, e \in Denom :
           Owing(ch, d, n)[c][e] =
             owed[c][e] + (IF c = ch /\ e = d /\ Escrowed(ch, d) THEN n ELSE 0)
BY Typed, AddedTo DEF Owing

LEMMA TransferBalanced ==
  ASSUME TariffTypeOK, Balanced, NEW u \in User, NEW ch \in Channel, NEW d \in Denom,
         NEW n \in 1..MaxAmount, Transfer(u, ch, d, n)
  PROVE  Balanced'
<1> DEFINE rest == n - TransferFee(d, n)
           p == Sent(u, ch, d, rest)
<1>1. n \in Nat /\ MaxAmount \in Nat BY TariffAssumption
<1>2. TransferFee(d, n) \in 0..n BY <1>1, Typed, FeeInAmount
<1>3. rest \in 0..MaxAmount BY <1>1, <1>2
<1>4. p \in Packet /\ p.amount = rest /\ p.channel = ch /\ p.denom = d
  BY <1>3 DEF Sent, Packet
<1>5. /\ inFlight' = [inFlight EXCEPT ![p] = @ + 1]
      /\ owed' = Owing(ch, d, rest)
      /\ vouchers' = vouchers
  BY DEF Transfer, SendPacket
<1>6. TariffTypeOK' BY <1>1, TransferStep
<1> HIDE DEF rest, p
<1>7. ASSUME NEW c \in Channel, NEW e \in Denom
      PROVE  owed'[c][e] = vouchers'[c][e] + UnderWay(c, e)'
  <2>1. UnderWay(c, e)' = UnderWay(c, e) + (IF p \in Packets(c, e) THEN p.amount * 1 ELSE 0)
    <3>1. 1 \in Int OBVIOUS
    <3>2. QED BY <1>4, <1>5, <1>6, <3>1, UnderWayChange, Zenon
  <2>2. p \in Packets(c, e) <=> c = ch /\ e = d /\ Escrowed(ch, d) BY <1>4 DEF Packets
  <2>3. owed'[c][e] = owed[c][e] + (IF c = ch /\ e = d /\ Escrowed(ch, d) THEN rest ELSE 0)
    BY <1>3, <1>5, OwingAmounts
  <2>4. owed[c][e] = vouchers[c][e] + UnderWay(c, e) BY DEF Balanced
  <2>5. vouchers[c][e] \in Nat /\ UnderWay(c, e) \in Nat BY Typed, UnderWayType
  <2>6. QED BY <1>3, <1>4, <1>5, <2>1, <2>2, <2>3, <2>4, <2>5
<1>8. QED BY <1>7 DEF Balanced

(* What a packet carried becomes a voucher, or is no longer owed.          *)
LEMMA AnswerBalanced ==
  ASSUME TariffTypeOK, Balanced, NEW p \in Packet, Deliver(p) \/ Refund(p)
  PROVE  Balanced'
<1> DEFINE ch == p.channel  d == p.denom  n == p.amount
<1>1. ch \in Channel /\ d \in Denom /\ n \in Nat BY TariffAssumption DEF Packet
<1>2. inFlight' = [inFlight EXCEPT ![p] = @ + (-1)]
  <2>1. inFlight[p] - 1 = inFlight[p] + (-1) BY Typed
  <2>2. QED BY <2>1 DEF Deliver, Refund
<1>3. TariffTypeOK' BY DeliverStep, RefundStep
<1>4. ASSUME NEW c \in Channel, NEW e \in Denom
      PROVE  owed'[c][e] = vouchers'[c][e] + UnderWay(c, e)'
  <2> DEFINE x == IF c = ch /\ e = d /\ Escrowed(ch, d) THEN n ELSE 0
  <2>1. UnderWay(c, e)' = UnderWay(c, e) + (IF p \in Packets(c, e) THEN p.amount * (-1) ELSE 0)
    <3>1. -1 \in Int OBVIOUS
    <3>2. QED BY <1>2, <1>3, <3>1, UnderWayChange, Zenon
  <2>2. p \in Packets(c, e) <=> c = ch /\ e = d /\ Escrowed(ch, d) BY DEF Packets
  <2>3. p.amount * (-1) = -n BY <1>1
  <2>4. x \in Nat /\ UnderWay(c, e)' = UnderWay(c, e) + (-x)
    BY <1>1, <2>1, <2>2, <2>3
  <2>5. owed[c][e] = vouchers[c][e] + UnderWay(c, e) BY DEF Balanced
  <2>6. vouchers[c][e] \in Nat /\ UnderWay(c, e) \in Nat BY Typed, UnderWayType
  <2>7. CASE Deliver(p)
    <3>1. vouchers' = (IF Escrowed(ch, d) THEN [vouchers EXCEPT ![ch][d] = @ + n] ELSE vouchers)
      BY <2>7 DEF Deliver
    <3>2. vouchers'[c][e] = vouchers[c][e] + x BY <1>1, <3>1, Typed, AddedTo
    <3>3. owed' = owed BY <2>7 DEF Deliver
    <3> HIDE DEF x
    <3>4. QED BY <2>4, <2>5, <2>6, <3>2, <3>3
  <2>8. CASE Refund(p)
    <3>1. owed' = Owing(ch, d, -n) /\ vouchers' = vouchers BY <2>8 DEF Refund
    <3>2. owed'[c][e] = owed[c][e] + (IF c = ch /\ e = d /\ Escrowed(ch, d) THEN -n ELSE 0)
      BY <1>1, <3>1, OwingAmounts
    <3>3. owed'[c][e] = owed[c][e] + (-x) BY <1>1, <3>2
    <3> HIDE DEF x
    <3>4. QED BY <2>4, <2>5, <2>6, <3>1, <3>3
  <2>9. QED BY <2>7, <2>8
<1>5. QED BY <1>4 DEF Balanced

LEMMA RedeemBalanced ==
  ASSUME TariffTypeOK, Balanced, NEW ch \in Channel, NEW d \in Denom, NEW n \in Nat,
         NEW acc \in Acc, Redeem(ch, d, n, acc)
  PROVE  Balanced'
<1>1. /\ vouchers' = [vouchers EXCEPT ![ch][d] = @ + (-n)]
      /\ owed' = [owed EXCEPT ![ch][d] = @ + (-n)]
  <2>1. vouchers[ch][d] - n = vouchers[ch][d] + (-n) BY Typed
  <2>2. owed[ch][d] - n = owed[ch][d] + (-n) BY Typed
  <2>3. QED BY <2>1, <2>2 DEF Redeem
<1>2. inFlight' = inFlight BY DEF Redeem
<1>3. ASSUME NEW c \in Channel, NEW e \in Denom
      PROVE  owed'[c][e] = vouchers'[c][e] + UnderWay(c, e)'
  <2>1. UnderWay(c, e)' = UnderWay(c, e) BY <1>2 DEF UnderWay
  <2> DEFINE x == IF c = ch /\ e = d THEN -n ELSE 0
  <2>2. owed'[c][e] = owed[c][e] + x /\ vouchers'[c][e] = vouchers[c][e] + x /\ x \in Int
    BY <1>1, Typed, AddedTo
  <2> HIDE DEF x
  <2>3. owed[c][e] = vouchers[c][e] + UnderWay(c, e) BY DEF Balanced
  <2>4. vouchers[c][e] \in Nat /\ UnderWay(c, e) \in Nat BY Typed, UnderWayType
  <2>5. QED BY <2>1, <2>2, <2>3, <2>4
<1>4. QED BY <1>3 DEF Balanced

LEMMA BalancedStep ==
  ASSUME TariffTypeOK, Balanced, [TariffNext \/ TariffElsewhere]_tariffVars
  PROVE  Balanced'
<1>1. CASE UNCHANGED <<inFlight, vouchers, owed>> BY <1>1, UnchangedBalanced
<1>2. UpdateParams => UNCHANGED <<inFlight, vouchers, owed>> BY DEF UpdateParams
<1>3. UNCHANGED tariffState => UNCHANGED <<inFlight, vouchers, owed>> BY DEF tariffState
<1>4. ASSUME NEW u \in User, NEW d \in Denom, NEW n \in 1..MaxAmount,
             \E ch \in Channel :
               Transfer(u, ch, d, n) \/ \E acc \in Acc : Redeem(ch, d, n, acc)
      PROVE  Balanced'
  <2>1. n \in Nat BY TariffAssumption
  <2>2. QED BY <1>4, <2>1, TransferBalanced, RedeemBalanced
<1>5. ASSUME NEW p \in Packet, Deliver(p) \/ Refund(p) PROVE Balanced'
  BY <1>5, AnswerBalanced
<1>6. TariffNext =>
        \/ UNCHANGED <<inFlight, vouchers, owed>>
        \/ \E u \in User, d \in Denom : \E n \in 1..MaxAmount : \E ch \in Channel :
             Transfer(u, ch, d, n) \/ \E acc \in Acc : Redeem(ch, d, n, acc)
        \/ \E p \in Packet : Deliver(p) \/ Refund(p)
  BY <1>2, <1>3 DEF TariffNext, BeginBlock, PayFee
<1>7. TariffElsewhere \/ UNCHANGED tariffVars => UNCHANGED <<inFlight, vouchers, owed>>
  BY DEF TariffElsewhere, tariffVars, tariffState
<1>8. QED BY <1>1, <1>4, <1>5, <1>6, <1>7

LEMMA BalancedInit ==
  ASSUME TariffInit
  PROVE  Balanced
<1>1. ASSUME NEW ch \in Channel, NEW d \in Denom
      PROVE  owed[ch][d] = vouchers[ch][d] + UnderWay(ch, d)
  <2> DEFINE P == Packets(ch, d)
             f == [p \in P |-> p.amount * inFlight[p]]
  <2>1. owed[ch][d] = 0 /\ vouchers[ch][d] = 0 BY DEF TariffInit
  <2>2. \A p \in P : f[p] = 0
    <3>1. \A p \in P : p \in Packet /\ p.amount \in Nat
      BY TariffAssumption DEF Packets, Packet
    <3>2. \A p \in P : f[p] = p.amount * 0 BY <3>1 DEF TariffInit
    <3>3. QED BY <3>1, <3>2
  <2>3. UnderWay(ch, d) = SumFunctionOnSet(f, P) BY UnderWayIsSum
  <2>4. IsFiniteSet(P) BY PacketsFinite
  <2> HIDE DEF P, f
  <2>5. SumFunctionOnSet(f, P) = 0 BY <2>2, <2>4, SumZero
  <2>6. QED BY <2>1, <2>3, <2>5
<1>2. QED BY <1>1 DEF Balanced

(* What an escrow account holds covers what the packets under way carry    *)
(* and what exists as vouchers behind its channel.                         *)
THEOREM EscrowBacksTransfersCorrect == TariffOpenSpec => []EscrowBacksTransfers
<1>1. TariffInit => TariffTypeOK /\ Balanced BY InitEffect, BalancedInit DEF TariffInv
<1>2. TariffTypeOK /\ Balanced /\ [TariffNext \/ TariffElsewhere]_tariffVars
        => TariffTypeOK' /\ Balanced'
  BY OpenStepEffect, BalancedStep
<1>3. Balanced /\ EscrowCovers => EscrowBacksTransfers BY DEF Balanced, EscrowBacksTransfers
<1>4. QED BY <1>1, <1>2, <1>3, EscrowIsCovered, PTL DEF TariffOpenSpec

-----------------------------------------------------------------------------
(* Transfer is the condition MayTransfer and a value for each variable, so *)
(* that it is enabled wherever MayTransfer is true and nowhere else.       *)
LEMMA TransferGuard ==
  ASSUME NEW u, NEW ch, NEW d, NEW n
  PROVE  LET fee == TransferFee(d, n) IN
         Transfer(u, ch, d, n) <=>
           /\ MayTransfer(u, ch, d, n)
           /\ balances' = SendCoins(Outgoing(u, ch, d, n), Escrow[ch], FeeCollector, Only(d, fee))
           /\ inFlight' = [inFlight EXCEPT ![Sent(u, ch, d, n - fee)] = @ + 1]
           /\ owed' = Owing(ch, d, n - fee)
           /\ params' = params
           /\ vouchers' = vouchers
BY Zenon DEF Transfer, SendPacket, MayTransfer

(* Nobody is refused for want of coins in escrow: what Refund and Redeem   *)
(* ask of the escrow account is there for every packet under way and every *)
(* voucher.                                                                *)
AnswersAreFunded ==
  /\ \A p \in Packet :
       inFlight[p] > 0 /\ Escrowed(p.channel, p.denom) =>
         balances[Escrow[p.channel]][p.denom] >= p.amount
  /\ \A ch \in Channel, d \in Denom : balances[Escrow[ch]][d] >= vouchers[ch][d]

LEMMA PacketIsUnderWay ==
  ASSUME TariffTypeOK, NEW p \in Packet, inFlight[p] > 0, Escrowed(p.channel, p.denom)
  PROVE  UnderWay(p.channel, p.denom) >= p.amount
<1> DEFINE P == Packets(p.channel, p.denom)
           f == [q \in P |-> q.amount * inFlight[q]]
           g == [q \in P |-> IF q = p THEN 0 ELSE f[q]]
<1>1. p.channel \in Channel /\ p.denom \in Denom /\ p.amount \in Nat BY PacketType
<1>2. UnderWay(p.channel, p.denom) = SumFunctionOnSet(f, P) BY <1>1, UnderWayIsSum
<1>3. IsFiniteSet(P) /\ p \in P BY <1>1, PacketsFinite DEF Packets
<1>4. \A q \in P : f[q] \in Nat
  <2>1. \A q \in P : q \in Packet BY DEF Packets
  <2>2. \A q \in Packet : q.amount \in Nat /\ inFlight[q] \in Nat BY PacketType, Typed
  <2>3. QED BY <2>1, <2>2
<1>5. f[p] >= p.amount
  <2>1. f[p] = p.amount * inFlight[p] BY <1>3
  <2>2. inFlight[p] \in Nat /\ 1 <= inFlight[p] BY Typed
  <2>3. 1 * p.amount <= inFlight[p] * p.amount BY <1>1, <2>2, TimesMonotone
  <2>4. QED BY <1>1, <2>1, <2>2, <2>3
<1> HIDE DEF f, P
<1>6. g[p] = 0 /\ \A q \in P : g[q] \in Nat BY <1>3, <1>4
<1>7. \A q \in P \ {p} : f[q] = g[q] OBVIOUS
<1> HIDE DEF g
<1>8. \A q \in P : f[q] \in Int /\ g[q] \in Int BY <1>4, <1>6
<1>9. SumFunctionOnSet(f, P) = SumFunctionOnSet(g, P) + (f[p] - g[p])
  BY <1>3, <1>7, <1>8, SumChange
<1>10. SumFunctionOnSet(g, P) \in Nat BY <1>3, <1>6, SumType
<1>11. QED BY <1>1, <1>2, <1>3, <1>4, <1>5, <1>6, <1>9, <1>10

LEMMA AnswersFunded == TariffTypeOK /\ EscrowBacksTransfers => AnswersAreFunded
<1> SUFFICES ASSUME TariffTypeOK, EscrowBacksTransfers PROVE AnswersAreFunded OBVIOUS
<1>1. \A ch \in Channel, d \in Denom :
        /\ balances[Escrow[ch]][d] >= owed[ch][d]
        /\ owed[ch][d] = vouchers[ch][d] + UnderWay(ch, d)
        /\ balances[Escrow[ch]][d] \in Nat /\ vouchers[ch][d] \in Nat
        /\ UnderWay(ch, d) \in Nat
  BY Typed, Accounts, UnderWayType DEF EscrowBacksTransfers, EscrowCovers
<1>2. ASSUME NEW p \in Packet, inFlight[p] > 0, Escrowed(p.channel, p.denom)
      PROVE  balances[Escrow[p.channel]][p.denom] >= p.amount
  <2>1. p.channel \in Channel /\ p.denom \in Denom /\ p.amount \in Nat BY PacketType
  <2>2. UnderWay(p.channel, p.denom) >= p.amount BY <1>2, PacketIsUnderWay
  <2>3. QED BY <1>1, <2>1, <2>2
<1>3. QED BY <1>1, <1>2 DEF AnswersAreFunded

LEMMA TransfersFunded == TariffTypeOK => CoinsCanLeave
<1> SUFFICES ASSUME TariffTypeOK, NEW u \in User, NEW ch \in Channel, NEW d \in Denom,
                    NEW n \in 1..balances[u][d],
                    ~(Home[d] # None /\ params.denom = Path[d] /\ TransferFee(d, n) > 0)
             PROVE  MayTransfer(u, ch, d, n)
  BY DEF CoinsCanLeave
<1> DEFINE fee == TransferFee(d, n)
<1>1. u \in Acc /\ Escrow[ch] \in Acc /\ u # Escrow[ch] BY UserAndEscrow
<1>2. balances \in Balances /\ balances[u][d] \in Nat /\ balances[Escrow[ch]][d] \in Nat
  BY <1>1, Typed
<1>3. n \in Nat /\ n <= balances[u][d] BY <1>2
<1>4. fee \in 0..n BY <1>3, Typed, FeeInAmount
<1>5. fee > 0 => params.denom = Path[d] BY DEF TransferFee
<1> HIDE DEF fee
<1>6. CASE fee > 0
  <2>1. Home[d] = None BY <1>5, <1>6 DEF fee
  <2>2. Path[d] = d /\ Escrowed(ch, d) BY <2>1, TariffAssumption DEF Escrowed
  <2> DEFINE coins == Only(d, n)
             x == SendCoins(balances, u, Escrow[ch], coins)
  <2>3. coins \in Coins /\ coins[d] = n BY <1>3, OnlyType
  <2>4. Covers(balances[u], coins) BY <1>1, <1>2, <1>3, OnlyCovered
  <2>5. Outgoing(u, ch, d, n) = x BY <2>2 DEF Outgoing
  <2> HIDE DEF coins
  <2>6. x[Escrow[ch]][d] = balances[Escrow[ch]][d] + coins[d]
    BY <1>1, <1>2, <2>3, <2>4, SendEffect
  <2> HIDE DEF x
  <2>7. x[Escrow[ch]][d] >= fee BY <1>2, <1>3, <1>4, <2>3, <2>6
  <2>8. QED BY <1>2, <1>3, <2>2, <2>5, <2>7 DEF MayTransfer, HasCoins, fee
<1>7. CASE ~(fee > 0) BY <1>2, <1>3, <1>7 DEF MayTransfer, HasCoins, fee
<1>8. QED BY <1>6, <1>7

(* In every reachable state the escrow accounts can pay every refund and   *)
(* every redemption.                                                       *)
THEOREM EscrowPaysEverybody == TariffOpenSpec => []AnswersAreFunded
<1>1. TariffTypeOK /\ EscrowBacksTransfers => AnswersAreFunded BY AnswersFunded
<1>2. QED BY <1>1, TariffTypeCorrect, EscrowBacksTransfersCorrect, PTL

(* Coins can leave over every channel in every reachable state, under any  *)
(* parameters the validation accepts: the account that pays the fee has    *)
(* just been given the amount, which the fee does not exceed.  The one     *)
(* exception is a fee in the path of a voucher.                            *)
THEOREM CoinsCanLeaveCorrect == TariffOpenSpec => []CoinsCanLeave
BY TransfersFunded, TariffTypeCorrect, PTL

-----------------------------------------------------------------------------
(* The fee is the largest number within the rate and the maximum.          *)
LEMMA FeeIsLargest ==
  ASSUME ValidParams(params), NEW denom, NEW amount \in Nat, Path[denom] = params.denom
  PROVE  /\ TransferFee(denom, amount) * BpsUnit <= amount * params.bps
         /\ TransferFee(denom, amount) <= params.max
         /\ \/ (TransferFee(denom, amount) + 1) * BpsUnit > amount * params.bps
            \/ TransferFee(denom, amount) + 1 > params.max
<1> DEFINE x == amount * params.bps
           q == x \div BpsUnit
           fee == TransferFee(denom, amount)
<1>1. BpsUnit \in Nat \ {0} /\ params.bps \in 0..BpsUnit /\ params.max \in Nat
  BY TariffAssumption DEF ValidParams
<1>2. x \in Nat BY <1>1
<1> HIDE DEF x
<1>3. q \in Nat /\ q * BpsUnit <= x /\ (q + 1) * BpsUnit > x BY <1>1, <1>2
<1>4. fee = IF q > params.max THEN params.max ELSE q BY DEF TransferFee, x
<1> HIDE DEF q, fee
<1>5. CASE q > params.max
  <2>1. (q - params.max) * BpsUnit >= 0 BY <1>1, <1>3, <1>5
  <2>2. q * BpsUnit = params.max * BpsUnit + (q - params.max) * BpsUnit BY <1>1, <1>3
  <2>3. /\ q * BpsUnit \in Int /\ params.max * BpsUnit \in Int
        /\ (q - params.max) * BpsUnit \in Int
    BY <1>1, <1>3
  <2>4. fee = params.max /\ params.max * BpsUnit <= x
    BY <1>2, <1>3, <1>4, <1>5, <2>1, <2>2, <2>3
  <2>5. QED BY <1>1, <2>4 DEF fee, x
<1>6. CASE ~(q > params.max)
  <2>1. fee = q /\ fee <= params.max BY <1>1, <1>3, <1>4, <1>6
  <2>2. QED BY <1>3, <2>1 DEF fee, x
<1>7. QED BY <1>5, <1>6

(* What Transfer does: the sender pays the amount, the collector has the   *)
(* fee, and the one packet that is new carries the rest.                   *)
LEMMA TransferPays ==
  ASSUME TariffTypeOK, NEW u \in User, NEW ch \in Channel, NEW d \in Denom, NEW n \in Nat,
         Transfer(u, ch, d, n),
         NEW p \in Packet, inFlight'[p] > inFlight[p]
  PROVE  /\ p = Sent(u, ch, d, n - TransferFee(d, n))
         /\ balances[u][d] - balances'[u][d] = n
         /\ balances'[FeeCollector][d] - balances[FeeCollector][d] = TransferFee(d, n)
<1> DEFINE coins == Only(d, n)
           fee == TransferFee(d, n)
           s == Sent(u, ch, d, n - fee)
           b == IF Escrowed(ch, d) THEN SendCoins(balances, u, Escrow[ch], coins)
                ELSE SubCoins(balances, u, coins)
<1>1. fee \in 0..n BY Typed, FeeInAmount
<1>2. /\ balances[u][d] >= n
      /\ HasCoins(b, Escrow[ch], d, fee)
      /\ balances' = SendCoins(b, Escrow[ch], FeeCollector, Only(d, fee))
      /\ inFlight' = [inFlight EXCEPT ![s] = @ + 1]
  BY DEF Transfer, SendPacket, Outgoing
<1> HIDE DEF fee, s, b
<1>3. p = s
  <2>1. inFlight \in [Packet -> Nat] BY Typed
  <2>2. p # s => inFlight'[p] = inFlight[p] BY <1>2, <2>1
  <2>3. inFlight[p] \in Nat BY <2>1
  <2>4. QED BY <2>2, <2>3
<1>4. /\ u \in Acc /\ Escrow[ch] \in Acc /\ FeeCollector \in Acc
      /\ u # Escrow[ch] /\ FeeCollector # Escrow[ch] /\ u # FeeCollector
  BY UserAndEscrow
<1>5. coins \in Coins /\ coins[d] = n BY OnlyType
<1>6. Covers(balances[u], coins) BY <1>2, <1>4, Typed, OnlyCovered
<1>7. balances \in Balances /\ \A a \in Acc : balances[a][d] \in Nat BY Typed
<1> HIDE DEF coins
<1>8. /\ b \in Balances
      /\ b[u][d] = balances[u][d] - n
      /\ b[FeeCollector][d] = balances[FeeCollector][d]
  <2>1. CASE Escrowed(ch, d)
    <3>1. b = SendCoins(balances, u, Escrow[ch], coins) BY <2>1 DEF b, coins
    <3>2. /\ b \in Balances
          /\ \A a \in Acc, e \in Denom :
               b[a][e] = IF u = Escrow[ch] THEN balances[a][e]
                         ELSE IF a = u THEN balances[a][e] - coins[e]
                         ELSE IF a = Escrow[ch] THEN balances[a][e] + coins[e]
                         ELSE balances[a][e]
      BY <1>4, <1>5, <1>6, <1>7, <3>1, SendEffect
    <3>3. QED BY <1>4, <1>5, <3>2
  <2>2. CASE ~Escrowed(ch, d)
    <3>1. b = SubCoins(balances, u, coins) BY <2>2 DEF b, coins
    <3>2. /\ b \in Balances
          /\ \A a \in Acc : a # u => b[a] = balances[a]
          /\ b[u][d] = balances[u][d] - coins[d]
      BY <1>4, <1>5, <1>6, <1>7, <3>1, SubEffect
    <3>3. QED BY <1>4, <1>5, <3>2
  <2>3. QED BY <2>1, <2>2
<1>9. b[Escrow[ch]][d] \in Nat /\ b[FeeCollector][d] \in Nat
  BY <1>4, <1>8, AmountType
<1>10. Covers(b[Escrow[ch]], Only(d, fee))
  <2>1. b[Escrow[ch]][d] >= fee BY <1>1, <1>2, <1>9 DEF HasCoins
  <2>2. QED BY <1>1, <1>4, <1>8, <2>1, OnlyCovered
<1>11. Only(d, fee) \in Coins /\ Only(d, fee)[d] = fee BY <1>1, OnlyType
<1>12. /\ balances'[u][d] = b[u][d]
       /\ balances'[FeeCollector][d] = b[FeeCollector][d] + fee
  <2>1. \A a \in Acc, e \in Denom :
          balances'[a][e] = IF Escrow[ch] = FeeCollector THEN b[a][e]
                            ELSE IF a = Escrow[ch] THEN b[a][e] - Only(d, fee)[e]
                            ELSE IF a = FeeCollector THEN b[a][e] + Only(d, fee)[e]
                            ELSE b[a][e]
    BY <1>2, <1>4, <1>8, <1>10, <1>11, SendEffect
  <2>2. QED BY <1>4, <1>11, <2>1
<1>13. balances[u][d] \in Nat /\ balances[FeeCollector][d] \in Nat BY <1>4, <1>7
<1>14. QED BY <1>1, <1>3, <1>8, <1>12, <1>13 DEF s, fee

(* No other step sends a packet.                                           *)
LEMMA OnlyTransferSends ==
  ASSUME TariffTypeOK, TariffNext \/ TariffElsewhere,
         NEW p \in Packet, inFlight'[p] > inFlight[p]
  PROVE  \E u \in User, ch \in Channel, d \in Denom, n \in 1..MaxAmount : Transfer(u, ch, d, n)
<1>1. inFlight \in [Packet -> Nat] BY Typed
<1>2. inFlight' # inFlight BY <1>1
<1>3. ASSUME NEW q \in Packet, inFlight' = [inFlight EXCEPT ![q] = @ - 1] PROVE FALSE
  BY <1>1, <1>3
<1>4. \A q \in Packet : ~Deliver(q) /\ ~Refund(q) BY <1>3 DEF Deliver, Refund
<1>5. ~(UNCHANGED tariffState) BY <1>2 DEF tariffState
<1>6. QED BY <1>2, <1>4, <1>5
          DEF TariffNext, TariffElsewhere, UpdateParams, BeginBlock, PayFee, Redeem

(* Every packet that leaves was charged the fee of the parameters, which   *)
(* the collector has and the sender paid on top of what the packet says.   *)
THEOREM FeeCorrect == TariffOpenSpec => FeeIsTheTariff
<1> DEFINE Charged(p) ==
             LET paid == balances[p.sender][p.denom] - balances'[p.sender][p.denom]
                 fee  == balances'[FeeCollector][p.denom] - balances[FeeCollector][p.denom]
                 ok(n) == n * BpsUnit <= paid * params.bps /\ n <= params.max
             IN  /\ paid = p.amount + fee
                 /\ IF Path[p.denom] = params.denom THEN ok(fee) /\ ~ok(fee + 1) ELSE fee = 0
<1>1. ASSUME TariffTypeOK, TariffNext \/ TariffElsewhere,
             NEW p \in Packet, inFlight'[p] > inFlight[p]
      PROVE  Charged(p)
  <2>1. PICK u \in User, ch \in Channel, d \in Denom, n \in 1..MaxAmount :
          Transfer(u, ch, d, n)
    BY <1>1, OnlyTransferSends
  <2> DEFINE fee == TransferFee(d, n)
  <2>2. n \in Nat BY TariffAssumption
  <2>3. /\ p = Sent(u, ch, d, n - fee)
        /\ balances[u][d] - balances'[u][d] = n
        /\ balances'[FeeCollector][d] - balances[FeeCollector][d] = fee
    BY <1>1, <2>1, <2>2, TransferPays
  <2>4. p.sender = u /\ p.denom = d /\ p.amount = n - fee BY <2>3 DEF Sent
  <2>5. ValidParams(params) /\ fee \in 0..n BY <1>1, <2>2, Typed, FeeInAmount
  <2>6. Path[d] # params.denom => fee = 0 BY DEF TransferFee
  <2>7. Path[d] = params.denom => /\ fee * BpsUnit <= n * params.bps /\ fee <= params.max
                                  /\ \/ (fee + 1) * BpsUnit > n * params.bps
                                     \/ fee + 1 > params.max
    BY <2>2, <2>5, FeeIsLargest
  <2>8. params.bps \in Nat /\ params.max \in Nat /\ BpsUnit \in Nat
    BY <2>5, ParamBounds
  <2> HIDE DEF fee
  <2>9. n = p.amount + fee BY <2>2, <2>4, <2>5
  <2>10. ~((fee + 1) * BpsUnit <= n * params.bps /\ fee + 1 <= params.max)
           \/ Path[d] # params.denom
    BY <2>2, <2>5, <2>7, <2>8
  <2>11. QED BY <2>3, <2>4, <2>6, <2>7, <2>9, <2>10
<1>2. TariffTypeOK /\ [TariffNext \/ TariffElsewhere]_tariffVars
        => [\A p \in Packet : inFlight'[p] > inFlight[p] => Charged(p)]_tariffVars
  BY <1>1
<1>3. QED BY <1>2, TariffTypeCorrect, PTL DEF TariffOpenSpec, FeeIsTheTariff

(* Only the whole rate leaves nothing of a packet.                         *)
THEOREM EmptyPacketCorrect == TariffOpenSpec => EmptyPacketOnlyAtFullRate
<1>1. ASSUME TariffTypeOK, TariffNext \/ TariffElsewhere,
             NEW p \in Packet, inFlight'[p] > inFlight[p], p.amount = 0
      PROVE  params.bps = BpsUnit
  <2>1. PICK u \in User, ch \in Channel, d \in Denom, n \in 1..MaxAmount :
          Transfer(u, ch, d, n)
    BY <1>1, OnlyTransferSends
  <2>2. n \in Nat /\ n >= 1 BY TariffAssumption
  <2>3. TransferFee(d, n) = n
    <3>1. p = Sent(u, ch, d, n - TransferFee(d, n)) BY <1>1, <2>1, <2>2, TransferPays
    <3>2. TransferFee(d, n) \in 0..n BY <1>1, <2>2, Typed, FeeInAmount
    <3>3. QED BY <1>1, <2>2, <3>1, <3>2 DEF Sent
  <2>4. Path[d] = params.denom BY <2>2, <2>3 DEF TransferFee
  <2>5. n * BpsUnit <= n * params.bps BY <1>1, <2>2, <2>3, <2>4, Typed, FeeIsLargest
  <2>6. params.bps \in 0..BpsUnit /\ BpsUnit \in Nat
    BY <1>1, Typed, TariffAssumption DEF ValidParams
  <2>7. CASE params.bps < BpsUnit
    <3>1. n * (BpsUnit - params.bps) >= 1 BY <2>2, <2>6, <2>7
    <3>2. n * BpsUnit = n * params.bps + n * (BpsUnit - params.bps) BY <2>2, <2>6
    <3>3. /\ n * BpsUnit \in Int /\ n * params.bps \in Int
          /\ n * (BpsUnit - params.bps) \in Int
      BY <2>2, <2>6
    <3>4. QED BY <2>5, <3>1, <3>2, <3>3
  <2>8. QED BY <2>6, <2>7
<1>2. TariffTypeOK /\ [TariffNext \/ TariffElsewhere]_tariffVars
        => [\A p \in Packet :
              inFlight'[p] > inFlight[p] /\ p.amount = 0 => params.bps = BpsUnit]_tariffVars
  BY <1>1
<1>3. QED BY <1>2, TariffTypeCorrect, PTL DEF TariffOpenSpec, EmptyPacketOnlyAtFullRate

-----------------------------------------------------------------------------
(* Truncating twice is truncating once.                                    *)
LEMMA DividedTwice ==
  ASSUME NEW x \in Nat, NEW m \in Nat \ {0}
  PROVE  (x \div m) \div m = x \div (m * m)
<1> DEFINE q == x \div m
           r == q \div m
<1>1. q \in Nat /\ q * m <= x /\ x < (q + 1) * m BY QuotientBounds
<1> HIDE DEF q
<1>2. r \in Nat /\ r * m <= q /\ q < (r + 1) * m BY <1>1, QuotientBounds
<1> HIDE DEF r
<1>3. r * m \in Int /\ (r + 1) * m \in Int /\ m * m \in Nat \ {0} BY <1>2
<1>4. (r * m) * m <= q * m BY <1>1, <1>2, <1>3, TimesMonotone
<1>5. (q + 1) * m <= ((r + 1) * m) * m BY <1>1, <1>2, <1>3, TimesMonotone
<1>6. (r * m) * m = r * (m * m) /\ ((r + 1) * m) * m = (r + 1) * (m * m) BY <1>2
<1>7. q * m \in Int /\ (q + 1) * m \in Int /\ r * (m * m) \in Int /\ (r + 1) * (m * m) \in Int
  BY <1>1, <1>2
<1>8. r * (m * m) <= x /\ x < (r + 1) * (m * m) BY <1>1, <1>4, <1>5, <1>6, <1>7
<1>9. x \div (m * m) = r BY <1>2, <1>3, <1>8, QuotientUnique
<1>10. QED BY <1>9 DEF r, q

-----------------------------------------------------------------------------
(* What the entity at place i is due of an amount c, what the first k      *)
(* entities owe one account, and what they owe all that may be paid.       *)
Entities == 1..Len(params.entities)
Account(i) == AccOf[params.entities[i].address]
Due(c, i) == (c * params.share * params.entities[i].share) \div (Prec * Prec)
Dues(c) == [i \in Entities |-> Due(c, i)]
DueTo(c, acc, k) == SumFunctionOnSet(Dues(c), {i \in 1..k : Account(i) = acc})
DueOut(c, k) == SumFunction([acc \in Acc \ Blocked |-> DueTo(c, acc, k)])

LEMMA DueType ==
  ASSUME TariffTypeOK, NEW c \in Nat, NEW i \in Entities
  PROVE  /\ Due(c, i) \in Nat
         /\ Due(c, i) * (Prec * Prec) <= (c * params.share) * params.entities[i].share
<1> DEFINE x == c * params.share * params.entities[i].share
<1>1. /\ Prec \in Nat \ {0} /\ params.share \in Nat /\ params.entities[i].share \in Nat
  BY ValidShares, TariffAssumption DEF Entities
<1>2. x \in Nat /\ Prec * Prec \in Nat \ {0} BY <1>1
<1> HIDE DEF x
<1>3. x \div (Prec * Prec) \in Nat /\ (x \div (Prec * Prec)) * (Prec * Prec) <= x
  BY <1>2, QuotientBounds
<1>4. QED BY <1>3 DEF Due, x

(* The two truncated products of decimals are one quotient.                *)
LEMMA EntityCoinsAreDue ==
  ASSUME TariffTypeOK, NEW coins \in Coins, NEW i \in Entities, NEW d \in Denom
  PROVE  EntityCoins(coins, params.entities[i])[d] = Due(coins[d], i)
<1> DEFINE c == coins[d]
           s == params.share
           e == params.entities[i].share
<1>1. c \in Nat /\ Prec \in Nat \ {0} /\ s \in Nat /\ e \in Nat
  BY ValidShares, TariffAssumption DEF Entities, Coins
<1>2. EntityCoins(coins, params.entities[i])[d]
        = MulDecTruncate(MulDecTruncate(c * Prec, s), e) \div Prec
  BY DEF EntityCoins
<1>3. Due(coins[d], i) = (c * s * e) \div (Prec * Prec) BY DEF Due
<1> HIDE DEF c, s, e
<1>4. MulDecTruncate(c * Prec, s) = c * s
  <2>1. (c * Prec) * s = (c * s) * Prec BY <1>1
  <2>2. c * s \in Nat /\ (c * s) * Prec \in Nat BY <1>1
  <2> DEFINE y == c * s
  <2> HIDE DEF y
  <2>3. y \in Nat /\ y * Prec < (y + 1) * Prec BY <1>1, <2>2 DEF y
  <2>4. (y * Prec) \div Prec = y BY <1>1, <2>3, QuotientUnique
  <2>5. QED BY <2>1, <2>4 DEF MulDecTruncate, y
<1>5. c * s * e \in Nat BY <1>1
<1>6. QED BY <1>1, <1>2, <1>3, <1>4, <1>5, DividedTwice DEF MulDecTruncate

LEMMA PlacesFinite ==
  ASSUME TariffTypeOK
  PROVE  /\ IsFiniteSet(Entities) /\ Len(params.entities) \in Nat
         /\ \A S : S \subseteq Entities => IsFiniteSet(S)
         /\ IsFiniteSet(Acc \ Blocked)
<1>1. Len(params.entities) \in Nat BY ValidShares
<1>2. IsFiniteSet(Entities) BY <1>1, FS_Interval DEF Entities
<1>3. IsFiniteSet(Acc \ Blocked) BY BankAssumption, FS_Subset
<1>4. QED BY <1>1, <1>2, <1>3, FS_Subset

LEMMA DuesType ==
  ASSUME TariffTypeOK, NEW c \in Nat
  PROVE  /\ \A i \in Entities : Dues(c)[i] = Due(c, i) /\ Dues(c)[i] \in Nat
         /\ \A S : S \subseteq Entities => SumFunctionOnSet(Dues(c), S) \in Nat
<1>1. \A i \in Entities : Dues(c)[i] = Due(c, i) /\ Dues(c)[i] \in Nat
  BY DueType DEF Dues
<1>2. ASSUME NEW S, S \subseteq Entities PROVE SumFunctionOnSet(Dues(c), S) \in Nat
  <2>1. \A i \in S : Dues(c)[i] \in Nat BY <1>1, <1>2
  <2>2. QED BY <1>2, <2>1, PlacesFinite, SumType
<1>3. QED BY <1>1, <1>2

(* The shares add up to one, so the entities are due no more than is there. *)
LEMMA DueIsCovered ==
  ASSUME TariffTypeOK, NEW c \in Nat
  PROVE  SumFunctionOnSet(Dues(c), Entities) <= c
<1> DEFINE Share == [i \in Entities |-> params.entities[i].share]
           x == c * params.share
           D(S) == SumFunctionOnSet(Dues(c), S)
           H(S) == SumFunctionOnSet(Share, S)
           PP == Prec * Prec
           Ok(S) == D(S) * PP <= x * H(S)
<1>1. /\ Prec \in Nat \ {0} /\ params.share \in 0..Prec /\ x \in Nat
      /\ \A i \in Entities : Share[i] \in Nat /\ Share[i] = params.entities[i].share
  BY ValidShares, TariffAssumption DEF Entities
<1>2. PP \in Nat \ {0} BY <1>1
<1>3. \A S : S \subseteq Entities => IsFiniteSet(S) /\ D(S) \in Nat /\ H(S) \in Nat
  <2>1. ASSUME NEW S, S \subseteq Entities PROVE H(S) \in Nat
    <3>1. \A i \in S : Share[i] \in Nat /\ Share[i] \in Int BY <1>1, <2>1
    <3>2. IsFiniteSet(S) BY <2>1, PlacesFinite
    <3> HIDE DEF Share
    <3>3. QED BY <3>1, <3>2, SumType
  <2>2. QED BY <2>1, PlacesFinite, DuesType
<1>4. \A i \in Entities : Dues(c)[i] \in Nat /\ Dues(c)[i] * PP <= x * Share[i]
  BY <1>1, DueType, DuesType
<1> HIDE DEF x, PP, Share, Ok
<1>5. Ok(Entities)
  <2> DEFINE B == {S \in SUBSET Entities : ~Ok(S)}
  <2>1. SUFFICES ASSUME B # {} PROVE FALSE OBVIOUS
  <2>2. PICK S \in B : \A i \in S : S \ {i} \notin B BY <2>1, PlacesFinite, SmallestSubset
  <2>3. S \subseteq Entities BY <2>2
  <2>4. S # {}
    <3>1. D({}) = 0 /\ H({}) = 0 BY SumEmpty
    <3>2. Ok({}) BY <1>1, <1>2, <3>1 DEF Ok
    <3>3. QED BY <2>2, <3>2
  <2>5. PICK i \in S : TRUE BY <2>4
  <2> DEFINE T == S \ {i}
  <2>6. T \in SUBSET Entities /\ T \notin B BY <2>2, <2>3
  <2>7. Ok(T) BY <2>6
  <2> HIDE DEF B
  <2>8. D(S) = Dues(c)[i] + D(T)
    <3>1. \A j \in S : Dues(c)[j] \in Int BY <1>4, <2>3
    <3>2. QED BY <1>3, <2>3, <3>1, SumRemove
  <2>9. H(S) = Share[i] + H(T)
    <3>1. \A j \in S : Share[j] \in Int BY <1>1, <2>3
    <3>2. QED BY <1>3, <2>3, <3>1, SumRemove
  <2>10. D(T) \in Nat /\ H(T) \in Nat BY <1>3, <2>6
  <2>11. /\ Dues(c)[i] \in Nat /\ Share[i] \in Nat
         /\ Dues(c)[i] * PP <= x * Share[i]
    BY <1>1, <1>4, <2>3
  <2> DEFINE a == D(T)  b == H(T)  u == Dues(c)[i]  v == Share[i]
  <2>12. a * PP <= x * b BY <2>7 DEF Ok
  <2> HIDE DEF a, b, u, v
  <2>13. (u + a) * PP = u * PP + a * PP /\ x * (v + b) = x * v + x * b
    BY <1>1, <1>2, <2>10, <2>11 DEF a, b, u, v
  <2>14. /\ u * PP \in Int /\ a * PP \in Int /\ x * v \in Int /\ x * b \in Int
    BY <1>1, <1>2, <2>10, <2>11 DEF a, b, u, v
  <2>15. (u + a) * PP <= x * (v + b)
    <3>1. u * PP <= x * v BY <2>11 DEF u, v
    <3>2. QED BY <2>12, <2>13, <2>14, <3>1
  <2>16. Ok(S) BY <2>8, <2>9, <2>15 DEF Ok, a, b, u, v
  <2>17. QED BY <2>2, <2>16 DEF B
<1>6. D(Entities) \in Nat /\ H(Entities) \in Nat BY <1>3
<1>7. CASE Entities = {} BY <1>7, SumEmpty
<1>8. CASE Entities # {}
  <2>1. H(Entities) = Prec
    <3>1. params.entities # <<>> BY <1>8, ValidShares DEF Entities
    <3>2. DOMAIN params.entities = Entities BY ValidShares DEF Entities
    <3>3. SumFunction([i \in Entities |-> params.entities[i].share]) = Prec
      BY <3>1, <3>2, ValidShares
    <3>4. QED BY <3>3 DEF SumFunction, Share
  <2>2. D(Entities) * PP <= x * Prec BY <1>5, <2>1 DEF Ok
  <2>3. x * Prec <= c * PP
    <3>1. (c * Prec) * params.share <= (c * Prec) * Prec
      <4>1. c * Prec \in Nat /\ params.share \in Int /\ Prec \in Int BY <1>1
      <4> DEFINE m == c * Prec
      <4> HIDE DEF m
      <4>2. params.share * m <= Prec * m BY <1>1, <4>1, TimesMonotone DEF m
      <4>3. QED BY <1>1, <4>1, <4>2 DEF m
    <3>2. x * Prec = (c * Prec) * params.share /\ c * PP = (c * Prec) * Prec
      BY <1>1 DEF x, PP
    <3>3. QED BY <3>1, <3>2
  <2>4. x * Prec \in Int /\ c * PP \in Int /\ D(Entities) * PP \in Int BY <1>1, <1>2, <1>6
  <2>5. D(Entities) * PP <= c * PP BY <2>2, <2>3, <2>4
  <2> DEFINE a == D(Entities)
  <2> HIDE DEF a
  <2>6. CASE c + 1 <= a
    <3>1. (c + 1) * PP <= a * PP BY <1>2, <1>6, <2>6, TimesMonotone DEF a
    <3>2. (c + 1) * PP = c * PP + PP BY <1>2
    <3>3. QED BY <1>2, <2>4, <2>5, <3>1, <3>2 DEF a
  <2>7. QED BY <1>6, <2>6 DEF a
<1>9. QED BY <1>7, <1>8

(* The next entity adds to what its account is due, and to no other's.     *)
LEMMA DueToNext ==
  ASSUME TariffTypeOK, NEW c \in Nat, NEW k \in Nat, k + 1 \in Entities, NEW acc
  PROVE  /\ DueTo(c, acc, k) \in Nat
         /\ DueTo(c, acc, k + 1) =
              DueTo(c, acc, k) + (IF Account(k + 1) = acc THEN Due(c, k + 1) ELSE 0)
<1> DEFINE S == {i \in 1..k : Account(i) = acc}
           T == {i \in 1..(k + 1) : Account(i) = acc}
<1>1. Len(params.entities) \in Nat BY ValidShares
<1>2. S \subseteq Entities /\ T \subseteq Entities BY <1>1 DEF Entities
<1>3. IsFiniteSet(T) /\ \A i \in T : Dues(c)[i] \in Int
  BY <1>2, PlacesFinite, DuesType
<1>4. DueTo(c, acc, k) = SumFunctionOnSet(Dues(c), S) /\ DueTo(c, acc, k) \in Nat
  BY <1>2, DuesType DEF DueTo
<1>5. DueTo(c, acc, k + 1) = SumFunctionOnSet(Dues(c), T) BY DEF DueTo
<1>6. Dues(c)[k + 1] = Due(c, k + 1) BY DuesType
<1>7. CASE Account(k + 1) = acc
  <2>1. k + 1 \in T /\ T \ {k + 1} = S BY <1>7
  <2> HIDE DEF S, T
  <2>2. SumFunctionOnSet(Dues(c), T) = Dues(c)[k + 1] + SumFunctionOnSet(Dues(c), S)
    BY <1>3, <2>1, SumRemove
  <2>3. Dues(c)[k + 1] \in Nat BY DuesType
  <2>4. QED BY <1>4, <1>5, <1>6, <1>7, <2>2, <2>3
<1>8. CASE Account(k + 1) # acc
  <2>1. S = T BY <1>8
  <2>2. QED BY <1>4, <1>5, <1>8, <2>1
<1>9. QED BY <1>7, <1>8

LEMMA DueOutNext ==
  ASSUME TariffTypeOK, NEW c \in Nat, NEW k \in Nat, k + 1 \in Entities
  PROVE  /\ DueOut(c, k) \in Nat
         /\ DueOut(c, k + 1) =
              DueOut(c, k) + (IF Account(k + 1) \notin Blocked THEN Due(c, k + 1) ELSE 0)
<1> DEFINE A == Acc \ Blocked
           f == [acc \in A |-> DueTo(c, acc, k)]
           g == [acc \in A |-> DueTo(c, acc, k + 1)]
           i == k + 1
<1>1. DueOut(c, k) = SumFunctionOnSet(f, A) /\ DueOut(c, k + 1) = SumFunctionOnSet(g, A)
  BY DEF DueOut, SumFunction
<1>2. Due(c, i) \in Nat BY DueType
<1>3. \A acc \in A : /\ f[acc] \in Nat
                     /\ g[acc] = f[acc] + (IF Account(i) = acc THEN Due(c, i) ELSE 0)
  BY DueToNext
<1>4. Account(i) \in Acc
  <2>1. params.entities[i].address \in Addr BY ValidShares DEF Entities
  <2>2. QED BY <2>1, AddressAssumption DEF Account
<1>5. IsFiniteSet(A) BY PlacesFinite
<1> HIDE DEF f, g, i, A
<1>6. SumFunctionOnSet(f, A) \in Nat BY <1>3, <1>5, SumType
<1>7. CASE Account(i) \in A
  <2>1. \A acc \in A \ {Account(i)} : g[acc] = f[acc] BY <1>3
  <2>2. g[Account(i)] - f[Account(i)] = Due(c, i) BY <1>2, <1>3, <1>7
  <2>3. \A acc \in A : f[acc] \in Int /\ g[acc] \in Int BY <1>2, <1>3
  <2>4. SumFunctionOnSet(g, A) = SumFunctionOnSet(f, A) + (g[Account(i)] - f[Account(i)])
    BY <1>5, <1>7, <2>1, <2>3, SumChange
  <2>5. Account(i) \notin Blocked BY <1>7 DEF A
  <2>6. QED BY <1>1, <1>6, <2>2, <2>4, <2>5 DEF i
<1>8. CASE Account(i) \notin A
  <2>1. \A acc \in A : f[acc] = g[acc] BY <1>2, <1>3, <1>8
  <2>2. SumFunctionOnSet(f, A) = SumFunctionOnSet(g, A) BY <1>5, <2>1, SumSame
  <2>3. Account(i) \in Blocked BY <1>4, <1>8 DEF A
  <2>4. QED BY <1>1, <1>6, <2>2, <2>3 DEF i
<1>9. QED BY <1>7, <1>8

LEMMA DueAtStart ==
  ASSUME TariffTypeOK, NEW c \in Nat
  PROVE  (\A acc : DueTo(c, acc, 0) = 0) /\ DueOut(c, 0) = 0
<1>1. ASSUME NEW acc PROVE DueTo(c, acc, 0) = 0
  <2>1. {i \in 1..0 : Account(i) = acc} = {} OBVIOUS
  <2>2. QED BY <2>1, SumEmpty DEF DueTo
<1>2. DueOut(c, 0) = 0
  <2> DEFINE f == [acc \in Acc \ Blocked |-> DueTo(c, acc, 0)]
  <2>1. \A acc \in Acc \ Blocked : f[acc] = 0 BY <1>1
  <2>2. DueOut(c, 0) = SumFunctionOnSet(f, Acc \ Blocked) BY DEF DueOut, SumFunction
  <2> HIDE DEF f
  <2>3. QED BY <2>1, <2>2, PlacesFinite, SumZero
<1>3. QED BY <1>1, <1>2

(* After any entity, enough is left for the one that follows.              *)
LEMMA NextIsCovered ==
  ASSUME TariffTypeOK, NEW c \in Nat, NEW k \in Nat, k + 1 \in Entities
  PROVE  DueOut(c, k) + Due(c, k + 1) <= c
<1> DEFINE n == Len(params.entities)
           S(j) == SumFunctionOnSet(Dues(c), 1..j)
<1>1. n \in Nat /\ Entities = 1..n BY ValidShares DEF Entities
<1>2. \A j \in 0..n : S(j) \in Nat
  <2>1. \A j \in 0..n : 1..j \subseteq Entities BY <1>1
  <2>2. QED BY <2>1, DuesType
<1>3. \A j \in Nat : j + 1 \in Entities => S(j + 1) = S(j) + Due(c, j + 1)
  <2>1. SUFFICES ASSUME NEW j \in Nat, j + 1 \in Entities
                 PROVE  S(j + 1) = S(j) + Due(c, j + 1)
    OBVIOUS
  <2> DEFINE T == 1..(j + 1)
  <2>2. T \subseteq Entities /\ j + 1 \in T /\ T \ {j + 1} = 1..j /\ j \in 0..n
    BY <1>1, <2>1
  <2>3. IsFiniteSet(T) /\ \A i \in T : Dues(c)[i] \in Int BY <2>2, PlacesFinite, DuesType
  <2>4. Dues(c)[j + 1] = Due(c, j + 1) /\ Due(c, j + 1) \in Nat BY <2>1, DuesType
  <2>5. S(j + 1) = SumFunctionOnSet(Dues(c), T) OBVIOUS
  <2> HIDE DEF T
  <2>6. SumFunctionOnSet(Dues(c), T) = Dues(c)[j + 1] + S(j) BY <2>2, <2>3, SumRemove
  <2>7. S(j) \in Nat BY <1>2, <2>2
  <2>8. QED BY <2>4, <2>5, <2>6, <2>7
<1>4. \A j \in 0..n : DueOut(c, j) \in Nat /\ DueOut(c, j) <= S(j)
  <2> DEFINE Ok(j) == DueOut(c, j) \in Nat /\ DueOut(c, j) <= S(j)
             Bad == {j \in 0..n : ~Ok(j)}
  <2>1. SUFFICES ASSUME Bad # {} PROVE FALSE OBVIOUS
  <2>2. Bad \in SUBSET Nat BY <1>1
  <2>3. PICK m \in Bad : \A j \in Bad : m <= j BY <2>1, <2>2, Least
  <2>4. m \in 0..n /\ ~Ok(m) BY <2>3
  <2>5. CASE m = 0
    <3>1. S(0) \in Nat BY <1>1, <1>2
    <3>2. DueOut(c, 0) = 0 BY DueAtStart
    <3> HIDE DEF S
    <3>3. QED BY <2>4, <2>5, <3>1, <3>2
  <2>6. CASE m # 0
    <3>1. m - 1 \in Nat /\ (m - 1) + 1 = m /\ m \in Entities /\ m - 1 \in 0..n
          /\ ~(m <= m - 1)
      BY <1>1, <2>4, <2>6
    <3>2. Ok(m - 1) BY <2>3, <3>1
    <3>3. S(m) = S(m - 1) + Due(c, m) BY <1>3, <3>1
    <3>4. DueOut(c, m) =
            DueOut(c, m - 1) + (IF Account(m) \notin Blocked THEN Due(c, m) ELSE 0)
      BY <3>1, DueOutNext
    <3>5. Due(c, m) \in Nat /\ S(m - 1) \in Nat BY <1>2, <3>1, DueType
    <3> HIDE DEF S
    <3>6. Ok(m) BY <3>2, <3>3, <3>4, <3>5
    <3>7. QED BY <2>4, <3>6
  <2>7. QED BY <2>5, <2>6
<1>5. k \in 0..n /\ k + 1 \in 0..n BY <1>1
<1>6. S(k + 1) <= c
  <2>1. 1..(k + 1) \subseteq Entities BY <1>1
  <2>2. S(k + 1) <= SumFunctionOnSet(Dues(c), Entities)
    BY <2>1, PlacesFinite, DuesType, SumOfSubset
  <2>3. SumFunctionOnSet(Dues(c), Entities) <= c BY DueIsCovered
  <2>4. SumFunctionOnSet(Dues(c), Entities) \in Nat BY DuesType
  <2>5. S(k + 1) \in Nat BY <1>2, <1>5
  <2> HIDE DEF S
  <2>6. QED BY <2>2, <2>3, <2>4, <2>5
<1>7. S(k + 1) = S(k) + Due(c, k + 1) BY <1>3
<1>8. /\ DueOut(c, k) \in Nat /\ DueOut(c, k) <= S(k) /\ Due(c, k + 1) \in Nat
      /\ S(k) \in Nat
  BY <1>2, <1>4, <1>5, DueType
<1> HIDE DEF S
<1>9. QED BY <1>6, <1>7, <1>8

(* Where the coins are after the first k entities: no payment fails for    *)
(* want of coins, so one fails only when the bank refuses the account.     *)
Allocated(b, x, k) ==
  /\ x \in Balances
  /\ \A d \in Denom :
       /\ x[FeeCollector][d] = b[FeeCollector][d] - DueOut(b[FeeCollector][d], k)
       /\ \A acc \in Acc \ Blocked : x[acc][d] = b[acc][d] + DueTo(b[FeeCollector][d], acc, k)
       /\ \A acc \in Blocked \ {FeeCollector} : x[acc][d] = b[acc][d]

LEMMA AllocatedNext ==
  ASSUME TariffTypeOK, NEW b \in Balances, NEW k \in Nat, k + 1 \in Entities,
         NEW x, Allocated(b, x, k)
  PROVE  Allocated(b, PayEntity(x, b[FeeCollector], params.entities[k + 1]), k + 1)
<1> DEFINE i == k + 1
           c(d) == b[FeeCollector][d]
           coins == EntityCoins(b[FeeCollector], params.entities[i])
           to == Account(i)
           y == PayEntity(x, b[FeeCollector], params.entities[i])
<1>1. /\ FeeCollector \in Acc \cap Blocked /\ Blocked \subseteq Acc /\ to \in Acc
      /\ b[FeeCollector] \in Coins
  <2>1. params.entities[i].address \in Addr BY ValidShares DEF Entities
  <2>2. to \in Acc BY <2>1, AddressAssumption DEF Account
  <2>3. FeeCollector \in Acc \cap Blocked /\ Blocked \subseteq Acc
    BY AddressAssumption, TariffAssumption
  <2>4. QED BY <2>2, <2>3, AmountType
<1>2. \A d \in Denom : c(d) \in Nat /\ coins[d] = Due(c(d), i) /\ Due(c(d), i) \in Nat
  BY <1>1, EntityCoinsAreDue, DueType DEF Coins
<1>3. coins \in Coins
  <2>1. params.entities[i].share \in Nat /\ params.share \in Nat
    BY ValidShares, TariffAssumption DEF Entities
  <2>2. QED BY <1>1, <2>1, EntityCoinsType
<1>4. \A d \in Denom :
        /\ DueOut(c(d), k) \in Nat
        /\ DueOut(c(d), i) = DueOut(c(d), k) + (IF to \notin Blocked THEN Due(c(d), i) ELSE 0)
        /\ DueOut(c(d), k) + Due(c(d), i) <= c(d)
  BY <1>2, DueOutNext, NextIsCovered
<1>5. \A d \in Denom, acc \in Acc :
        /\ DueTo(c(d), acc, k) \in Nat
        /\ DueTo(c(d), acc, i) = DueTo(c(d), acc, k) + (IF to = acc THEN Due(c(d), i) ELSE 0)
  BY <1>2, DueToNext
<1>6. y = IF to \notin Blocked /\ Covers(x[FeeCollector], coins)
          THEN SendCoins(x, FeeCollector, to, coins) ELSE x
  BY DEF PayEntity, Account
<1>7. /\ x \in Balances
      /\ \A d \in Denom :
           /\ x[FeeCollector][d] = c(d) - DueOut(c(d), k)
           /\ \A acc \in Acc \ Blocked : x[acc][d] = b[acc][d] + DueTo(c(d), acc, k)
           /\ \A acc \in Blocked \ {FeeCollector} : x[acc][d] = b[acc][d]
  BY DEF Allocated
<1>8. \A acc \in Acc, d \in Denom : b[acc][d] \in Nat BY AmountType
<1> HIDE DEF coins, to, i, c
<1>9. Covers(x[FeeCollector], coins)
  <2>1. ASSUME NEW d \in Denom PROVE x[FeeCollector][d] >= coins[d] BY <1>2, <1>4, <1>7
  <2>2. QED BY <2>1 DEF Covers
<1>10. CASE to \notin Blocked
  <2>1. y = SendCoins(x, FeeCollector, to, coins) BY <1>6, <1>9, <1>10
  <2> HIDE DEF y
  <2>2. /\ y \in Balances
        /\ \A a \in Acc, d \in Denom :
             y[a][d] = IF FeeCollector = to THEN x[a][d]
                       ELSE IF a = FeeCollector THEN x[a][d] - coins[d]
                       ELSE IF a = to THEN x[a][d] + coins[d] ELSE x[a][d]
    BY <1>1, <1>3, <1>7, <1>9, <2>1, SendEffect
  <2>3. FeeCollector # to BY <1>1, <1>10
  <2>4. ASSUME NEW d \in Denom
        PROVE  /\ y[FeeCollector][d] = c(d) - DueOut(c(d), i)
               /\ \A acc \in Acc \ Blocked : y[acc][d] = b[acc][d] + DueTo(c(d), acc, i)
               /\ \A acc \in Blocked \ {FeeCollector} : y[acc][d] = b[acc][d]
    <3>1. y[FeeCollector][d] = c(d) - DueOut(c(d), i)
      BY <1>1, <1>2, <1>4, <1>7, <1>10, <2>2, <2>3
    <3>2. ASSUME NEW acc \in Acc \ Blocked PROVE y[acc][d] = b[acc][d] + DueTo(c(d), acc, i)
      <4>1. acc # FeeCollector BY <1>1
      <4>2. y[acc][d] = IF acc = to THEN x[acc][d] + coins[d] ELSE x[acc][d]
        BY <2>2, <2>3, <4>1
      <4>3. x[acc][d] = b[acc][d] + DueTo(c(d), acc, k) BY <1>7
      <4>4. QED BY <1>2, <1>5, <1>8, <4>2, <4>3
    <3>3. \A acc \in Blocked \ {FeeCollector} : y[acc][d] = b[acc][d]
      BY <1>1, <1>7, <1>10, <2>2, <2>3
    <3>4. QED BY <3>1, <3>2, <3>3
  <2>5. QED BY <2>2, <2>4 DEF Allocated, c, i, y
<1>11. CASE to \in Blocked
  <2>1. y = x BY <1>6, <1>11
  <2> HIDE DEF y
  <2>2. \A d \in Denom : DueOut(c(d), i) = DueOut(c(d), k) BY <1>4, <1>11
  <2>3. \A d \in Denom, acc \in Acc \ Blocked : DueTo(c(d), acc, i) = DueTo(c(d), acc, k)
    BY <1>5, <1>11
  <2>4. QED BY <1>7, <2>1, <2>2, <2>3 DEF Allocated, c, i, y
<1>12. QED BY <1>10, <1>11

LEMMA AllAllocated ==
  ASSUME TariffTypeOK, NEW b \in Balances
  PROVE  Allocated(b, AllocateTokens(b), Len(params.entities))
<1> DEFINE n == Len(params.entities)
<1>1. n \in Nat /\ Entities = 1..n BY ValidShares DEF Entities
<1>2. PICK Paid : /\ Paid = [i \in 0..n |->
                             IF i = 0 THEN b
                             ELSE PayEntity(Paid[i-1], b[FeeCollector], params.entities[i])]
                  /\ AllocateTokens(b) = Paid[n]
  BY AllocationRuns
<1>3. Allocated(b, b, 0)
  <2>1. \A acc \in Acc, d \in Denom : b[acc][d] \in Nat BY AmountType
  <2>2. FeeCollector \in Acc /\ Blocked \subseteq Acc BY Accounts
  <2>3. ASSUME NEW d \in Denom
        PROVE  /\ b[FeeCollector][d] = b[FeeCollector][d] - DueOut(b[FeeCollector][d], 0)
               /\ \A acc \in Acc \ Blocked :
                    b[acc][d] = b[acc][d] + DueTo(b[FeeCollector][d], acc, 0)
    <3>1. DueOut(b[FeeCollector][d], 0) = 0 BY <2>1, <2>2, DueAtStart
    <3>2. \A acc : DueTo(b[FeeCollector][d], acc, 0) = 0 BY <2>1, <2>2, DueAtStart
    <3>3. QED BY <2>1, <2>2, <3>1, <3>2
  <2>4. QED BY <2>3 DEF Allocated
<1> HIDE DEF n
<1>4. \A i \in 0..n : Allocated(b, Paid[i], i)
  <2> DEFINE Bad == {i \in 0..n : ~Allocated(b, Paid[i], i)}
  <2>1. SUFFICES ASSUME Bad # {} PROVE FALSE OBVIOUS
  <2>2. Bad \in SUBSET Nat BY <1>1
  <2>3. PICK m \in Bad : \A k \in Bad : m <= k BY <2>1, <2>2, Least
  <2>4. m \in 0..n /\ ~Allocated(b, Paid[m], m) BY <2>3
  <2>5. Paid[m] = IF m = 0 THEN b
                  ELSE PayEntity(Paid[m-1], b[FeeCollector], params.entities[m])
    BY <1>2, <2>4
  <2>6. m # 0 BY <1>3, <2>4, <2>5
  <2>7. m - 1 \in Nat /\ (m - 1) + 1 = m /\ m \in Entities /\ m - 1 \in 0..n
        /\ ~(m <= m - 1)
    BY <1>1, <2>4, <2>6
  <2>8. Allocated(b, Paid[m-1], m - 1) BY <2>3, <2>7
  <2>9. Allocated(b, PayEntity(Paid[m-1], b[FeeCollector], params.entities[(m - 1) + 1]), (m - 1) + 1)
    BY <2>7, <2>8, AllocatedNext
  <2>10. QED BY <2>4, <2>5, <2>6, <2>7, <2>9
<1>5. Allocated(b, Paid[n], n) BY <1>1, <1>4
<1>6. QED BY <1>2, <1>5 DEF n

(* Every account that is not blocked is paid the whole part of its shares   *)
(* of the fees, and the distribution module gets the rest.                 *)
THEOREM AllocationCorrect == TariffOpenSpec => AllocationIsTheShare
<1> DEFINE Shared(d) ==
             LET collected == balances[FeeCollector][d]
                 gain(acc) == balances'[acc][d] - balances[acc][d]
                 DueOf(e)    == (collected * params.share * e.share) \div (Prec * Prec)
                 named(acc) ==
                   {i \in DOMAIN params.entities : AccOf[params.entities[i].address] = acc}
                 due == [acc \in Acc \ Blocked |->
                           SumFunction([i \in named(acc) |-> DueOf(params.entities[i])])]
             IN /\ \A acc \in Acc \ Blocked : gain(acc) = due[acc]
                /\ balances'[FeeCollector][d] = 0
                /\ gain(Distribution) = collected - SumFunction(due)
<1>1. ASSUME TariffTypeOK, BeginBlock, NEW d \in Denom PROVE Shared(d)
  <2> DEFINE n == Len(params.entities)
             x == AllocateTokens(balances)
             c == balances[FeeCollector][d]
             named(acc) ==
               {i \in DOMAIN params.entities : AccOf[params.entities[i].address] = acc}
             Of(i) == (c * params.share * params.entities[i].share) \div (Prec * Prec)
             due == [acc \in Acc \ Blocked |-> SumFunction([i \in named(acc) |-> Of(i)])]
  <2>1. /\ FeeCollector \in Acc \cap Blocked /\ Distribution \in Acc \cap Blocked
        /\ FeeCollector # Distribution /\ Blocked \subseteq Acc
    BY AddressAssumption, TariffAssumption
  <2>2. /\ balances \in Balances /\ c \in Nat
        /\ \A acc \in Acc : balances[acc][d] \in Nat
    BY <1>1, <2>1, Typed
  <2>3. Allocated(balances, x, n) BY <1>1, <2>2, AllAllocated
  <2>4. balances' = SendCoins(x, FeeCollector, Distribution, x[FeeCollector])
    BY <1>1 DEF BeginBlock, DistributeRest
  <2> HIDE DEF x, n
  <2>5. /\ x \in Balances /\ x[FeeCollector] \in Coins
        /\ \A acc \in Acc, e \in Denom : x[acc][e] \in Nat
    BY <2>1, <2>3, AmountType DEF Allocated
  <2>6. Covers(x[FeeCollector], x[FeeCollector]) BY <2>1, <2>5 DEF Covers
  <2>7. \A acc \in Acc :
          balances'[acc][d] = IF acc = FeeCollector THEN x[acc][d] - x[FeeCollector][d]
                              ELSE IF acc = Distribution THEN x[acc][d] + x[FeeCollector][d]
                              ELSE x[acc][d]
    BY <2>1, <2>4, <2>5, <2>6, SendEffect
  <2>8. /\ x[FeeCollector][d] = c - DueOut(c, n)
        /\ \A acc \in Acc \ Blocked : x[acc][d] = balances[acc][d] + DueTo(c, acc, n)
        /\ x[Distribution][d] = balances[Distribution][d]
    BY <2>1, <2>3 DEF Allocated
  <2>9. \A acc \in Acc \ Blocked : due[acc] = DueTo(c, acc, n) /\ DueTo(c, acc, n) \in Nat
    <3>1. SUFFICES ASSUME NEW acc \in Acc \ Blocked
                   PROVE  due[acc] = DueTo(c, acc, n) /\ DueTo(c, acc, n) \in Nat
      OBVIOUS
    <3> DEFINE S == named(acc)
               f == [i \in S |-> Of(i)]
    <3>2. S \subseteq Entities /\ S = {i \in 1..n : Account(i) = acc}
      BY <1>1, ValidShares DEF Entities, Account, n
    <3>3. due[acc] = SumFunctionOnSet(f, S) BY DEF SumFunction
    <3>4. \A i \in S : f[i] = Dues(c)[i] BY <3>2 DEF Dues, Due
    <3>5. DueTo(c, acc, n) = SumFunctionOnSet(Dues(c), S) BY <3>2 DEF DueTo
    <3> HIDE DEF f, S
    <3>6. IsFiniteSet(S) BY <1>1, <3>2, PlacesFinite
    <3>7. SumFunctionOnSet(f, S) = SumFunctionOnSet(Dues(c), S) BY <3>4, <3>6, SumSame
    <3>8. SumFunctionOnSet(Dues(c), S) \in Nat BY <1>1, <2>2, <3>2, DuesType
    <3>9. QED BY <3>3, <3>5, <3>7, <3>8
  <2>10. SumFunction(due) = DueOut(c, n)
    <3>1. due = [acc \in Acc \ Blocked |-> DueTo(c, acc, n)] BY <2>9
    <3>2. QED BY <3>1 DEF DueOut
  <2>11. DueOut(c, n) \in Int
    <3>1. \A acc \in Acc \ Blocked : [a \in Acc \ Blocked |-> DueTo(c, a, n)][acc] \in Nat
      BY <2>9
    <3>2. QED BY <1>1, <3>1, PlacesFinite, SumType DEF DueOut, SumFunction
  <2> HIDE DEF c, due
  <2>12. \A acc \in Acc \ Blocked : balances'[acc][d] - balances[acc][d] = due[acc]
    BY <2>1, <2>2, <2>7, <2>8, <2>9
  <2>13. balances'[FeeCollector][d] = 0 BY <2>1, <2>5, <2>7
  <2>14. balances'[Distribution][d] - balances[Distribution][d] = c - SumFunction(due)
    BY <2>1, <2>2, <2>7, <2>8, <2>10, <2>11
  <2>15. QED BY <2>12, <2>13, <2>14 DEF c, due
<1>2. TariffTypeOK /\ [TariffNext \/ TariffElsewhere]_tariffVars
        => [BeginBlock => \A d \in Denom : Shared(d)]_tariffVars
  BY <1>1
<1>3. QED BY <1>2, TariffTypeCorrect, PTL DEF TariffOpenSpec, AllocationIsTheShare
=============================================================================
