----------------------------- MODULE Bank_proofs -----------------------------
(***************************************************************************)
(* What the operations of the bank do to balances, coin by coin, and to    *)
(* the supply of a coin, which is a sum over all accounts: the lemmas that *)
(* the proofs about the token factory and the tariff cite.                 *)
(***************************************************************************)
EXTENDS Bank, Numbers_proofs

(* Two states of the bank with the same amounts are the same.              *)
LEMMA SameBalances ==
  ASSUME NEW b \in Balances, NEW c \in Balances,
         \A a \in Acc, d \in Denom : b[a][d] = c[a][d]
  PROVE  b = c
<1>1. \A a \in Acc : b[a] = c[a]
  <2>1. SUFFICES ASSUME NEW a \in Acc PROVE b[a] = c[a] OBVIOUS
  <2>2. b[a] \in [Denom -> Nat] /\ c[a] \in [Denom -> Nat] BY DEF Balances, Coins
  <2>3. \A d \in Denom : b[a][d] = c[a][d] OBVIOUS
  <2>4. QED BY <2>2, <2>3
<1>2. b \in [Acc -> Coins] /\ c \in [Acc -> Coins] BY DEF Balances
<1>3. QED BY <1>1, <1>2

LEMMA AmountType ==
  ASSUME NEW b \in Balances
  PROVE  /\ \A a \in Acc : b[a] \in Coins
         /\ \A a \in Acc, d \in Denom : b[a][d] \in Nat
BY DEF Balances, Coins

LEMMA OnlyType ==
  ASSUME NEW d \in Denom, NEW n \in Nat
  PROVE  /\ Only(d, n) \in Coins
         /\ \A e \in Denom : Only(d, n)[e] = IF e = d THEN n ELSE 0
BY DEF Only, Coins

LEMMA OnlyCovered ==
  ASSUME NEW b \in Balances, NEW a \in Acc, NEW d \in Denom, NEW n \in Nat, b[a][d] >= n
  PROVE  Covers(b[a], Only(d, n))
BY DEF Balances, Coins, Covers, Only

LEMMA AddEffect ==
  ASSUME NEW b \in Balances, NEW acc \in Acc, NEW coins \in Coins
  PROVE  /\ AddCoins(b, acc, coins) \in Balances
         /\ \A a \in Acc : a # acc => AddCoins(b, acc, coins)[a] = b[a]
         /\ \A d \in Denom : AddCoins(b, acc, coins)[acc][d] = b[acc][d] + coins[d]
BY DEF AddCoins, Balances, Coins

LEMMA SubEffect ==
  ASSUME NEW b \in Balances, NEW acc \in Acc, NEW coins \in Coins, Covers(b[acc], coins)
  PROVE  /\ SubCoins(b, acc, coins) \in Balances
         /\ \A a \in Acc : a # acc => SubCoins(b, acc, coins)[a] = b[a]
         /\ \A d \in Denom : SubCoins(b, acc, coins)[acc][d] = b[acc][d] - coins[d]
BY DEF SubCoins, Balances, Coins, Covers

(* A transfer moves the coins and nothing else, also when an account pays  *)
(* itself.                                                                 *)
LEMMA SendEffect ==
  ASSUME NEW b \in Balances, NEW from \in Acc, NEW to \in Acc, NEW coins \in Coins,
         Covers(b[from], coins)
  PROVE  /\ SendCoins(b, from, to, coins) \in Balances
         /\ \A a \in Acc, d \in Denom :
              SendCoins(b, from, to, coins)[a][d] =
                IF from = to THEN b[a][d]
                ELSE IF a = from THEN b[a][d] - coins[d]
                ELSE IF a = to THEN b[a][d] + coins[d] ELSE b[a][d]
<1> DEFINE x == SubCoins(b, from, coins)
           c == AddCoins(x, to, coins)
<1>1. \A d \in Denom : coins[d] \in Nat /\ \A a \in Acc : b[a][d] \in Nat
  BY DEF Balances, Coins
<1>2. /\ x \in Balances
      /\ \A a \in Acc : a # from => x[a] = b[a]
      /\ \A d \in Denom : x[from][d] = b[from][d] - coins[d]
  BY SubEffect
<1> HIDE DEF x
<1>3. /\ c \in Balances
      /\ \A a \in Acc : a # to => c[a] = x[a]
      /\ \A d \in Denom : c[to][d] = x[to][d] + coins[d]
  BY <1>2, AddEffect
<1> HIDE DEF c
<1>4. \A a \in Acc, d \in Denom :
        c[a][d] = IF from = to THEN b[a][d]
                  ELSE IF a = from THEN b[a][d] - coins[d]
                  ELSE IF a = to THEN b[a][d] + coins[d] ELSE b[a][d]
  BY <1>1, <1>2, <1>3
<1>5. SendCoins(b, from, to, coins) = c BY DEF SendCoins, c, x
<1>6. QED BY <1>3, <1>4, <1>5

(* One amount changed by n, which it can bear.                             *)
LEMMA ChangedBalance ==
  ASSUME NEW b \in Balances, NEW acc \in Acc, NEW d \in Denom, NEW n \in Int,
         b[acc][d] + n >= 0
  PROVE  /\ [b EXCEPT ![acc][d] = @ + n] \in Balances
         /\ \A a \in Acc, e \in Denom :
              [b EXCEPT ![acc][d] = @ + n][a][e] =
                b[a][e] + (IF a = acc /\ e = d THEN n ELSE 0)
BY DEF Balances, Coins

-----------------------------------------------------------------------------
LEMMA SupplyType ==
  ASSUME NEW b \in Balances, NEW d \in Denom
  PROVE  TotalSupply(b, d) \in Nat
<1> DEFINE f == [acc \in Acc |-> b[acc][d]]
<1>1. IsFiniteSet(Acc) BY BankAssumption
<1>2. \A a \in Acc : f[a] \in Nat BY AmountType
<1>3. TotalSupply(b, d) = SumFunctionOnSet(f, Acc) BY DEF TotalSupply, SumFunction
<1> HIDE DEF f
<1>4. QED BY <1>1, <1>2, <1>3, SumType

(* The supply follows the one account that has more or less than before.   *)
LEMMA SupplyChange ==
  ASSUME NEW b \in Balances, NEW c \in Balances, NEW d \in Denom, NEW acc \in Acc,
         \A a \in Acc \ {acc} : c[a][d] = b[a][d]
  PROVE  TotalSupply(c, d) = TotalSupply(b, d) + (c[acc][d] - b[acc][d])
<1> DEFINE f == [a \in Acc |-> b[a][d]]
           g == [a \in Acc |-> c[a][d]]
<1>1. IsFiniteSet(Acc) BY BankAssumption
<1>2. \A a \in Acc : f[a] \in Nat /\ g[a] \in Nat BY AmountType
<1>3. /\ TotalSupply(b, d) = SumFunctionOnSet(f, Acc)
      /\ TotalSupply(c, d) = SumFunctionOnSet(g, Acc)
  BY DEF TotalSupply, SumFunction
<1>4. \A a \in Acc \ {acc} : g[a] = f[a] OBVIOUS
<1>5. f[acc] = b[acc][d] /\ g[acc] = c[acc][d] OBVIOUS
<1> HIDE DEF f, g
<1>6. SumFunctionOnSet(g, Acc) = SumFunctionOnSet(f, Acc) + (g[acc] - f[acc])
  BY <1>1, <1>2, <1>4, SumChange
<1>7. QED BY <1>3, <1>5, <1>6

LEMMA AddSupply ==
  ASSUME NEW b \in Balances, NEW acc \in Acc, NEW coins \in Coins, NEW d \in Denom
  PROVE  TotalSupply(AddCoins(b, acc, coins), d) = TotalSupply(b, d) + coins[d]
<1> DEFINE c == AddCoins(b, acc, coins)
<1>1. /\ c \in Balances
      /\ \A a \in Acc : a # acc => c[a] = b[a]
      /\ c[acc][d] = b[acc][d] + coins[d]
  BY AddEffect
<1> HIDE DEF c
<1>2. TotalSupply(c, d) = TotalSupply(b, d) + (c[acc][d] - b[acc][d]) BY <1>1, SupplyChange
<1>3. b[acc][d] \in Nat /\ coins[d] \in Nat BY AmountType DEF Coins
<1>4. QED BY <1>1, <1>2, <1>3 DEF c

LEMMA SubSupply ==
  ASSUME NEW b \in Balances, NEW acc \in Acc, NEW coins \in Coins, Covers(b[acc], coins),
         NEW d \in Denom
  PROVE  TotalSupply(SubCoins(b, acc, coins), d) = TotalSupply(b, d) - coins[d]
<1> DEFINE c == SubCoins(b, acc, coins)
<1>1. /\ c \in Balances
      /\ \A a \in Acc : a # acc => c[a] = b[a]
      /\ c[acc][d] = b[acc][d] - coins[d]
  BY SubEffect
<1> HIDE DEF c
<1>2. TotalSupply(c, d) = TotalSupply(b, d) + (c[acc][d] - b[acc][d]) BY <1>1, SupplyChange
<1>3. b[acc][d] \in Nat /\ coins[d] \in Nat BY AmountType DEF Coins
<1>4. TotalSupply(b, d) \in Nat BY SupplyType
<1>5. QED BY <1>1, <1>2, <1>3, <1>4 DEF c

(* Sending coins neither creates nor destroys any.                         *)
LEMMA SendSupply ==
  ASSUME NEW b \in Balances, NEW from \in Acc, NEW to \in Acc, NEW coins \in Coins,
         Covers(b[from], coins), NEW d \in Denom
  PROVE  TotalSupply(SendCoins(b, from, to, coins), d) = TotalSupply(b, d)
<1> DEFINE x == SubCoins(b, from, coins)
<1>1. x \in Balances BY SubEffect
<1>2. TotalSupply(x, d) = TotalSupply(b, d) - coins[d] BY SubSupply
<1> HIDE DEF x
<1>3. TotalSupply(AddCoins(x, to, coins), d) = TotalSupply(x, d) + coins[d] BY <1>1, AddSupply
<1>4. TotalSupply(b, d) \in Nat /\ coins[d] \in Nat BY SupplyType DEF Coins
<1>5. QED BY <1>2, <1>3, <1>4 DEF SendCoins, x

LEMMA ChangedSupply ==
  ASSUME NEW b \in Balances, NEW acc \in Acc, NEW d \in Denom, NEW n \in Int,
         b[acc][d] + n >= 0
  PROVE  TotalSupply([b EXCEPT ![acc][d] = @ + n], d) = TotalSupply(b, d) + n
<1> DEFINE c == [b EXCEPT ![acc][d] = @ + n]
<1>1. /\ c \in Balances
      /\ \A a \in Acc : c[a][d] = b[a][d] + (IF a = acc THEN n ELSE 0)
  BY ChangedBalance
<1> HIDE DEF c
<1>2. \A a \in Acc : b[a][d] \in Nat BY AmountType
<1>3. TotalSupply(c, d) = TotalSupply(b, d) + (c[acc][d] - b[acc][d])
  BY <1>1, <1>2, SupplyChange
<1>4. TotalSupply(b, d) \in Nat BY SupplyType
<1>5. QED BY <1>1, <1>2, <1>3, <1>4 DEF c
=============================================================================
