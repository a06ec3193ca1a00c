----------------------------- MODULE GlobalFee ------------------------------
(***************************************************************************)
(* x/globalfee: the minimum fee of a transaction, asked for when a node    *)
(* checks it for its mempool and never when a block is executed.           *)
(*                                                                         *)
(* A coin is a denomination and an amount, coins are a sequence of them.   *)
(* Denominations are numbered in the alphabetical order the code sorts     *)
(* them in.  A gas price counts units of 1/PriceUnit of a coin.            *)
(***************************************************************************)
EXTENDS Integers, Sequences, FiniteSets

CONSTANTS
  Denom,         \* denominations, by rank
  BondDenom,     \* the staking parameter that stands in for an empty price list
  PriceUnit,     \* sdk.Dec counts units of 1/PriceUnit (10^18)
  MaxBypassGas,  \* maxTotalBypassMinFeeMsgGasUsage
  Node,
  NodePrices,    \* NodePrices[n]: minimum-gas-prices in the configuration of n
  MsgType,       \* the types of messages
  Tx,            \* transactions; the coins of a fee in any order
  Submitted,     \* those of Tx that users send to the nodes
  ParamSets,     \* values proposed for the parameters, valid or not
  MaxMempool     \* how many transactions a node keeps

Coins == Seq([denom : Denom, amount : Nat])

Ascending(coins) ==
  \A i, j \in DOMAIN coins : i < j => coins[i].denom < coins[j].denom

(* The coins of a fee name a denomination once: the SDK's deduction of the  *)
(* fee, later in the same ante chain, refuses any other list.              *)
Distinct(coins) ==
  \A i, j \in DOMAIN coins : coins[i].denom = coins[j].denom => i = j

Transaction ==
  [fee : {c \in Coins : Distinct(c)}, gas : Nat \ {0}, msgs : (SUBSET MsgType) \ {{}}]

ASSUME FeeAssumption ==
  /\ Denom \subseteq Nat /\ BondDenom \in Denom
  /\ PriceUnit \in Nat \ {0} /\ MaxBypassGas \in Nat /\ MaxMempool \in Nat
  /\ \A n \in Node : /\ NodePrices[n] \in Coins /\ Ascending(NodePrices[n])
                     /\ \A i \in DOMAIN NodePrices[n] : NodePrices[n][i].amount > 0
  /\ Tx \subseteq Transaction /\ Submitted \subseteq Tx
  /\ \A p \in ParamSets : p.prices \in Seq([denom : Denom, amount : Int])

VARIABLES
  params,   \* [prices, bypass]: the global gas prices, the bypass message types
  mempool   \* mempool[n]: the transactions node n keeps for a block

vars == <<params, mempool>>

-----------------------------------------------------------------------------
(* Mutant of ValidPrices: the order of the denominations is not looked at. *)
ValidPricesUnsorted(prices) == \A i \in DOMAIN prices : prices[i].amount >= 0

(* DecCoins.Validate: sorted by denomination, no duplicates, no amount     *)
(* below zero; a price of zero is allowed.                                 *)
ValidPrices(prices) ==
  /\ \A i \in DOMAIN prices : prices[i].amount >= 0
  /\ \A i \in 2..Len(prices) : prices[i].denom > prices[i-1].denom

-----------------------------------------------------------------------------
(* Coins.Sort, by denomination: a coin's place is one more than the number *)
(* of coins that come before it.                                           *)
Place(coins, i) == Cardinality({j \in DOMAIN coins : coins[j].denom < coins[i].denom}) + 1
Sort(coins) ==
  [k \in DOMAIN coins |-> coins[CHOOSE i \in DOMAIN coins : Place(coins, i) = k]]

(* Mutant of Find: the upper half starts one coin too late.                *)
FindSkips(coins, denom) ==
  LET InSlice[s \in (1..Len(coins)+1) \X (0..Len(coins))] ==
        LET lo == s[1]  hi == s[2]  mid == lo + (hi - lo + 1) \div 2 IN
        IF lo > hi THEN 0
        ELSE IF lo = hi THEN IF coins[lo].denom = denom THEN lo ELSE 0
        ELSE IF denom < coins[mid].denom THEN InSlice[<<lo, mid - 1>>]
        ELSE IF denom = coins[mid].denom THEN mid
        ELSE IF mid + 2 > hi THEN 0 ELSE InSlice[<<mid + 2, hi>>]
  IN InSlice[<<1, Len(coins)>>]

(* Find: a binary search in coins[lo..hi]; where the denomination is, or 0. *)
Find(coins, denom) ==
  LET InSlice[s \in (1..Len(coins)+1) \X (0..Len(coins))] ==
        LET lo == s[1]  hi == s[2]  mid == lo + (hi - lo + 1) \div 2 IN
        IF lo > hi THEN 0
        ELSE IF lo = hi THEN IF coins[lo].denom = denom THEN lo ELSE 0
        ELSE IF denom < coins[mid].denom THEN InSlice[<<lo, mid - 1>>]
        ELSE IF denom = coins[mid].denom THEN mid
        ELSE InSlice[<<mid + 1, hi>>]
  IN InSlice[<<1, Len(coins)>>]

(* What gas costs at a list of prices, each rounded up to whole coins.     *)
Cost(prices, gas) ==
  [i \in DOMAIN prices |->
     [prices[i] EXCEPT !.amount = (@ * gas + PriceUnit - 1) \div PriceUnit]]

(* getGlobalFee: an empty price list asks for zero of the bond denom.      *)
GlobalFees(gas) ==
  Sort(Cost(IF params.prices = <<>> THEN <<[denom |-> BondDenom, amount |-> 0]>>
            ELSE params.prices, gas))

(* getMinGasPrice: when every price is zero the result names no denom.     *)
NodeFees(prices, gas) ==
  IF \A i \in DOMAIN prices : prices[i].amount = 0 THEN <<>>
  ELSE Sort(Cost(prices, gas))

(* Mutant of CombinedFeeRequirement: a node's lower price wins as well.    *)
CombinedPrefersNode(global, node) ==
  [i \in DOMAIN global |->
     LET k == Find(node, global[i].denom) IN IF k # 0 THEN node[k] ELSE global[i]]

(* CombinedFeeRequirement: the global fees, raised where the node asks for *)
(* more.  What the node asks for in other denominations is left out.       *)
CombinedFeeRequirement(global, node) ==
  [i \in DOMAIN global |->
     LET k == Find(node, global[i].denom) IN
     IF k # 0 /\ node[k].amount > global[i].amount THEN node[k] ELSE global[i]]

DenomsSubsetOfIncludingZero(fee, required) ==
  /\ Len(fee) <= Len(required)
  /\ \A i \in DOMAIN fee : Find(required, fee[i].denom) # 0

ContainZeroCoins(coins) == coins = <<>> \/ \E i \in DOMAIN coins : coins[i].amount = 0

IsAnyGTEIncludingZero(fee, required) ==
  \/ fee = <<>> /\ ContainZeroCoins(required)
  \/ \E i \in DOMAIN fee :
       LET k == Find(required, fee[i].denom) IN
       k # 0 /\ fee[i].amount >= required[k].amount

MayBypass(tx) == tx.msgs \subseteq params.bypass /\ tx.gas <= MaxBypassGas

(* Mutant of FeeDecorator: a bypass transaction may pay in the denominations *)
(* of the node only.                                                       *)
FeeDecoratorAsksNode(prices, tx) ==
  LET fee    == Sort(tx.fee)
      global == GlobalFees(tx.gas)
      all    == CombinedFeeRequirement(global, NodeFees(prices, tx.gas))
  IN IF MayBypass(tx)
     THEN fee = <<>> \/ DenomsSubsetOfIncludingZero(fee, NodeFees(prices, tx.gas))
     ELSE DenomsSubsetOfIncludingZero(fee, all) /\ IsAnyGTEIncludingZero(fee, all)

(* FeeDecorator.AnteHandle when a transaction is checked.                  *)
FeeDecorator(prices, tx) ==
  LET fee    == Sort(tx.fee)
      global == GlobalFees(tx.gas)
      all    == CombinedFeeRequirement(global, NodeFees(prices, tx.gas))
  IN IF MayBypass(tx)
     THEN fee = <<>> \/ DenomsSubsetOfIncludingZero(fee, global)
     ELSE DenomsSubsetOfIncludingZero(fee, all) /\ IsAnyGTEIncludingZero(fee, all)

(* The SDK's MempoolFeeDecorator, earlier in the same ante chain: a node   *)
(* with prices wants one of them paid.                                     *)
MempoolFee(prices, tx) ==
  prices # <<>> =>
    \E i \in DOMAIN tx.fee, j \in DOMAIN prices :
      /\ tx.fee[i].denom = prices[j].denom
      /\ tx.fee[i].amount >= Cost(prices, tx.gas)[j].amount

(* The two checks of the amount of the fee.  Whether the account can pay it *)
(* is the business of a later decorator.                                   *)
Accepts(prices, tx) == MempoolFee(prices, tx) /\ FeeDecorator(prices, tx)

-----------------------------------------------------------------------------
Init ==
  /\ params \in {p \in ParamSets : ValidPrices(p.prices)}
  /\ mempool = [n \in Node |-> {}]

(* A node receives a transaction.                                          *)
CheckTx(n, tx) ==
  /\ Cardinality(mempool[n]) < MaxMempool
  /\ Accepts(NodePrices[n], tx)
  /\ mempool' = [mempool EXCEPT ![n] = @ \cup {tx}]
  /\ UNCHANGED params

(* Mutant of Block: a recheck passes everything.                           *)
BlockSkipsRecheck(included, new) ==
  /\ ValidPrices(new.prices)
  /\ params' = new
  /\ mempool' = [n \in Node |-> mempool[n] \ included]

(* A block is executed, in which the fee decorator passes everything and a *)
(* message may change the parameters.  Every node drops the block's        *)
(* transactions and checks those it still keeps against the new state.     *)
Block(included, new) ==
  /\ ValidPrices(new.prices)
  /\ params' = new
  /\ mempool' = [n \in Node |->
                   {tx \in mempool[n] \ included : Accepts(NodePrices[n], tx)'}]

Next ==
  \/ \E n \in Node, tx \in Submitted : CheckTx(n, tx)
  \/ \E included \in SUBSET UNION {mempool[n] : n \in Node}, new \in ParamSets :
       Block(included, new)

Spec == Init /\ [][Next]_vars

-----------------------------------------------------------------------------
TypeOK ==
  /\ params.prices \in Coins /\ Ascending(params.prices)
  /\ mempool \in [Node -> SUBSET Submitted]
  /\ \A n \in Node : Cardinality(mempool[n]) <= MaxMempool

(* The rule of the check, without lists, searches and rounding: who charges *)
(* how much for a denomination, and what is paid.                          *)
PriceIn(prices, d) ==
  LET listed == {i \in DOMAIN prices : prices[i].denom = d} IN
  IF listed = {} THEN 0 ELSE prices[CHOOSE i \in listed : TRUE].amount

Listed ==
  IF params.prices = <<>> THEN {BondDenom}
  ELSE {params.prices[i].denom : i \in DOMAIN params.prices}

Price(prices, d) ==
  LET g == PriceIn(params.prices, d)  n == PriceIn(prices, d) IN IF n > g THEN n ELSE g

FeeRule(prices, tx) ==
  LET paid == {tx.fee[i] : i \in DOMAIN tx.fee}
      Pays(c, price) == c.amount * PriceUnit >= price * tx.gas
  IN /\ \A c \in paid : c.denom \in Listed
     /\ \/ tx.msgs \subseteq params.bypass /\ tx.gas <= MaxBypassGas
        \/ \E c \in paid : Pays(c, Price(prices, c.denom))
        \/ paid = {} /\ \E d \in Listed : Price(prices, d) = 0
     /\ \/ prices = <<>>
        \/ \E c \in paid : PriceIn(prices, c.denom) > 0 /\ Pays(c, PriceIn(prices, c.denom))

(* A node accepts a transaction exactly when its fee obeys the rule,       *)
(* whatever the order of the coins of the fee and the length of the lists. *)
FeeCheckIsTheRule ==
  \A n \in Node, tx \in Tx :
    Accepts(NodePrices[n], tx) <=> FeeRule(NodePrices[n], tx)

(* A transaction that is accepted is still accepted when it pays more of a *)
(* coin or asks for less gas, although less gas may make it a bypass       *)
(* transaction, to which other checks apply.                               *)
CheaperIsAccepted ==
  \A n \in Node, tx \in Tx : Accepts(NodePrices[n], tx) =>
    /\ \A gas \in 1..tx.gas : Accepts(NodePrices[n], [tx EXCEPT !.gas = gas])
    /\ \A i \in DOMAIN tx.fee :
         Accepts(NodePrices[n], [tx EXCEPT !.fee[i].amount = @ + 1])

(* The configuration of a node only adds to what the network asks for: what *)
(* it accepts, a node without prices of its own accepts as well.           *)
NodeOnlyRaises ==
  \A n \in Node, tx \in Tx : Accepts(NodePrices[n], tx) => Accepts(<<>>, tx)

(* Whatever happened to the parameters since a transaction was accepted,   *)
(* between blocks a mempool holds only what obeys the rule of the moment.  *)
MempoolIsPaidFor ==
  \A n \in Node : \A tx \in mempool[n] : FeeRule(NodePrices[n], tx)

(* The checks of the global fees and of minimum-gas-prices do not apply to  *)
(* a bypass transaction that pays nothing (docs/modules/globalfee.md); the *)
(* ante chain has the SDK's own check of minimum-gas-prices as well.       *)
BypassPaysNothing ==
  \A n \in Node, tx \in Tx :
    MayBypass(tx) /\ tx.fee = <<>> => Accepts(NodePrices[n], tx)
=============================================================================
