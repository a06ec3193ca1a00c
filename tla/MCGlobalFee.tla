----------------------------- MODULE MCGlobalFee ----------------------------
(***************************************************************************)
(* Model checking of GlobalFee with four denominations and prices in       *)
(* halves.  The rule is checked for Tx, fees of up to three coins in any   *)
(* order, under every price list over three denominations; users submit    *)
(* the few transactions of MempoolTx, which are around the minimum.  The   *)
(* parameter sets contain values that the validation refuses.              *)
(***************************************************************************)
EXTENDS GlobalFee

CONSTANTS n0, n1, n2, relay, other

Coin(d, a) == [denom |-> d, amount |-> a]

MCDenom == 1..4

MCNodePrices ==
  [n \in Node |-> CASE n = n0 -> <<>>
                    [] n = n1 -> <<Coin(1, 1), Coin(3, 3)>>
                    [] n = n2 -> <<Coin(2, 1), Coin(4, 2)>>]

(* An amount of 3 stands for a denomination that is not listed.            *)
PriceLists ==
  { SelectSeq(<<Coin(1, p[1]), Coin(2, p[2]), Coin(3, p[3])>>, LAMBDA c : c.amount < 3) :
      p \in {1, 3} \X (0..3) \X {0, 1, 3} }
Invalid == { <<Coin(1, -1)>>, <<Coin(2, 1), Coin(1, 1)>>, <<Coin(1, 1), Coin(1, 2)>> }

MCParams == [prices : PriceLists \cup Invalid, bypass : {{}, {relay}}]

Pairs ==
  { <<Coin(d, a), Coin(e, b)>> : d, e \in MCDenom, a, b \in {0, 1, 3} }
Triples == { <<Coin(c, 0), Coin(d, 1), Coin(e, 3)>> : c, d, e \in 1..3 }

Fees ==
  {<<>>} \cup {<<Coin(d, a)>> : d \in MCDenom, a \in {0, 1, 3}}
         \cup {f \in Pairs \cup Triples : Distinct(f)}

MempoolTx ==
  { [fee |-> <<>>, gas |-> 2, msgs |-> {relay}],
    [fee |-> <<Coin(1, 1)>>, gas |-> 3, msgs |-> {relay}],
    [fee |-> <<Coin(2, 2), Coin(1, 1)>>, gas |-> 2, msgs |-> {relay, other}] }

MCTx == MempoolTx \cup [fee : Fees, gas : 1..3, msgs : {{relay}, {relay, other}}]
=============================================================================
