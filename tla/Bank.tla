-------------------------------- MODULE Bank --------------------------------
(***************************************************************************)
(* The bank of the SDK, as far as the modules of this repository call it.  *)
(* Coins of all denominations sit in one function of accounts, which the   *)
(* token factory, the tariff and every user's own transfers share.         *)
(***************************************************************************)
EXTENDS Addresses, Integers, FiniteSets, Functions

CONSTANTS
  Denom,    \* what the bank calls its coins
  Wealth    \* Wealth[acc][d]: the balances in the genesis file

VARIABLE balances   \* balances[acc][d]

Coins == [Denom -> Nat]
Balances == [Acc -> Coins]

ASSUME BankAssumption ==
  /\ IsFiniteSet(Acc)   \* an address is at most 255 bytes long
  /\ Wealth \in Balances

Only(d, n) == [e \in Denom |-> IF e = d THEN n ELSE 0]

Covers(a, b) == \A d \in Denom : a[d] >= b[d]

AddCoins(b, acc, coins) == [b EXCEPT ![acc] = [d \in Denom |-> @[d] + coins[d]]]
SubCoins(b, acc, coins) == [b EXCEPT ![acc] = [d \in Denom |-> @[d] - coins[d]]]

(* Every coin moves, or none.                                              *)
SendCoins(b, from, to, coins) == AddCoins(SubCoins(b, from, coins), to, coins)

(* MsgSend, which pays no module account.                                  *)
Send(from, to, coins) ==
  /\ to \notin Blocked
  /\ Covers(balances[from], coins)
  /\ balances' = SendCoins(balances, from, to, coins)

TotalSupply(b, d) == SumFunction([acc \in Acc |-> b[acc][d]])
=============================================================================
