--------------------------------- MODULE App ---------------------------------
(***************************************************************************)
(* The application: x/tokenfactory and x/tariff over one bank.  The coin   *)
(* that the token factory issues pays transaction fees, leaves the chain   *)
(* through the tariff and comes back, and is what the begin blockers hand  *)
(* out, so each module moves coins that the other one has rules about.     *)
(* Neither sees the other's state; all they share is the balances.         *)
(***************************************************************************)
EXTENDS TokenFactory, Tariff

ASSUME AppAssumption ==
  /\ Module \notin {FeeCollector, Distribution}
  /\ \A g \in Genesis : g.mintingDenom # None => Home[g.mintingDenom] = None

appVars == <<factoryVars, tariffVars>>
tokenState ==
  <<rolesVars, paused, mintingDenom, controllers, blacklisted, grants, supply>>

AppInit == TokenInit /\ TariffInit

(* A message of the token factory, or a restart from an exported genesis:  *)
(* the parameters of the tariff and what IBC knows are exported as well.   *)
TokenStep == TokenNext /\ UNCHANGED tariffState

(* A block begins, a fee is deducted, a packet is sent or answered.        *)
TariffStep == TariffNext /\ UNCHANGED tokenState

AppNext == TokenStep \/ TariffStep

AppSpec == AppInit /\ [][AppNext]_appVars

-----------------------------------------------------------------------------
(* The coins of the minting denom, wherever fees, escrow accounts, refunds *)
(* and payments to entities take them, are always exactly its supply: what *)
(* one module moves the other can burn, and burning never fails because    *)
(* the supply is too small.                                                *)
SupplyIsHeld ==
  mintingDenom # None => supply = TotalSupply(balances, mintingDenom)

(* All that other chains hold or are being sent of the issued coin is part *)
(* of its supply: no burn, fee or refund leaves vouchers outside that were *)
(* not issued here.                                                        *)
CirculationIsIssued ==
  mintingDenom # None =>
    SumFunction([ch \in Channel |-> owed[ch][mintingDenom]]) <= supply

(* What one who holds the account's key has signed that takes n of d out.  *)
Spends(u, d, n) ==
  \/ PayFee(u, Only(d, n))
  \/ \E acc \in Acc : Send(u, acc, Only(d, n))
  \/ \E ch \in Channel : Transfer(u, ch, d, n)
  \/ \E from \in Signer : AccOf[from] = u /\ Burn(from, [denom |-> d, amount |-> n])

(* Only the owner of coins parts with them, and with no more than was      *)
(* asked: pausers, blacklisters, controllers, minters, begin blockers,     *)
(* entities, counterparty chains and restarts only ever add to a user's    *)
(* account, and so does the answer to a packet of somebody else.           *)
OnlyOwnersSpend ==
  [][\A u \in User, d \in Denom :
       balances'[u][d] < balances[u][d] => Spends(u, d, balances[u][d] - balances'[u][d])]_appVars

(* The tariff and IBC leave the token factory's rules alone: whatever they *)
(* do with coins, nothing enters or leaves the account coins are created   *)
(* and destroyed in, and the supply stays as it is.                        *)
ImplementsTokenFactory == TokenOpenSpec

(* The token factory leaves the tariff's rules alone: minting and burning  *)
(* take nothing out of an escrow account.                                  *)
ImplementsTariff == TariffOpenSpec
=============================================================================
