----------------------------- MODULE App_proofs -----------------------------
(***************************************************************************)
(* The token factory and the tariff keep each other's rules: each step of  *)
(* one is, for the other, a step of the rest of the chain.  So all that is *)
(* proved of either on an open chain holds of the application.             *)
(***************************************************************************)
EXTENDS App, TokenFactory_proofs, Tariff_proofs

(* The inductive invariant: both modules see well-formed balances.         *)
AppInv == TokenInv /\ TariffTypeOK

-----------------------------------------------------------------------------
(* What the tariff does is beneath the token factory's notice.             *)
LEMMA TariffStepIsElsewhere ==
  ASSUME TokenTypeOK, TariffTypeOK, TariffStep
  PROVE  TokenElsewhere /\ TariffTypeOK'
<1>1. TariffTypeOK' /\ ModulesKept(balances, balances')
  BY StepEffect DEF TariffStep, Kept
<1>2. balances \in Balances /\ balances' \in Balances
  BY <1>1 DEF TariffTypeOK
<1>3. Module \in Acc /\ Module \in Blocked \ {FeeCollector, Distribution}
  BY AddressAssumption, TokenAssumption, AppAssumption
<1>4. \A d \in Denom : balances'[Module][d] = balances[Module][d]
  BY <1>1, <1>3 DEF ModulesKept
<1>5. balances'[Module] = balances[Module]
  <2>1. balances[Module] \in [Denom -> Nat] /\ balances'[Module] \in [Denom -> Nat]
    BY <1>2, <1>3 DEF Balances, Coins
  <2>2. QED BY <1>4, <2>1
<1>6. QED BY <1>1, <1>2, <1>5 DEF TariffStep, TokenElsewhere, tokenState

(* Minting pays into escrow accounts at most; coins are burnt and sent     *)
(* only by accounts with a key, which escrow accounts are not.             *)
LEMMA TokenNextKeepsEscrow ==
  ASSUME TokenTypeOK, TokenNext, NEW ch \in Channel
  PROVE  Covers(balances'[Escrow[ch]], balances[Escrow[ch]])
<1> DEFINE e == Escrow[ch]
<1>1. e \in Acc /\ e \notin User /\ balances \in Balances
  BY Accounts DEF TokenTypeOK
<1>2. \A d \in Denom : balances[e][d] \in Nat
  BY <1>1, AmountType
<1>3. ASSUME NEW from \in Signer PROVE AccOf[from] \in Acc \ Blocked /\ AccOf[from] # e
  BY <1>1, SignerAccount DEF Signer
<1> HIDE DEF e
<1>4. CASE UNCHANGED balances
  BY <1>2, <1>4 DEF Covers, e
<1>5. ASSUME NEW from \in Signer, NEW a \in Addr, NEW coin \in PositiveCoin,
             Mint(from, a, coin)
      PROVE  Covers(balances'[e], balances[e])
  <2>1. coin.denom \in Denom /\ coin.amount \in Nat
    BY PositiveAmount, CoinType
  <2>2. AccOf[a] \in Acc
    BY AddressAssumption
  <2>3. /\ balances' = [balances EXCEPT ![AccOf[a]][coin.denom] = @ + coin.amount]
        /\ balances[AccOf[a]][coin.denom] + coin.amount >= 0
    BY <1>1, <1>5, <2>1, <2>2, MintEffect, AmountType
  <2>4. \A d \in Denom :
          balances'[e][d] = balances[e][d] +
                              (IF e = AccOf[a] /\ d = coin.denom THEN coin.amount ELSE 0)
    BY <1>1, <2>1, <2>2, <2>3, ChangedBalance
  <2>5. QED BY <1>2, <2>1, <2>4 DEF Covers
<1>6. ASSUME NEW from \in Signer, NEW coin \in PositiveCoin, Burn(from, coin)
      PROVE  Covers(balances'[e], balances[e])
  <2>1. balances' = [balances EXCEPT ![AccOf[from]][coin.denom] = @ - coin.amount]
    BY <1>6, BurnEffect
  <2>2. balances'[e] = balances[e]
    BY <1>1, <1>3, <2>1 DEF Balances
  <2>3. QED BY <1>2, <2>2 DEF Covers
<1>7. ASSUME NEW from \in Signer, NEW a \in Addr, NEW coin \in PositiveCoin,
             SendToken(from, a, coin)
      PROVE  Covers(balances'[e], balances[e])
  <2> DEFINE coins == CoinsOf(coin)
  <2>1. coins \in Coins /\ AccOf[from] \in Acc /\ AccOf[a] \in Acc
    BY <1>3, PositiveAmount, CoinType, AddressAssumption
  <2>2. /\ Covers(balances[AccOf[from]], coins)
        /\ balances' = SendCoins(balances, AccOf[from], AccOf[a], coins)
    BY <1>7 DEF SendToken, Send
  <2> HIDE DEF coins
  <2>3. \A d \in Denom :
          balances'[e][d] = IF AccOf[from] = AccOf[a] THEN balances[e][d]
                            ELSE IF e = AccOf[from] THEN balances[e][d] - coins[d]
                            ELSE IF e = AccOf[a] THEN balances[e][d] + coins[d]
                            ELSE balances[e][d]
    BY <1>1, <2>1, <2>2, SendEffect
  <2>4. \A d \in Denom : coins[d] \in Nat
    BY <2>1 DEF Coins
  <2>5. QED BY <1>2, <1>3, <2>3, <2>4 DEF Covers
<1>8. \/ UNCHANGED balances
      \/ \E from \in Signer, coin \in PositiveCoin :
           \/ \E a \in Addr : Mint(from, a, coin) \/ SendToken(from, a, coin)
           \/ Burn(from, coin)
  <2>1. RestartTokens => UNCHANGED balances BY DEF RestartTokens, bank
  <2>2. UNCHANGED tokenVars => UNCHANGED balances BY DEF tokenVars, bank
  <2>3. TokenMsg => \/ UNCHANGED balances
                    \/ \E from \in Signer, coin \in PositiveCoin :
                         \/ \E a \in Addr : Mint(from, a, coin) \/ SendToken(from, a, coin)
                         \/ Burn(from, coin)
    BY DEF TokenMsg, Pause, Unpause, Blacklist, Unblacklist, RemoveMinterController,
      ConfigureMinterController, RemoveMinter, ConfigureMinter, bank
  <2>4. QED BY <2>1, <2>2, <2>3 DEF TokenNext
<1>9. Covers(balances'[e], balances[e])
  BY <1>4, <1>5, <1>6, <1>7, <1>8 DEF e
<1>10. QED BY <1>9 DEF e

LEMMA TokenStepIsElsewhere ==
  ASSUME TokenInv, TariffTypeOK, TokenStep
  PROVE  TariffElsewhere /\ TokenInv'
<1>1. TokenInv' BY TokenInvStep DEF TokenStep
<1>2. balances' \in Balances BY <1>1 DEF TokenInv, TokenTypeOK
<1>3. \A ch \in Channel : Covers(balances'[Escrow[ch]], balances[Escrow[ch]])
  BY TokenNextKeepsEscrow DEF TokenInv, TokenStep
<1>4. QED BY <1>1, <1>2, <1>3 DEF TokenStep, TariffElsewhere

-----------------------------------------------------------------------------
LEMMA AppInvInit == AppInit => AppInv
BY TokenInvInit, InitEffect DEF AppInit, AppInv, TariffInv

(* A step of the application is a step of both modules on an open chain.   *)
LEMMA AppStep ==
  ASSUME AppInv, [AppNext]_appVars
  PROVE  /\ AppInv'
         /\ [TokenNext \/ TokenElsewhere]_factoryVars
         /\ [TariffNext \/ TariffElsewhere]_tariffVars
<1>1. CASE TokenStep
  <2>1. TariffElsewhere /\ TokenInv' BY <1>1, TokenStepIsElsewhere DEF AppInv
  <2>2. TariffTypeOK' BY <2>1, OpenStepEffect DEF AppInv
  <2>3. QED BY <1>1, <2>1, <2>2 DEF AppInv, TokenStep
<1>2. CASE TariffStep
  <2>1. TokenElsewhere /\ TariffTypeOK'
    BY <1>2, TariffStepIsElsewhere DEF AppInv, TokenInv
  <2>2. TokenInv' BY <2>1, TokenInvStep DEF AppInv
  <2>3. QED BY <1>2, <2>1, <2>2 DEF AppInv, TariffStep
<1>3. CASE UNCHANGED appVars
  <2>1. UNCHANGED factoryVars /\ UNCHANGED tariffVars BY <1>3 DEF appVars
  <2>2. TokenInv' BY <2>1, TokenInvStep DEF AppInv
  <2>3. TariffTypeOK' BY <2>1, OpenStepEffect DEF AppInv
  <2>4. QED BY <2>1, <2>2, <2>3 DEF AppInv
<1>4. QED BY <1>1, <1>2, <1>3 DEF AppNext

(* The application implements the token factory on an open chain: nothing  *)
(* the tariff or IBC does enters the account where coins are created.      *)
THEOREM AppIsATokenFactory == AppSpec => ImplementsTokenFactory
<1>1. AppInit => AppInv /\ TokenInit BY AppInvInit DEF AppInit
<1>2. AppInv /\ [AppNext]_appVars
        => AppInv' /\ [TokenNext \/ TokenElsewhere]_factoryVars
  BY AppStep
<1>3. QED BY <1>1, <1>2, PTL DEF AppSpec, ImplementsTokenFactory, TokenOpenSpec

(* The application implements the tariff on an open chain: no message of   *)
(* the token factory takes coins out of an escrow account.                 *)
THEOREM AppHasTheTariff == AppSpec => ImplementsTariff
<1>1. AppInit => AppInv /\ TariffInit BY AppInvInit DEF AppInit
<1>2. AppInv /\ [AppNext]_appVars
        => AppInv' /\ [TariffNext \/ TariffElsewhere]_tariffVars
  BY AppStep
<1>3. QED BY <1>1, <1>2, PTL DEF AppSpec, ImplementsTariff, TariffOpenSpec

(* What holds of the token factory holds of it inside the application:     *)
(* fees, packets and blocks open no way around allowances and the pause.   *)
THEOREM AppIssuance ==
  AppSpec => /\ [](AllowanceIsGrantLessMinted /\ ModuleAccountIsEmpty)
             /\ MintIsCharged
             /\ BurnTakesOwnCoins
BY AppIsATokenFactory, AllowanceCorrect, ModuleAccountCorrect, MintCorrect, BurnCorrect, PTL
DEF ImplementsTokenFactory

(* The escrow accounts of the application are an ideal escrow, for the     *)
(* issued coin as for any other: they back what was sent and can pay every *)
(* refund, redemption and fee, and every packet and every block is charged *)
(* and shared out by the parameters.                                       *)
THEOREM AppEscrow ==
  AppSpec => /\ []EscrowBacksTransfers
             /\ [](AnswersAreFunded /\ CoinsCanLeave)
             /\ ImplementsIdealEscrow
             /\ FeeIsTheTariff
             /\ AllocationIsTheShare
BY AppHasTheTariff, EscrowBacksTransfersCorrect, EscrowPaysEverybody, CoinsCanLeaveCorrect,
   EscrowIsIdeal, FeeCorrect, AllocationCorrect, PTL
DEF ImplementsTariff

-----------------------------------------------------------------------------
(* The coin that is issued is no voucher, so only the token factory mints  *)
(* and burns it, and what it adds to an account it adds to the supply.     *)
SupplyInv ==
  mintingDenom # None => /\ Home[mintingDenom] = None
                         /\ supply = TotalSupply(balances, mintingDenom)

LEMMA SupplyInvInit == AppInit => SupplyInv
<1>1. SUFFICES ASSUME AppInit PROVE SupplyInv OBVIOUS
<1>2. PICK g \in Genesis : InitGenesis(g) BY <1>1 DEF AppInit, TokenInit
<1>3. mintingDenom # None => Home[mintingDenom] = None BY <1>2, AppAssumption DEF InitGenesis
<1>4. QED BY <1>1, <1>3 DEF AppInit, TokenInit, SupplyInv

LEMMA TariffKeepsSupply ==
  ASSUME AppInv, SupplyInv, TariffStep
  PROVE  SupplyInv'
<1>1. SupplyKept(balances, balances')
  BY StepEffect DEF AppInv, TariffStep, Kept
<1>2. mintingDenom' = mintingDenom /\ supply' = supply BY DEF TariffStep, tokenState
<1>3. mintingDenom # None => mintingDenom \in Denom BY DEF AppInv, TokenInv, TokenTypeOK
<1>4. QED BY <1>1, <1>2, <1>3 DEF SupplyInv, SupplyKept

LEMMA TokenKeepsSupply ==
  ASSUME AppInv, SupplyInv, TokenStep
  PROVE  SupplyInv'
<1>1. /\ TokenTypeOK /\ balances \in Balances /\ supply \in Nat /\ TokenNext
      /\ \A a \in Acc, d \in Denom : balances[a][d] \in Nat
  BY TokenAssumption, AmountType DEF AppInv, TokenInv, TokenTypeOK, TokenStep
<1>2. \A d \in Denom : TotalSupply(balances, d) \in Nat BY <1>1, SupplyType
<1>3. ASSUME UNCHANGED <<mintingDenom, balances, supply>> PROVE SupplyInv'
  BY <1>3 DEF SupplyInv
<1>4. ASSUME NEW from \in Signer, NEW a \in Addr, NEW coin \in PositiveCoin,
             Mint(from, a, coin)
      PROVE  SupplyInv'
  <2>1. coin.denom \in Denom /\ coin.amount \in Nat /\ AccOf[a] \in Acc
    BY PositiveAmount, CoinType, AddressAssumption
  <2>2. /\ balances' = [balances EXCEPT ![AccOf[a]][coin.denom] = @ + coin.amount]
        /\ supply' = supply + coin.amount
    BY <1>1, <1>4, MintEffect
  <2>3. coin.denom = mintingDenom /\ mintingDenom' = mintingDenom BY <1>4 DEF Mint, MayMint
  <2>4. balances[AccOf[a]][coin.denom] + coin.amount >= 0 /\ coin.amount \in Int
    BY <1>1, <2>1
  <2>5. TotalSupply(balances', coin.denom) = TotalSupply(balances, coin.denom) + coin.amount
    BY <1>1, <2>1, <2>2, <2>4, ChangedSupply, Zenon
  <2>6. QED BY <2>2, <2>3, <2>5 DEF SupplyInv
<1>5. ASSUME NEW from \in Signer, NEW coin \in PositiveCoin, Burn(from, coin)
      PROVE  SupplyInv'
  <2>1. coin.denom \in Denom /\ coin.amount \in Nat /\ AccOf[from] \in Acc
    BY PositiveAmount, CoinType, SignerAccount
  <2>2. /\ balances' = [balances EXCEPT ![AccOf[from]][coin.denom] = @ - coin.amount]
        /\ supply' = supply - coin.amount
    BY <1>1, <1>5, BurnEffect
  <2>3. /\ coin.denom = mintingDenom /\ mintingDenom' = mintingDenom
        /\ coin.amount <= balances[AccOf[from]][coin.denom]
    BY <1>5 DEF Burn, HasCoin
  <2>4. balances' = [balances EXCEPT ![AccOf[from]][coin.denom] = @ + (-coin.amount)]
    <3>1. balances[AccOf[from]][coin.denom] - coin.amount
            = balances[AccOf[from]][coin.denom] + (-coin.amount)
      BY <1>1, <2>1
    <3>2. QED BY <2>2, <3>1
  <2>5. balances[AccOf[from]][coin.denom] + (-coin.amount) >= 0 /\ -coin.amount \in Int
    BY <1>1, <2>1, <2>3
  <2>6. TotalSupply(balances', coin.denom) = TotalSupply(balances, coin.denom) + (-coin.amount)
    BY <1>1, <2>1, <2>4, <2>5, ChangedSupply, Zenon
  <2>7. QED BY <1>1, <1>2, <2>1, <2>2, <2>3, <2>6 DEF SupplyInv
<1>6. ASSUME NEW from \in Signer, NEW a \in Addr, NEW coin \in PositiveCoin,
             SendToken(from, a, coin)
      PROVE  SupplyInv'
  <2>1. CoinsOf(coin) \in Coins /\ AccOf[from] \in Acc /\ AccOf[a] \in Acc
    BY PositiveAmount, CoinType, SignerAccount, AddressAssumption
  <2>2. /\ Covers(balances[AccOf[from]], CoinsOf(coin))
        /\ balances' = SendCoins(balances, AccOf[from], AccOf[a], CoinsOf(coin))
        /\ mintingDenom' = mintingDenom /\ supply' = supply
    BY <1>6 DEF SendToken, Send
  <2>3. \A d \in Denom : TotalSupply(balances', d) = TotalSupply(balances, d)
    BY <1>1, <2>1, <2>2, SendSupply
  <2>4. mintingDenom # None => mintingDenom \in Denom BY <1>1 DEF TokenTypeOK
  <2>5. QED BY <2>2, <2>3, <2>4 DEF SupplyInv
<1>7. \/ UNCHANGED <<mintingDenom, balances, supply>>
      \/ \E from \in Signer, coin \in PositiveCoin :
           \/ \E a \in Addr : Mint(from, a, coin) \/ SendToken(from, a, coin)
           \/ Burn(from, coin)
  <2>1. RestartTokens => UNCHANGED <<mintingDenom, balances, supply>>
    BY DEF RestartTokens, ExportGenesis, bank
  <2>2. UNCHANGED tokenVars => UNCHANGED <<mintingDenom, balances, supply>>
    BY DEF tokenVars, bank
  <2>3. TokenMsg => \/ UNCHANGED <<mintingDenom, balances, supply>>
                    \/ \E from \in Signer, coin \in PositiveCoin :
                         \/ \E a \in Addr : Mint(from, a, coin) \/ SendToken(from, a, coin)
                         \/ Burn(from, coin)
    BY DEF TokenMsg, Pause, Unpause, Blacklist, Unblacklist, RemoveMinterController,
      ConfigureMinterController, RemoveMinter, ConfigureMinter, bank
  <2>4. QED BY <1>1, <2>1, <2>2, <2>3 DEF TokenNext
<1>8. QED BY <1>3, <1>4, <1>5, <1>6, <1>7

LEMMA SupplyInvStep ==
  ASSUME AppInv, SupplyInv, [AppNext]_appVars
  PROVE  SupplyInv'
<1>1. CASE UNCHANGED appVars
  <2>1. UNCHANGED <<mintingDenom, balances, supply>>
    BY <1>1 DEF appVars, factoryVars, tokenVars, bank
  <2>2. QED BY <2>1 DEF SupplyInv
<1>2. QED BY <1>1, TariffKeepsSupply, TokenKeepsSupply DEF AppNext

(* Wherever fees, escrow accounts, refunds and payments to entities take   *)
(* the issued coins, all accounts together hold exactly the supply.        *)
THEOREM SupplyIsHeldCorrect == AppSpec => []SupplyIsHeld
<1>1. AppInit => AppInv /\ SupplyInv BY AppInvInit, SupplyInvInit
<1>2. AppInv /\ SupplyInv /\ [AppNext]_appVars => AppInv' /\ SupplyInv'
  BY AppStep, SupplyInvStep
<1>3. SupplyInv => SupplyIsHeld BY DEF SupplyInv, SupplyIsHeld
<1>4. QED BY <1>1, <1>2, <1>3, PTL DEF AppSpec

(* No two channels have one escrow account, so there are as few of them as *)
(* of accounts, and what they owe together is held by different accounts.  *)
LEMMA OwedIsHeld ==
  ASSUME TariffTypeOK, EscrowCovers, NEW d \in Denom
  PROVE  SumFunction([ch \in Channel |-> owed[ch][d]]) <= TotalSupply(balances, d)
<1> DEFINE f == [acc \in Acc |-> balances[acc][d]]
           g == [ch \in Channel |-> owed[ch][d]]
<1>1. Escrow \in [Channel -> Acc] /\ \A x, y \in Channel : Escrow[x] = Escrow[y] => x = y
  BY TariffAssumption
<1>2. IsFiniteSet(Acc) /\ IsFiniteSet(Channel)
  <2>1. Escrow \in Injection(Channel, Acc) BY <1>1 DEF Injection, IsInjective
  <2>2. QED BY <2>1, BankAssumption, FS_Injection
<1>3. \A a \in Acc : f[a] \in Nat BY Typed
<1>4. \A ch \in Channel : g[ch] \in Int /\ g[ch] <= f[Escrow[ch]]
  BY <1>1, Typed DEF EscrowCovers
<1>5. /\ SumFunction(g) = SumFunctionOnSet(g, Channel)
      /\ TotalSupply(balances, d) = SumFunctionOnSet(f, Acc)
  BY DEF TotalSupply, SumFunction
<1> HIDE DEF f, g
<1>6. SumFunctionOnSet(g, Channel) <= SumFunctionOnSet(f, Acc)
  BY <1>1, <1>2, <1>3, <1>4, SumOfPart
<1>7. QED BY <1>5, <1>6 DEF g

(* What other chains hold or are being sent was issued here.               *)
THEOREM CirculationCorrect == AppSpec => []CirculationIsIssued
<1>1. SupplyIsHeld /\ TariffTypeOK /\ TokenTypeOK /\ EscrowCovers => CirculationIsIssued
  BY OwedIsHeld DEF SupplyIsHeld, CirculationIsIssued, TokenTypeOK
<1>2. AppSpec => [](TariffTypeOK /\ EscrowCovers)
  BY AppHasTheTariff, TariffTypeCorrect, EscrowIsCovered, PTL DEF ImplementsTariff
<1>3. AppSpec => []TokenTypeOK
  BY AppIsATokenFactory, TokenTypeCorrect, PTL DEF ImplementsTokenFactory
<1>4. QED BY <1>1, <1>2, <1>3, SupplyIsHeldCorrect, PTL
-----------------------------------------------------------------------------
(* Whose balance a payment lowers, and by how much.                        *)
LEMMA PayerLoses ==
  ASSUME NEW b \in Balances, NEW from \in Acc, NEW to \in Acc, NEW e \in Denom, NEW n \in Nat,
         Covers(b[from], Only(e, n)),
         NEW c, c = SendCoins(b, from, to, Only(e, n)),
         NEW a \in Acc, NEW d \in Denom, c[a][d] < b[a][d]
  PROVE  a = from /\ d = e /\ b[a][d] - c[a][d] = n
<1>1. Only(e, n) \in Coins /\ \A x \in Denom : Only(e, n)[x] = IF x = e THEN n ELSE 0
  BY OnlyType
<1>2. \A x \in Acc, y \in Denom :
        c[x][y] = IF from = to THEN b[x][y]
                  ELSE IF x = from THEN b[x][y] - Only(e, n)[y]
                  ELSE IF x = to THEN b[x][y] + Only(e, n)[y] ELSE b[x][y]
  BY <1>1, SendEffect
<1>3. b[a][d] \in Nat /\ Only(e, n)[d] \in Nat BY <1>1, AmountType
<1>4. a = from /\ from # to /\ Only(e, n)[d] # 0 /\ c[a][d] = b[a][d] - Only(e, n)[d]
  BY <1>2, <1>3
<1>5. QED BY <1>1, <1>3, <1>4

(* The fee of a transfer is not taken from a user, but on the way from one. *)
LEMMA TransferLoses ==
  ASSUME TariffTypeOK, NEW v \in User, NEW ch \in Channel, NEW e \in Denom, NEW n \in Nat,
         Transfer(v, ch, e, n),
         NEW u \in User, NEW d \in Denom, balances'[u][d] < balances[u][d]
  PROVE  u = v /\ d = e /\ balances[u][d] - balances'[u][d] = n
<1> DEFINE fee == TransferFee(e, n)
<1>1. fee \in Nat BY Typed, FeeInAmount
<1>2. PICK b : b = Outgoing(v, ch, e, n) OBVIOUS
<1>3. PICK c : c = balances' OBVIOUS
<1>4. /\ balances[v][e] >= n
      /\ HasCoins(b, Escrow[ch], e, fee)
      /\ c = SendCoins(b, Escrow[ch], FeeCollector, Only(e, fee))
  BY <1>2, <1>3 DEF Transfer, SendPacket
<1> HIDE DEF fee
<1>5. /\ v \in Acc /\ u \in Acc /\ Escrow[ch] \in Acc /\ FeeCollector \in Acc
      /\ u # Escrow[ch] /\ u # FeeCollector
  BY UserAndEscrow
<1>6. balances \in Balances /\ Covers(balances[v], Only(e, n)) BY <1>4, <1>5, Typed, OnlyCovered
<1>7. Only(e, n) \in Coins /\ \A x \in Denom : Only(e, n)[x] = IF x = e THEN n ELSE 0
  BY OnlyType
<1>8. /\ b \in Balances
      /\ b[u][d] < balances[u][d] => u = v /\ d = e /\ balances[u][d] - b[u][d] = n
  <2>1. CASE Escrowed(ch, e)
    <3>1. b = SendCoins(balances, v, Escrow[ch], Only(e, n)) BY <1>2, <2>1 DEF Outgoing
    <3>2. b \in Balances BY <1>5, <1>6, <1>7, <3>1, SendEffect
    <3>3. QED BY <1>5, <1>6, <3>1, <3>2, PayerLoses
  <2>2. CASE ~Escrowed(ch, e)
    <3>1. b = SubCoins(balances, v, Only(e, n)) BY <1>2, <2>2 DEF Outgoing
    <3>2. /\ b \in Balances
          /\ \A a \in Acc : a # v => b[a] = balances[a]
          /\ \A x \in Denom : b[v][x] = balances[v][x] - Only(e, n)[x]
      BY <1>5, <1>6, <1>7, <3>1, SubEffect
    <3>3. balances[u][d] \in Nat BY <1>5, Typed
    <3>4. QED BY <1>5, <1>7, <3>2, <3>3
  <2>3. QED BY <2>1, <2>2
<1>9. c[u][d] = b[u][d]
  <2>1. b[Escrow[ch]][e] \in Nat BY <1>5, <1>8, AmountType
  <2>2. b[Escrow[ch]][e] >= fee BY <1>1, <1>4, <2>1 DEF HasCoins
  <2>3. Covers(b[Escrow[ch]], Only(e, fee)) BY <1>1, <1>5, <1>8, <2>2, OnlyCovered
  <2>4. Only(e, fee) \in Coins BY <1>1, OnlyType
  <2>5. QED BY <1>4, <1>5, <1>8, <2>3, <2>4, SendEffect
<1>10. QED BY <1>3, <1>8, <1>9

(* What is paid out of an escrow account or minted takes nothing from a    *)
(* user, nor do the begin blockers.                                        *)
LEMMA AnswersTakeNothing ==
  ASSUME TariffTypeOK, NEW u \in User, NEW d \in Denom,
         \/ BeginBlock
         \/ \E p \in Packet : Deliver(p) \/ Refund(p)
         \/ \E ch \in Channel, e \in Denom, n \in Nat, acc \in Acc : Redeem(ch, e, n, acc)
  PROVE  ~(balances'[u][d] < balances[u][d])
<1>1. balances \in Balances /\ balances[u][d] \in Nat /\ u \in Acc BY Typed, Accounts
<1>2. PICK c : c = balances' OBVIOUS
<1>3. ASSUME NEW ch \in Channel, NEW to \in Acc, NEW e \in Denom, NEW n \in Nat,
             balances[Escrow[ch]][e] >= n,
             c = SendCoins(balances, Escrow[ch], to, Only(e, n))
      PROVE  ~(c[u][d] < balances[u][d])
  <2>1. Escrow[ch] \in Acc /\ u # Escrow[ch] BY UserAndEscrow
  <2>2. Covers(balances[Escrow[ch]], Only(e, n)) BY <1>1, <1>3, <2>1, OnlyCovered
  <2>3. QED BY <1>1, <1>3, <2>1, <2>2, PayerLoses
<1>4. CASE BeginBlock
  <2>1. PICK b : b = AllocateTokens(balances) OBVIOUS
  <2>2. b \in Balances /\ OnlyCollectorPays(balances, b) BY <1>1, <2>1, AllocateEffect
  <2>3. c = SendCoins(b, FeeCollector, Distribution, b[FeeCollector])
    BY <1>2, <1>4, <2>1 DEF BeginBlock, DistributeRest
  <2>4. /\ b[FeeCollector] \in Coins /\ Covers(b[FeeCollector], b[FeeCollector])
        /\ \A a \in Acc : b[a][d] \in Nat
    BY <2>2, Accounts DEF Balances, Coins, Covers
  <2>5. FeeCollector \in Acc /\ Distribution \in Acc /\ u # FeeCollector /\ u # Distribution
    BY Accounts, TariffAssumption
  <2>6. c[u][d] = b[u][d] BY <1>1, <2>2, <2>3, <2>4, <2>5, SendEffect
  <2>7. b[u][d] >= balances[u][d] BY <1>1, <2>2, <2>5 DEF OnlyCollectorPays
  <2>8. QED BY <1>1, <1>2, <2>4, <2>6, <2>7
<1>5. ASSUME NEW p \in Packet, Deliver(p) \/ Refund(p) PROVE ~(c[u][d] < balances[u][d])
  <2>1. p.sender \in Acc /\ p.channel \in Channel /\ p.denom \in Denom /\ p.amount \in Nat
    BY PacketType, Accounts
  <2>2. CASE c = balances BY <1>1, <2>2
  <2>3. CASE c = AddCoins(balances, p.sender, Only(p.denom, p.amount))
    <3>1. Only(p.denom, p.amount) \in Coins
          /\ Only(p.denom, p.amount)[d] \in Nat
      BY <2>1, OnlyType
    <3>2. c[u][d] = balances[u][d] \/ c[u][d] = balances[u][d] + Only(p.denom, p.amount)[d]
      BY <1>1, <2>1, <2>3, <3>1, AddEffect
    <3>3. QED BY <1>1, <3>1, <3>2
  <2>4. CASE /\ balances[Escrow[p.channel]][p.denom] >= p.amount
             /\ c = SendCoins(balances, Escrow[p.channel], p.sender, Only(p.denom, p.amount))
    BY <1>3, <2>1, <2>4
  <2>5. QED BY <1>2, <1>5, <2>2, <2>3, <2>4 DEF Deliver, Refund
<1>6. ASSUME NEW ch \in Channel, NEW e \in Denom, NEW n \in Nat, NEW acc \in Acc,
             Redeem(ch, e, n, acc)
      PROVE  ~(c[u][d] < balances[u][d])
  BY <1>2, <1>3, <1>6 DEF Redeem
<1>7. QED BY <1>2, <1>4, <1>5, <1>6

LEMMA TariffLosses ==
  ASSUME TariffTypeOK, TariffNext, NEW u \in User, NEW d \in Denom,
         balances'[u][d] < balances[u][d]
  PROVE  Spends(u, d, balances[u][d] - balances'[u][d])
<1>1. balances \in Balances /\ balances[u][d] \in Nat /\ u \in Acc BY Typed, Accounts
<1>2. ~UpdateParams BY <1>1 DEF UpdateParams
<1>3. PICK v \in User, e \in Denom, n \in 1..MaxAmount :
        \/ PayFee(v, Only(e, n))
        \/ \E acc \in Acc : Send(v, acc, Only(e, n))
        \/ \E ch \in Channel : Transfer(v, ch, e, n)
        \/ \E ch \in Channel, acc \in Acc : Redeem(ch, e, n, acc)
  BY <1>2, AnswersTakeNothing DEF TariffNext
<1>4. n \in Nat /\ v \in Acc /\ FeeCollector \in Acc BY TariffAssumption, Accounts
<1>5. ASSUME NEW to \in Acc, Covers(balances[v], Only(e, n)),
             balances' = SendCoins(balances, v, to, Only(e, n))
      PROVE  u = v /\ d = e /\ balances[u][d] - balances'[u][d] = n
  BY <1>1, <1>4, <1>5, PayerLoses
<1>6. CASE PayFee(v, Only(e, n))
  <2>1. u = v /\ d = e /\ balances[u][d] - balances'[u][d] = n BY <1>4, <1>5, <1>6 DEF PayFee
  <2>2. QED BY <1>6, <2>1 DEF Spends
<1>7. ASSUME NEW acc \in Acc, Send(v, acc, Only(e, n))
      PROVE  Spends(u, d, balances[u][d] - balances'[u][d])
  <2>1. u = v /\ d = e /\ balances[u][d] - balances'[u][d] = n BY <1>5, <1>7 DEF Send
  <2>2. QED BY <1>7, <2>1 DEF Spends
<1>8. ASSUME NEW ch \in Channel, Transfer(v, ch, e, n)
      PROVE  Spends(u, d, balances[u][d] - balances'[u][d])
  <2>1. u = v /\ d = e /\ balances[u][d] - balances'[u][d] = n BY <1>4, <1>8, TransferLoses
  <2>2. QED BY <1>8, <2>1 DEF Spends
<1>9. ASSUME NEW ch \in Channel, NEW acc \in Acc PROVE ~Redeem(ch, e, n, acc)
  BY <1>4, AnswersTakeNothing
<1>10. QED BY <1>3, <1>6, <1>7, <1>8, <1>9

(* A minter burns from its own account only, whatever its address is       *)
(* spelled like.                                                           *)
LEMMA TokenLosses ==
  ASSUME TokenTypeOK, TokenNext, NEW u \in User, NEW d \in Denom,
         balances'[u][d] < balances[u][d]
  PROVE  Spends(u, d, balances[u][d] - balances'[u][d])
<1>1. balances \in Balances /\ balances[u][d] \in Nat /\ u \in Acc
  BY AmountType, Accounts DEF TokenTypeOK
<1>2. balances' # balances BY <1>1
<1>3. PICK from \in Signer, coin \in PositiveCoin :
        \/ \E a \in Addr : Mint(from, a, coin) \/ SendToken(from, a, coin)
        \/ Burn(from, coin)
  <2>1. ~RestartTokens /\ ~UNCHANGED tokenVars BY <1>2 DEF RestartTokens, tokenVars, bank
  <2>2. QED BY <1>2, <2>1
            DEF TokenNext, TokenMsg, Pause, Unpause, Blacklist, Unblacklist,
                RemoveMinterController, ConfigureMinterController, RemoveMinter,
                ConfigureMinter, bank
<1>4. /\ coin \in Coin /\ coin.denom \in Denom /\ coin.amount \in Nat
      /\ AccOf[from] \in Acc /\ AccOf[from] \in User
  BY PositiveAmount, CoinType, SignerAccount DEF Signer
<1>5. ASSUME NEW a \in Addr PROVE ~Mint(from, a, coin)
  <2>1. SUFFICES ASSUME Mint(from, a, coin) PROVE FALSE OBVIOUS
  <2>2. balances' = [balances EXCEPT ![AccOf[a]][coin.denom] = @ + coin.amount]
    BY <2>1, MintEffect
  <2>3. AccOf[a] \in Acc BY AddressAssumption
  <2>4. balances[AccOf[a]][coin.denom] \in Nat BY <1>1, <1>4, <2>3, AmountType
  <2>5. balances'[u][d] = balances[u][d] +
          (IF u = AccOf[a] /\ d = coin.denom THEN coin.amount ELSE 0)
    BY <1>1, <1>4, <2>2, <2>3, <2>4, ChangedBalance
  <2>6. QED BY <1>1, <1>4, <2>5
<1>6. ASSUME NEW a \in Addr, SendToken(from, a, coin)
      PROVE  Spends(u, d, balances[u][d] - balances'[u][d])
  <2>1. AccOf[a] \in Acc BY AddressAssumption
  <2>2. Send(AccOf[from], AccOf[a], Only(coin.denom, coin.amount))
    BY <1>6 DEF SendToken, CoinsOf
  <2>3. /\ Covers(balances[AccOf[from]], Only(coin.denom, coin.amount))
        /\ balances' = SendCoins(balances, AccOf[from], AccOf[a], Only(coin.denom, coin.amount))
    BY <2>2 DEF Send
  <2>4. u = AccOf[from] /\ d = coin.denom /\ balances[u][d] - balances'[u][d] = coin.amount
    BY <1>1, <1>4, <2>1, <2>3, PayerLoses
  <2>5. QED BY <2>1, <2>2, <2>4 DEF Spends
<1>7. CASE Burn(from, coin)
  <2>1. balances' = [balances EXCEPT ![AccOf[from]][coin.denom] = @ - coin.amount]
    BY <1>7, BurnEffect
  <2>2. u = AccOf[from] /\ d = coin.denom /\ balances'[u][d] = balances[u][d] - coin.amount
    BY <1>1, <1>4, <2>1 DEF Balances, Coins
  <2>3. balances[u][d] - balances'[u][d] = coin.amount BY <1>1, <1>4, <2>2
  <2>4. coin = [denom |-> d, amount |-> coin.amount] BY <1>4, <2>2 DEF Coin
  <2>5. QED BY <1>7, <2>2, <2>3, <2>4 DEF Spends
<1>8. QED BY <1>3, <1>5, <1>6, <1>7

(* In the whole application a user's coins move by that user's signature   *)
(* alone, and by no more than was signed for.                              *)
THEOREM OnlyOwnersSpendCorrect == AppSpec => OnlyOwnersSpend
<1>1. ASSUME AppInv, AppNext, NEW u \in User, NEW d \in Denom,
             balances'[u][d] < balances[u][d]
      PROVE  Spends(u, d, balances[u][d] - balances'[u][d])
  BY <1>1, TariffLosses, TokenLosses DEF AppNext, TokenStep, TariffStep, AppInv, TokenInv
<1>2. AppInv /\ [AppNext]_appVars
        => [\A u \in User, d \in Denom :
              balances'[u][d] < balances[u][d] =>
                Spends(u, d, balances[u][d] - balances'[u][d])]_appVars
  BY <1>1
<1>3. AppInit => AppInv BY AppInvInit
<1>4. AppInv /\ [AppNext]_appVars => AppInv' BY AppStep
<1>5. QED BY <1>2, <1>3, <1>4, PTL DEF AppSpec, OnlyOwnersSpend
=============================================================================
