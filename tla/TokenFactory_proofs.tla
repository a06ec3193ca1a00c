------------------------ MODULE TokenFactory_proofs ------------------------
(***************************************************************************)
(* Theorems about x/tokenfactory, for any set of accounts, spellings,      *)
(* denominations and genesis files, any largest integer, and whatever the  *)
(* rest of the chain does with coins outside the module's account.         *)
(***************************************************************************)
EXTENDS TokenFactory, Bank_proofs

USE DEF IsMinter, Controls, IsBlacklisted, PausedSet, IsRunning, MintingDenomSet
USE DEF IsOwner, IsMasterMinter, IsPauser, IsBlacklister

-----------------------------------------------------------------------------
(* Assigning a role to an address ValidatePrivileges accepted keeps it     *)
(* apart from a role already held, in the spelling String() prints: were   *)
(* both canonical they would be one string, the one the check looks for.   *)
LEMMA ValidatedIsApart ==
  ASSUME NEW a \in Addr, NEW r \in Role, ValidatePrivileges(a),
         r \in {owner, blacklister, masterMinter, pauser}
  PROVE  Apart(a, r) /\ Apart(r, a)
<1>1. SUFFICES ASSUME SameAccount(a, r), Canonical(a), Canonical(r)
               PROVE  FALSE
  BY DEF Apart, SameAccount
<1>2. AccOf[a] = AccOf[r]
  BY <1>1 DEF SameAccount
<1>3. String[AccOf[a]] = r
  BY <1>1, <1>2 DEF Canonical
<1> QED
  BY <1>3 DEF ValidatePrivileges

(* A step keeps every role an address of the chain or unset.               *)
LEMMA RolesTypeStep == RolesTypeOK /\ [RolesNext]_rolesVars => RolesTypeOK'
<1> SUFFICES ASSUME RolesTypeOK, [RolesNext]_rolesVars
             PROVE  RolesTypeOK'
  OBVIOUS
<1> USE DEF RolesTypeOK, Role
<1>1. ASSUME NEW from \in Signer, AcceptOwner(from)
      PROVE  RolesTypeOK'
  BY <1>1 DEF AcceptOwner
<1>2. ASSUME NEW from \in Signer, NEW a \in Addr, UpdateOwner(from, a)
      PROVE  RolesTypeOK'
  BY <1>2 DEF UpdateOwner, Signer
<1>3. ASSUME NEW from \in Signer, NEW a \in Addr, UpdateMasterMinter(from, a)
      PROVE  RolesTypeOK'
  BY <1>3 DEF UpdateMasterMinter
<1>4. ASSUME NEW from \in Signer, NEW a \in Addr, UpdatePauser(from, a)
      PROVE  RolesTypeOK'
  BY <1>4 DEF UpdatePauser
<1>5. ASSUME NEW from \in Signer, NEW a \in Addr, UpdateBlacklister(from, a)
      PROVE  RolesTypeOK'
  BY <1>5 DEF UpdateBlacklister
<1>6. CASE RestartRoles
  BY <1>6 DEF RestartRoles, ExportRoles
<1>7. CASE UNCHANGED rolesVars
  BY <1>7 DEF rolesVars
<1> QED
  BY <1>1, <1>2, <1>3, <1>4, <1>5, <1>6, <1>7 DEF RolesNext, RolesMsg

(* Every role holds an address of the chain or is unset.                   *)
THEOREM RolesTypeCorrect == RolesSpec => []RolesTypeOK
<1>1. RolesInit => RolesTypeOK
  BY RolesGenesisAssumption DEF RolesInit, InitGenesisRoles, RolesTypeOK, Role
<1> QED
  BY <1>1, RolesTypeStep, PTL DEF RolesSpec

(* An open offer of ownership is the current owner's.                      *)
THEOREM OfferCorrect == RolesSpec => []OfferIsByCurrentOwner
<1>1. RolesInit => OfferIsByCurrentOwner
  BY DEF RolesInit, InitGenesisRoles, OfferIsByCurrentOwner
<1>2. OfferIsByCurrentOwner /\ [RolesNext]_rolesVars => OfferIsByCurrentOwner'
  <2> SUFFICES ASSUME OfferIsByCurrentOwner, [RolesNext]_rolesVars
               PROVE  OfferIsByCurrentOwner'
    OBVIOUS
  <2> USE DEF OfferIsByCurrentOwner
  <2>1. ASSUME NEW from \in Signer, AcceptOwner(from)
        PROVE  OfferIsByCurrentOwner'
    BY <2>1 DEF AcceptOwner
  <2>2. ASSUME NEW from \in Signer, NEW a \in Addr, UpdateOwner(from, a)
        PROVE  OfferIsByCurrentOwner'
    BY <2>2 DEF UpdateOwner
  <2>3. ASSUME NEW from \in Signer, NEW a \in Addr,
               \/ UpdateMasterMinter(from, a)
               \/ UpdatePauser(from, a)
               \/ UpdateBlacklister(from, a)
        PROVE  OfferIsByCurrentOwner'
    BY <2>3 DEF UpdateMasterMinter, UpdatePauser, UpdateBlacklister
  <2>4. CASE RestartRoles
    BY <2>4 DEF RestartRoles
  <2>5. CASE UNCHANGED rolesVars
    BY <2>5 DEF rolesVars
  <2> QED
    BY <2>1, <2>2, <2>3, <2>4, <2>5 DEF RolesNext, RolesMsg
<1> QED
  BY <1>1, <1>2, PTL DEF RolesSpec

(* The step that preserves the separation of the operational roles.        *)
LEMMA OperationalRolesStep ==
  RolesTypeOK /\ OperationalRolesApart /\ [RolesNext]_rolesVars => OperationalRolesApart'
<1> SUFFICES ASSUME RolesTypeOK, OperationalRolesApart, [RolesNext]_rolesVars
             PROVE  OperationalRolesApart'
  OBVIOUS
<1> USE DEF RolesTypeOK, OperationalRolesApart
<1>1. ASSUME NEW from \in Signer, NEW a \in Addr, UpdateMasterMinter(from, a)
      PROVE  OperationalRolesApart'
  <2>1. Apart(a, pauser) /\ Apart(a, blacklister)
    BY <1>1, ValidatedIsApart DEF UpdateMasterMinter
  <2> QED
    BY <1>1, <2>1 DEF UpdateMasterMinter, Apart, SameAccount, Canonical
<1>2. ASSUME NEW from \in Signer, NEW a \in Addr, UpdatePauser(from, a)
      PROVE  OperationalRolesApart'
  <2>1. Apart(masterMinter, a) /\ Apart(a, blacklister)
    BY <1>2, ValidatedIsApart DEF UpdatePauser
  <2> QED
    BY <1>2, <2>1 DEF UpdatePauser, Apart, SameAccount, Canonical
<1>3. ASSUME NEW from \in Signer, NEW a \in Addr, UpdateBlacklister(from, a)
      PROVE  OperationalRolesApart'
  <2>1. Apart(masterMinter, a) /\ Apart(pauser, a)
    BY <1>3, ValidatedIsApart DEF UpdateBlacklister
  <2> QED
    BY <1>3, <2>1 DEF UpdateBlacklister, Apart, SameAccount, Canonical
<1>4. ASSUME UNCHANGED <<masterMinter, pauser, blacklister>>
      PROVE  OperationalRolesApart'
  BY <1>4 DEF Apart, SameAccount, Canonical
<1>5. ASSUME NEW from \in Signer, AcceptOwner(from)
      PROVE  OperationalRolesApart'
  BY <1>4, <1>5 DEF AcceptOwner
<1>6. ASSUME NEW from \in Signer, NEW a \in Addr, UpdateOwner(from, a)
      PROVE  OperationalRolesApart'
  BY <1>4, <1>6 DEF UpdateOwner
<1>7. CASE RestartRoles
  BY <1>4, <1>7 DEF RestartRoles, ExportRoles
<1>8. CASE UNCHANGED rolesVars
  BY <1>4, <1>8 DEF rolesVars
<1> QED
  BY <1>1, <1>2, <1>3, <1>5, <1>6, <1>7, <1>8 DEF RolesNext, RolesMsg

(* ValidatePrivileges keeps the operational roles with distinct accounts,  *)
(* up to non-canonical spellings, in every reachable state.                *)
THEOREM OperationalRolesCorrect == RolesSpec => []OperationalRolesApart
<1>1. RolesInit => OperationalRolesApart
  BY DEF RolesInit, ValidGenesisRoles, InitGenesisRoles, OperationalRolesApart, Apart
<1>2. RolesSpec => []RolesTypeOK
  BY RolesTypeCorrect
<1> QED
  BY <1>1, <1>2, OperationalRolesStep, PTL DEF RolesSpec

(* Only the acceptance of an offer can join the ownership and another role *)
(* in one account.                                                         *)
THEOREM OwnerMergesCorrect == RolesSpec => OwnerMergesOnlyByAcceptance
<1> DEFINE Accepted ==
      /\ pendingOwner # None /\ owner' = pendingOwner /\ pendingOwner' = None
      /\ UNCHANGED <<masterMinter, pauser, blacklister>>
<1>1. RolesTypeOK /\ [RolesNext]_rolesVars => [OwnerApart /\ ~OwnerApart' => Accepted]_rolesVars
  <2> SUFFICES ASSUME RolesTypeOK, RolesNext, OwnerApart
               PROVE  OwnerApart' \/ Accepted
    OBVIOUS
  <2> USE DEF RolesTypeOK
  <2>1. ASSUME NEW from \in Signer, AcceptOwner(from)
        PROVE  Accepted
    BY <2>1, AddressAssumption DEF AcceptOwner, Signer
  <2>2. ASSUME NEW from \in Signer, NEW a \in Addr, UpdateMasterMinter(from, a)
        PROVE  OwnerApart'
    <3>1. Apart(owner, a)
      BY <2>2, ValidatedIsApart DEF UpdateMasterMinter
    <3> QED
      BY <2>2, <3>1 DEF UpdateMasterMinter, OwnerApart, Apart, SameAccount, Canonical
  <2>3. ASSUME NEW from \in Signer, NEW a \in Addr, UpdatePauser(from, a)
        PROVE  OwnerApart'
    <3>1. Apart(owner, a)
      BY <2>3, ValidatedIsApart DEF UpdatePauser
    <3> QED
      BY <2>3, <3>1 DEF UpdatePauser, OwnerApart, Apart, SameAccount, Canonical
  <2>4. ASSUME NEW from \in Signer, NEW a \in Addr, UpdateBlacklister(from, a)
        PROVE  OwnerApart'
    <3>1. Apart(owner, a)
      BY <2>4, ValidatedIsApart DEF UpdateBlacklister
    <3> QED
      BY <2>4, <3>1 DEF UpdateBlacklister, OwnerApart, Apart, SameAccount, Canonical
  <2>5. ASSUME UNCHANGED <<owner, masterMinter, pauser, blacklister>>
        PROVE  OwnerApart'
    BY <2>5 DEF OwnerApart, Apart, SameAccount, Canonical
  <2>6. ASSUME NEW from \in Signer, NEW a \in Addr, UpdateOwner(from, a)
        PROVE  OwnerApart'
    BY <2>5, <2>6 DEF UpdateOwner
  <2>7. CASE RestartRoles
    BY <2>5, <2>7 DEF RestartRoles, ExportRoles
  <2> QED
    BY <2>1, <2>2, <2>3, <2>4, <2>6, <2>7 DEF RolesNext, RolesMsg
<1>2. RolesSpec => []RolesTypeOK
  BY RolesTypeCorrect
<1> QED
  BY <1>1, <1>2, PTL DEF RolesSpec, OwnerMergesOnlyByAcceptance

-----------------------------------------------------------------------------
(* The token factory by itself is the token factory on a chain where       *)
(* nobody else moves coins: what is proved of the latter holds of it.      *)
THEOREM FactoryIsOpen == TokenSpec => TokenOpenSpec
<1>1. [TokenNext]_factoryVars => [TokenNext \/ TokenElsewhere]_factoryVars
  OBVIOUS
<1> QED
  BY <1>1, PTL DEF TokenSpec, TokenOpenSpec

(* The token factory implements Roles: hiding the token state, every step  *)
(* is a step of Roles or leaves the roles alone.                           *)
THEOREM RolesRefined == TokenOpenSpec => RolesSpec
<1>1. TokenInit => RolesInit
  BY DEF TokenInit, RolesInit
<1>2. [TokenNext \/ TokenElsewhere]_factoryVars => [RolesNext]_rolesVars
  BY DEF TokenNext, TokenElsewhere, factoryVars, RolesNext, rolesVars
<1> QED
  BY <1>1, <1>2, PTL DEF TokenOpenSpec, RolesSpec

(* What is proved of the roles holds of the whole module, its restarts     *)
(* included: operational roles stay apart and an open offer is the         *)
(* current owner's.                                                        *)
THEOREM RolesCorrect == TokenOpenSpec => [](OperationalRolesApart /\ OfferIsByCurrentOwner)
BY RolesRefined, OperationalRolesCorrect, OfferCorrect, PTL

-----------------------------------------------------------------------------
(* A coin of a message, as the bank sees it.                               *)
LEMMA CoinType ==
  ASSUME NEW coin \in Coin
  PROVE  /\ coin.denom \in Denom /\ coin.amount \in Nat
         /\ CoinsOf(coin) \in Coins
         /\ \A e \in Denom : CoinsOf(coin)[e] = IF e = coin.denom THEN coin.amount ELSE 0
<1>1. coin.denom \in Denom /\ coin.amount \in Nat
  BY TokenAssumption DEF Coin
<1> QED
  BY <1>1, OnlyType DEF CoinsOf

LEMMA CoinCovered ==
  ASSUME NEW b \in Balances, NEW acc \in Acc, NEW coin \in Coin,
         coin.amount <= b[acc][coin.denom]
  PROVE  Covers(b[acc], CoinsOf(coin))
<1>1. coin.denom \in Denom /\ coin.amount \in Nat /\ b[acc][coin.denom] >= coin.amount
  BY CoinType, AmountType
<1> QED
  BY <1>1, OnlyCovered DEF CoinsOf

(* What Mint does to the balances: the coins pass through the module's     *)
(* account and only the receiver has more than before.                     *)
LEMMA MintedBalances ==
  ASSUME NEW b \in Balances, NEW acc \in Acc \ Blocked, NEW coin \in Coin
  PROVE  /\ SendCoins(MintCoins(b, coin), Module, acc, CoinsOf(coin))
              = [b EXCEPT ![acc][coin.denom] = @ + coin.amount]
         /\ [b EXCEPT ![acc][coin.denom] = @ + coin.amount] \in Balances
<1> DEFINE made == MintCoins(b, coin)
           coins == CoinsOf(coin)
           sent == SendCoins(made, Module, acc, coins)
           rich == [b EXCEPT ![acc][coin.denom] = @ + coin.amount]
<1>1. Module \in Acc /\ Module # acc
  BY AddressAssumption, TokenAssumption
<1>2. /\ coin.denom \in Denom /\ coin.amount \in Nat /\ coins \in Coins
      /\ \A e \in Denom : coins[e] = IF e = coin.denom THEN coin.amount ELSE 0
  BY CoinType
<1>3. \A a \in Acc, e \in Denom : b[a][e] \in Nat
  BY AmountType
<1>4. /\ made \in Balances
      /\ \A a \in Acc : a # Module => made[a] = b[a]
      /\ \A e \in Denom : made[Module][e] = b[Module][e] + coins[e]
  BY <1>1, <1>2, AddEffect DEF MintCoins
<1> HIDE DEF made, coins
<1>5. Covers(made[Module], coins)
  BY <1>1, <1>2, <1>3, <1>4 DEF Covers
<1>6. /\ sent \in Balances
      /\ \A a \in Acc, e \in Denom :
           sent[a][e] = IF Module = acc THEN made[a][e]
                        ELSE IF a = Module THEN made[a][e] - coins[e]
                        ELSE IF a = acc THEN made[a][e] + coins[e] ELSE made[a][e]
  BY <1>1, <1>2, <1>4, <1>5, SendEffect
<1>7. /\ rich \in Balances
      /\ \A a \in Acc, e \in Denom :
           rich[a][e] = b[a][e] + (IF a = acc /\ e = coin.denom THEN coin.amount ELSE 0)
  BY <1>2, <1>3, ChangedBalance
<1> HIDE DEF sent, rich
<1>8. \A a \in Acc, e \in Denom : sent[a][e] = rich[a][e]
  BY <1>1, <1>2, <1>3, <1>4, <1>6, <1>7
<1>9. sent = rich
  BY <1>6, <1>7, <1>8, SameBalances
<1> QED
  BY <1>7, <1>9 DEF sent, made, coins, rich

(* What Burn does to the balances: only the minter has less than before.   *)
LEMMA BurntBalances ==
  ASSUME NEW b \in Balances, NEW acc \in Acc \ Blocked, NEW coin \in Coin,
         coin.amount <= b[acc][coin.denom]
  PROVE  /\ BurnCoins(SendCoins(b, acc, Module, CoinsOf(coin)), coin)
              = [b EXCEPT ![acc][coin.denom] = @ - coin.amount]
         /\ [b EXCEPT ![acc][coin.denom] = @ - coin.amount] \in Balances
<1> DEFINE coins == CoinsOf(coin)
           sent == SendCoins(b, acc, Module, coins)
           burnt == BurnCoins(sent, coin)
           n == -coin.amount
           poor == [b EXCEPT ![acc][coin.denom] = @ + n]
<1>1. Module \in Acc /\ Module # acc
  BY AddressAssumption, TokenAssumption
<1>2. /\ coin.denom \in Denom /\ coin.amount \in Nat /\ coins \in Coins
      /\ \A e \in Denom : coins[e] = IF e = coin.denom THEN coin.amount ELSE 0
  BY CoinType
<1>3. \A a \in Acc, e \in Denom : b[a][e] \in Nat
  BY AmountType
<1>4. Covers(b[acc], coins)
  BY CoinCovered
<1>5. burnt = SubCoins(sent, Module, coins)
  BY DEF BurnCoins, coins
<1> HIDE DEF coins
<1>6. /\ sent \in Balances
      /\ \A a \in Acc, e \in Denom :
           sent[a][e] = IF acc = Module THEN b[a][e]
                        ELSE IF a = acc THEN b[a][e] - coins[e]
                        ELSE IF a = Module THEN b[a][e] + coins[e] ELSE b[a][e]
  BY <1>1, <1>2, <1>4, SendEffect
<1> HIDE DEF sent, burnt
<1>7. Covers(sent[Module], coins)
  BY <1>1, <1>2, <1>3, <1>6 DEF Covers
<1>8. /\ burnt \in Balances
      /\ \A a \in Acc : a # Module => burnt[a] = sent[a]
      /\ \A e \in Denom : burnt[Module][e] = sent[Module][e] - coins[e]
  BY <1>1, <1>2, <1>5, <1>6, <1>7, SubEffect
<1>9. n \in Int /\ b[acc][coin.denom] + n >= 0
  BY <1>2, <1>3
<1>10. /\ poor \in Balances
       /\ \A a \in Acc, e \in Denom :
            poor[a][e] = b[a][e] + (IF a = acc /\ e = coin.denom THEN n ELSE 0)
  BY <1>2, <1>9, ChangedBalance
<1>11. poor = [b EXCEPT ![acc][coin.denom] = @ - coin.amount]
  <2>1. b[acc][coin.denom] + n = b[acc][coin.denom] - coin.amount
    BY <1>2, <1>3
  <2> QED
    BY <2>1
<1> HIDE DEF poor
<1>12. \A a \in Acc, e \in Denom : burnt[a][e] = poor[a][e]
  BY <1>1, <1>2, <1>3, <1>6, <1>8, <1>10
<1>13. burnt = poor
  BY <1>8, <1>10, <1>12, SameBalances
<1> QED
  BY <1>10, <1>11, <1>13 DEF burnt, sent, coins

(* A sender is an address whose account is not a module's.                 *)
LEMMA SignerAccount ==
  ASSUME NEW from \in Signer
  PROVE  from \in Addr /\ from # None /\ AccOf[from] \in Acc \ Blocked
BY AddressAssumption DEF Signer

(* The amount of a message to mint or burn.                                *)
LEMMA PositiveAmount ==
  ASSUME NEW coin \in PositiveCoin
  PROVE  coin \in Coin /\ coin.amount \in Nat /\ coin.amount > 0 /\ coin.amount <= MaxInt
BY TokenAssumption DEF PositiveCoin, Coin

(* What Mint does to the allowances: one is lower.                         *)
LEMMA MintAllowance ==
  ASSUME TokenTypeOK, NEW from \in Signer, NEW a \in Addr, NEW coin \in PositiveCoin,
         Mint(from, a, coin)
  PROVE  /\ minters[from] \in Coin /\ coin.amount <= minters[from].amount
         /\ minters' = [minters EXCEPT ![from].amount = @ - coin.amount]
         /\ minters' \in [Addr -> Coin \cup {None}]
         /\ minters'[from] # None
         /\ minters'[from].amount = minters[from].amount - coin.amount
         /\ \A m \in Addr \ {from} : minters'[m] = minters[m]
<1>1. from \in Addr /\ minters[from] # None /\ minters[from] \in Coin
  BY SignerAccount DEF Mint, MayMint, TokenTypeOK
<1>2. coin.amount \in Nat /\ coin.amount > 0 /\ coin.amount <= minters[from].amount
  BY PositiveAmount DEF Mint, MayMint
<1>3. minters[from].amount - coin.amount \in 0..MaxInt
  BY <1>1, <1>2, TokenAssumption DEF Coin
<1>4. minters' = [minters EXCEPT ![from] = [minters[from] EXCEPT !.amount = @ - coin.amount]]
  BY DEF Mint
<1>5. [minters[from] EXCEPT !.amount = @ - coin.amount] \in Coin
  BY <1>1, <1>3 DEF Coin
<1>6. minters' \in [Addr -> Coin \cup {None}]
  BY <1>1, <1>4, <1>5 DEF TokenTypeOK
<1>7. /\ minters'[from].amount = minters[from].amount - coin.amount
      /\ minters'[from] # None
      /\ \A m \in Addr \ {from} : minters'[m] = minters[m]
  <2>1. /\ minters'[from] = [minters[from] EXCEPT !.amount = @ - coin.amount]
        /\ \A m \in Addr \ {from} : minters'[m] = minters[m]
    BY <1>1, <1>4 DEF TokenTypeOK
  <2> QED
    BY <1>1, <1>5, <2>1, TokenAssumption DEF Coin
<1> QED
  BY <1>1, <1>2, <1>6, <1>7 DEF Mint

(* What it does to the bank: one balance and the supply are higher.        *)
LEMMA MintEffect ==
  ASSUME TokenTypeOK, NEW from \in Signer, NEW a \in Addr, NEW coin \in PositiveCoin,
         Mint(from, a, coin)
  PROVE  /\ balances' = [balances EXCEPT ![AccOf[a]][coin.denom] = @ + coin.amount]
         /\ balances' \in Balances
         /\ supply' = supply + coin.amount /\ supply' \in 0..MaxInt
<1>1. coin.denom \in Denom /\ coin.amount \in Nat
  BY PositiveAmount, CoinType
<1>2. AccOf[a] \in Acc \ Blocked
  BY AddressAssumption DEF Mint
<1>3. /\ balances' = [balances EXCEPT ![AccOf[a]][coin.denom] = @ + coin.amount]
      /\ balances' \in Balances
  <2>1. balances \in Balances BY DEF TokenTypeOK
  <2>2. balances' = SendCoins(MintCoins(balances, coin), Module, AccOf[a], CoinsOf(coin))
    BY DEF Mint
  <2>3. coin \in Coin BY PositiveAmount
  <2>4. QED BY <1>2, <2>1, <2>2, <2>3, MintedBalances
<1>4. supply' = supply + coin.amount /\ supply' \in 0..MaxInt
  BY <1>1, TokenAssumption DEF Mint, TokenTypeOK
<1> QED
  BY <1>3, <1>4

(* The whole effect of Burn.                                               *)
LEMMA BurnEffect ==
  ASSUME TokenTypeOK, NEW from \in Signer, NEW coin \in PositiveCoin, Burn(from, coin)
  PROVE  /\ balances' = [balances EXCEPT ![AccOf[from]][coin.denom] = @ - coin.amount]
         /\ balances' \in Balances
         /\ supply' = supply - coin.amount /\ supply' \in 0..MaxInt
         /\ UNCHANGED grants
<1>1. AccOf[from] \in Acc \ Blocked
  BY SignerAccount
<1>2. /\ coin \in Coin /\ coin.amount \in Nat /\ coin.amount <= supply
      /\ coin.amount <= balances[AccOf[from]][coin.denom]
  BY PositiveAmount DEF Burn, HasCoin
<1>3. balances \in Balances /\ supply \in 0..MaxInt
  BY DEF TokenTypeOK
<1>4. balances' = [balances EXCEPT ![AccOf[from]][coin.denom] = @ - coin.amount]
  BY <1>1, <1>2, <1>3, BurntBalances DEF Burn
<1>5. balances' \in Balances
  BY <1>1, <1>2, <1>3, <1>4, BurntBalances
<1>6. supply' = supply - coin.amount /\ supply' \in 0..MaxInt
  BY <1>2, <1>3, TokenAssumption DEF Burn
<1> QED
  BY <1>4, <1>5, <1>6 DEF Burn

(* A transfer leaves the module's account and everything but two balances  *)
(* alone.                                                                  *)
LEMMA SendTokenEffect ==
  ASSUME TokenTypeOK, NEW from \in Signer, NEW a \in Addr, NEW coin \in PositiveCoin,
         SendToken(from, a, coin)
  PROVE  /\ balances' \in Balances /\ balances'[Module] = balances[Module]
         /\ UNCHANGED <<grants, supply>>
<1> DEFINE coins == CoinsOf(coin)
<1>1. /\ AccOf[from] \in Acc /\ AccOf[a] \in Acc /\ Module \in Acc
      /\ AccOf[from] # Module /\ AccOf[a] # Module
  BY AddressAssumption, TokenAssumption DEF Signer, SendToken, Send
<1>2. coins \in Coins
  BY PositiveAmount, CoinType
<1>3. /\ balances \in Balances /\ Covers(balances[AccOf[from]], coins)
      /\ balances' = SendCoins(balances, AccOf[from], AccOf[a], coins)
  BY DEF SendToken, Send, TokenTypeOK
<1> HIDE DEF coins
<1>4. /\ balances' \in Balances
      /\ \A e \in Denom : balances'[Module][e] = balances[Module][e]
  BY <1>1, <1>2, <1>3, SendEffect
<1>5. balances'[Module] = balances[Module]
  BY <1>1, <1>3, <1>4, AmountType DEF Coins
<1> QED
  BY <1>4, <1>5 DEF SendToken

-----------------------------------------------------------------------------
(* The inductive invariant.  The type of minted needs the ledger (what is  *)
(* minted stays below the grant), and the ledger needs the types.          *)
TokenInv == TokenTypeOK /\ AllowanceIsGrantLessMinted /\ ModuleAccountIsEmpty

LEMMA TokenInvInit == TokenInit => TokenInv
<1> SUFFICES ASSUME TokenInit PROVE TokenInv
  OBVIOUS
<1>1. RolesTypeOK
  BY RolesGenesisAssumption DEF TokenInit, InitGenesisRoles, RolesTypeOK, Role
<1>2. /\ paused \in {"unset", "paused", "running"}
      /\ mintingDenom \in Denom \cup {None}
      /\ minters \in [Addr -> Coin \cup {None}]
      /\ controllers \in [Addr -> Role]
      /\ blacklisted \subseteq Acc
  BY TokenGenesisAssumption DEF TokenInit, InitGenesis
<1>3. /\ balances \in Balances /\ supply \in 0..MaxInt
      /\ minted \in [Addr -> 0..MaxInt]
  <2>1. balances \in Balances
    BY BankAssumption DEF TokenInit
  <2>2. supply \in 0..MaxInt
    BY <1>2, TokenAssumption DEF TokenInit
  <2>3. minted \in [Addr -> 0..MaxInt]
    BY TokenAssumption DEF TokenInit
  <2> QED
    BY <2>1, <2>2, <2>3
<1>4. \A a \in Addr : minters[a] # None =>
        minters[a].amount \in 0..MaxInt /\ granted[a] = minters[a].amount /\ minted[a] = 0
  BY <1>2 DEF TokenInit, Coin
<1>5. granted \in [Addr -> 0..MaxInt]
  BY <1>4, TokenAssumption DEF TokenInit
<1>6. TokenTypeOK
  BY <1>1, <1>2, <1>3, <1>5 DEF TokenTypeOK
<1>7. AllowanceIsGrantLessMinted
  BY <1>4, TokenAssumption DEF AllowanceIsGrantLessMinted
<1>8. ModuleAccountIsEmpty
  BY AddressAssumption, TokenAssumption DEF TokenInit, ModuleAccountIsEmpty
<1> QED
  BY <1>6, <1>7, <1>8 DEF TokenInv

LEMMA TokenInvStep == TokenInv /\ [TokenNext \/ TokenElsewhere]_factoryVars => TokenInv'
<1> SUFFICES ASSUME TokenInv, [TokenNext \/ TokenElsewhere]_factoryVars
             PROVE  TokenInv'
  OBVIOUS
<1> USE DEF TokenInv
<1>1. RolesTypeOK'
  <2>1. [RolesNext]_rolesVars
    BY DEF TokenNext, TokenElsewhere, factoryVars, RolesNext, rolesVars
  <2> QED
    BY <2>1, RolesTypeStep DEF TokenTypeOK
<1> DEFINE StoreTypes ==
      /\ paused \in {"unset", "paused", "running"}
      /\ mintingDenom \in Denom \cup {None}
      /\ controllers \in [Addr -> Role]
      /\ blacklisted \subseteq Acc
(* Steps after which the store's other entries are typed and which leave   *)
(* the allowances and the bank alone.                                      *)
<1>2. ASSUME StoreTypes', UNCHANGED <<grants, bank>>
      PROVE  TokenInv'
  BY <1>1, <1>2 DEF TokenTypeOK, AllowanceIsGrantLessMinted, ModuleAccountIsEmpty, grants, bank
<1>3. ASSUME UNCHANGED tokenVars
      PROVE  TokenInv'
  BY <1>2, <1>3 DEF TokenTypeOK, tokenVars
<1>4. ASSUME NEW from \in Signer, Pause(from) \/ Unpause(from)
      PROVE  TokenInv'
  BY <1>2, <1>4 DEF Pause, Unpause, TokenTypeOK
<1>5. ASSUME NEW from \in Signer, NEW s \in Spelling,
             Blacklist(from, s) \/ Unblacklist(from, s)
      PROVE  TokenInv'
  BY <1>2, <1>5, AddressAssumption DEF Blacklist, Unblacklist, TokenTypeOK
<1>6. ASSUME NEW from \in Signer, NEW a \in Addr,
             \/ RemoveMinterController(from, a)
             \/ \E m \in Addr : ConfigureMinterController(from, a, m)
      PROVE  TokenInv'
  BY <1>2, <1>6 DEF RemoveMinterController, ConfigureMinterController, Role, TokenTypeOK
<1>7. ASSUME NEW from \in Signer, NEW a \in Addr, RemoveMinter(from, a)
      PROVE  TokenInv'
  <2>1. TokenTypeOK'
    BY <1>1, <1>7, TokenAssumption DEF RemoveMinter, TokenTypeOK, bank
  <2>2. AllowanceIsGrantLessMinted'
    BY <1>7, <2>1 DEF RemoveMinter, TokenTypeOK, AllowanceIsGrantLessMinted
  <2>3. ModuleAccountIsEmpty'
    BY <1>7 DEF RemoveMinter, bank, ModuleAccountIsEmpty
  <2> QED
    BY <2>1, <2>2, <2>3
<1>8. ASSUME NEW from \in Signer, NEW a \in Addr, NEW allowance \in Coin,
             ConfigureMinter(from, a, allowance)
      PROVE  TokenInv'
  <2>1. TokenTypeOK'
    BY <1>1, <1>8, TokenAssumption DEF ConfigureMinter, Coin, TokenTypeOK, bank
  <2>2. AllowanceIsGrantLessMinted'
    <3>1. /\ minters' = [minters EXCEPT ![a] = allowance]
          /\ granted' = [granted EXCEPT ![a] = allowance.amount]
          /\ minted' = [minted EXCEPT ![a] = 0]
      BY <1>8 DEF ConfigureMinter
    <3>2. DOMAIN minters = Addr /\ DOMAIN granted = Addr /\ DOMAIN minted = Addr
      BY DEF TokenTypeOK
    <3>3. allowance.amount \in Nat BY TokenAssumption DEF Coin
    <3>4. ASSUME NEW m \in Addr, minters'[m] # None
          PROVE  minters'[m].amount + minted'[m] = granted'[m]
      <4>1. CASE m = a BY <3>1, <3>2, <3>3, <4>1
      <4>2. CASE m # a
        <5>1. minters'[m] = minters[m] /\ minted'[m] = minted[m] /\ granted'[m] = granted[m]
          BY <3>1, <3>2, <4>2
        <5>2. QED BY <3>4, <5>1 DEF AllowanceIsGrantLessMinted
      <4>3. QED BY <4>1, <4>2
    <3>5. QED BY <3>4 DEF AllowanceIsGrantLessMinted
  <2>3. ModuleAccountIsEmpty'
    BY <1>8 DEF ConfigureMinter, bank, ModuleAccountIsEmpty
  <2> QED
    BY <2>1, <2>2, <2>3
<1>9. ASSUME NEW from \in Signer, NEW a \in Addr, NEW coin \in PositiveCoin,
             Mint(from, a, coin)
      PROVE  TokenInv'
  <2> DEFINE n == coin.amount
  <2>1. /\ minters[from] \in Coin /\ n <= minters[from].amount /\ n \in Nat
        /\ minters[from] # None /\ from \in Addr
    BY <1>9, MintAllowance, PositiveAmount, SignerAccount, TokenAssumption
  <2>2. /\ minters' \in [Addr -> Coin \cup {None}]
        /\ minters'[from].amount = minters[from].amount - n
        /\ \A m \in Addr \ {from} : minters'[m] = minters[m]
        /\ balances' = [balances EXCEPT ![AccOf[a]][coin.denom] = @ + n]
        /\ balances' \in Balances /\ supply' \in 0..MaxInt
    <3>1. /\ minters' \in [Addr -> Coin \cup {None}]
          /\ minters'[from].amount = minters[from].amount - coin.amount
          /\ \A m \in Addr \ {from} : minters'[m] = minters[m]
      BY <1>9, MintAllowance
    <3>2. /\ balances' = [balances EXCEPT ![AccOf[a]][coin.denom] = @ + coin.amount]
          /\ balances' \in Balances /\ supply' \in 0..MaxInt
      BY <1>9, MintEffect
    <3>3. QED BY <3>1, <3>2
  <2>3. minters[from].amount + minted[from] = granted[from]
    BY <2>1 DEF AllowanceIsGrantLessMinted
  <2>4. minted[from] + n \in 0..MaxInt
    BY <2>1, <2>3, TokenAssumption DEF TokenTypeOK, Coin
  <2>5. /\ minted' = [minted EXCEPT ![from] = @ + n]
        /\ UNCHANGED <<paused, mintingDenom, controllers, blacklisted, granted>>
    BY <1>9 DEF Mint
  <2>6. TokenTypeOK'
    BY <1>1, <2>1, <2>2, <2>4, <2>5 DEF TokenTypeOK
  <2>7. ASSUME NEW m \in Addr, minters'[m] # None
        PROVE  minters'[m].amount + minted'[m] = granted'[m]
    <3>1. CASE m = from
      BY <2>1, <2>2, <2>3, <2>5, <3>1 DEF TokenTypeOK, Coin
    <3>2. CASE m # from
      BY <2>2, <2>5, <2>7, <3>2 DEF TokenTypeOK, AllowanceIsGrantLessMinted
    <3> QED
      BY <3>1, <3>2
  <2>8. ModuleAccountIsEmpty'
    <3>1. AccOf[a] # Module /\ Module \in Acc
      BY <1>9, AddressAssumption, TokenAssumption DEF Mint
    <3> QED
      BY <2>2, <3>1 DEF TokenTypeOK, ModuleAccountIsEmpty
  <2> QED
    BY <2>6, <2>7, <2>8 DEF AllowanceIsGrantLessMinted
<1>10. ASSUME NEW from \in Signer, NEW coin \in PositiveCoin, Burn(from, coin)
       PROVE  TokenInv'
  <2>1. /\ balances' = [balances EXCEPT ![AccOf[from]][coin.denom] = @ - coin.amount]
        /\ balances' \in Balances /\ supply' \in 0..MaxInt
        /\ UNCHANGED grants
    BY <1>10, BurnEffect
  <2>2. TokenTypeOK'
    BY <1>1, <1>10, <2>1 DEF Burn, TokenTypeOK, grants
  <2>3. AllowanceIsGrantLessMinted'
    BY <2>1 DEF AllowanceIsGrantLessMinted, grants
  <2>4. AccOf[from] # Module /\ Module \in Acc
    BY AddressAssumption, TokenAssumption DEF Signer
  <2>5. ModuleAccountIsEmpty'
    BY <2>1, <2>4 DEF TokenTypeOK, ModuleAccountIsEmpty
  <2> QED
    BY <2>2, <2>3, <2>5
<1>11. ASSUME NEW from \in Signer, NEW a \in Addr, NEW coin \in PositiveCoin,
              SendToken(from, a, coin)
       PROVE  TokenInv'
  <2>1. /\ balances' \in Balances /\ balances'[Module] = balances[Module]
        /\ UNCHANGED <<grants, supply>>
    BY <1>11, SendTokenEffect
  <2>2. TokenTypeOK'
    BY <1>1, <1>11, <2>1 DEF SendToken, TokenTypeOK, grants
  <2>3. AllowanceIsGrantLessMinted' /\ ModuleAccountIsEmpty'
    BY <2>1 DEF AllowanceIsGrantLessMinted, ModuleAccountIsEmpty, grants
  <2> QED
    BY <2>2, <2>3
<1>12. CASE RestartTokens
  <2>1. UNCHANGED tokenVars
    BY <1>12 DEF RestartTokens, ExportGenesis, tokenVars, grants
  <2> QED
    BY <1>3, <2>1
<1>13. CASE TokenElsewhere
  <2>1. TokenTypeOK'
    BY <1>1, <1>13 DEF TokenElsewhere, TokenTypeOK, grants
  <2>2. AllowanceIsGrantLessMinted' /\ ModuleAccountIsEmpty'
    BY <1>13 DEF TokenElsewhere, AllowanceIsGrantLessMinted, ModuleAccountIsEmpty, grants
  <2> QED
    BY <2>1, <2>2
<1>14. CASE UNCHANGED factoryVars
  BY <1>3, <1>14 DEF factoryVars
<1> QED
  BY <1>3, <1>4, <1>5, <1>6, <1>7, <1>8, <1>9, <1>10, <1>11, <1>12, <1>13, <1>14
  DEF TokenNext, TokenMsg

LEMMA TokenInvCorrect == TokenOpenSpec => []TokenInv
BY TokenInvInit, TokenInvStep, PTL DEF TokenOpenSpec

(* Every variable keeps its type: no allowance, balance or supply leaves   *)
(* its range.                                                              *)
THEOREM TokenTypeCorrect == TokenOpenSpec => []TokenTypeOK
<1>1. TokenInv => TokenTypeOK
  BY DEF TokenInv
<1> QED
  BY <1>1, TokenInvCorrect, PTL

(* Nobody mints more than was granted.                                     *)
THEOREM AllowanceCorrect == TokenOpenSpec => []AllowanceIsGrantLessMinted
<1>1. TokenInv => AllowanceIsGrantLessMinted
  BY DEF TokenInv
<1> QED
  BY <1>1, TokenInvCorrect, PTL

(* No coin stays behind in the module's account.                           *)
THEOREM ModuleAccountCorrect == TokenOpenSpec => []ModuleAccountIsEmpty
<1>1. TokenInv => ModuleAccountIsEmpty
  BY DEF TokenInv
<1> QED
  BY <1>1, TokenInvCorrect, PTL

-----------------------------------------------------------------------------
(* Only Mint raises the supply and only Burn lowers it.                    *)
LEMMA SupplySteps ==
  ASSUME TokenInv, TokenNext \/ TokenElsewhere, supply' # supply
  PROVE  \E from \in Signer, coin \in PositiveCoin :
           \/ \E a \in Addr : Mint(from, a, coin) /\ supply' > supply
           \/ Burn(from, coin) /\ supply' < supply
<1>1. /\ ~ UNCHANGED tokenVars /\ ~ UNCHANGED bank
      /\ ~ RestartTokens /\ ~ TokenElsewhere
  BY DEF tokenVars, bank, RestartTokens, TokenElsewhere
<1>2. TokenMsg
  BY <1>1 DEF TokenNext
<1>3. PICK from \in Signer :
        \/ \E a \in Addr : \E coin \in PositiveCoin : Mint(from, a, coin)
        \/ \E coin \in PositiveCoin : Burn(from, coin)
  BY <1>1, <1>2 DEF TokenMsg, Pause, Unpause, Blacklist, Unblacklist,
    RemoveMinterController, ConfigureMinterController, RemoveMinter,
    ConfigureMinter, SendToken, bank
<1>4. ASSUME NEW a \in Addr, NEW coin \in PositiveCoin, Mint(from, a, coin)
      PROVE  supply' > supply
  BY <1>4, PositiveAmount, TokenAssumption DEF Mint, TokenInv, TokenTypeOK
<1>5. ASSUME NEW coin \in PositiveCoin, Burn(from, coin)
      PROVE  supply' < supply
  BY <1>5, PositiveAmount, TokenAssumption DEF Burn, TokenInv, TokenTypeOK
<1> QED
  BY <1>3, <1>4, <1>5

(* Every coin minted is charged to one minter's allowance and reaches one  *)
(* receiver, neither of them blacklisted, while minting is not paused.     *)
THEOREM MintCorrect == TokenOpenSpec => MintIsCharged
<1> DEFINE Charged ==
      LET n == supply' - supply IN
      /\ paused = "running"
      /\ \E a \in Addr :
           /\ minters[a] # None /\ AccOf[a] \notin blacklisted
           /\ minters[a].denom = mintingDenom
           /\ minters' = [minters EXCEPT ![a].amount = @ - n]
      /\ \E acc \in Acc \ blacklisted : balances' = [balances EXCEPT ![acc][mintingDenom] = @ + n]
<1>1. TokenInv /\ [TokenNext \/ TokenElsewhere]_factoryVars => [supply' > supply => Charged]_factoryVars
  <2> SUFFICES ASSUME TokenInv, TokenNext \/ TokenElsewhere, supply' > supply
               PROVE  Charged
    OBVIOUS
  <2>1. supply \in Int /\ supply' # supply /\ ~(supply' < supply)
    <3>1. supply \in Int
      BY TokenAssumption DEF TokenInv, TokenTypeOK
    <3>2. supply' \in Int
      BY TokenInvStep, TokenAssumption DEF TokenInv, TokenTypeOK
    <3> QED
      BY <3>1, <3>2
  <2>2. PICK from \in Signer, coin \in PositiveCoin, a \in Addr : Mint(from, a, coin)
    BY <2>1, SupplySteps
  <2>3. coin.amount = supply' - supply
    BY <2>1, <2>2, PositiveAmount DEF Mint
  <2>4. /\ minters' = [minters EXCEPT ![from].amount = @ - coin.amount]
        /\ balances' = [balances EXCEPT ![AccOf[a]][coin.denom] = @ + coin.amount]
    BY <2>2, MintAllowance, MintEffect DEF TokenInv
  <2>5. from \in Addr /\ AccOf[a] \in Acc
    BY SignerAccount, AddressAssumption
  <2>6. paused = "running"
    BY <2>2 DEF Mint, MayMint, TokenInv, TokenTypeOK
  <2> QED
    BY <2>2, <2>3, <2>4, <2>5, <2>6 DEF Mint, MayMint
<1> QED
  BY <1>1, TokenInvCorrect, PTL DEF TokenOpenSpec, MintIsCharged

(* Every coin burnt is the burning minter's own.                           *)
THEOREM BurnCorrect == TokenOpenSpec => BurnTakesOwnCoins
<1> DEFINE Own ==
      LET n == supply - supply' IN
      /\ paused = "running"
      /\ \E a \in Addr :
           /\ minters[a] # None /\ AccOf[a] \notin blacklisted
           /\ balances' = [balances EXCEPT ![AccOf[a]][mintingDenom] = @ - n]
      /\ UNCHANGED minters
<1>1. TokenInv /\ [TokenNext \/ TokenElsewhere]_factoryVars => [supply' < supply => Own]_factoryVars
  <2> SUFFICES ASSUME TokenInv, TokenNext \/ TokenElsewhere, supply' < supply
               PROVE  Own
    OBVIOUS
  <2>1. supply \in Int /\ supply' # supply /\ ~(supply' > supply)
    <3>1. supply \in Int
      BY TokenAssumption DEF TokenInv, TokenTypeOK
    <3>2. supply' \in Int
      BY TokenInvStep, TokenAssumption DEF TokenInv, TokenTypeOK
    <3> QED
      BY <3>1, <3>2
  <2>2. PICK from \in Signer, coin \in PositiveCoin : Burn(from, coin)
    BY <2>1, SupplySteps
  <2>3. coin.amount = supply - supply'
    BY <2>1, <2>2, PositiveAmount DEF Burn
  <2>4. balances' = [balances EXCEPT ![AccOf[from]][coin.denom] = @ - coin.amount] /\ UNCHANGED grants
    BY <2>2, BurnEffect DEF TokenInv
  <2>5. from \in Addr
    BY SignerAccount
  <2>6. paused = "running"
    BY <2>2 DEF Burn, TokenInv, TokenTypeOK
  <2> QED
    BY <2>2, <2>3, <2>4, <2>5, <2>6 DEF Burn, grants
<1> QED
  BY <1>1, TokenInvCorrect, PTL DEF TokenOpenSpec, BurnTakesOwnCoins

(* Export and import lose nothing but the open offer of ownership.         *)
THEOREM RestartCorrect == TokenOpenSpec => RestartLosesOnlyTheOffer
<1>1. RestartTokens /\ RestartRoles =>
        /\ UNCHANGED <<owner, masterMinter, pauser, blacklister, tokenVars>>
        /\ pendingOwner' = None
  BY DEF RestartTokens, RestartRoles, ExportGenesis, ExportRoles, tokenVars, grants
<1> QED
  BY <1>1, PTL DEF RestartLosesOnlyTheOffer

(* An allowance nobody controls is never raised and never taken away: only *)
(* mints change it.                                                        *)
THEOREM OrphanCorrect == TokenOpenSpec => OrphanAllowanceOnlyShrinks
<1> DEFINE Orphan(a) == minters[a] # None /\ \A c \in Addr : controllers[c] # a
           Shrinks(a) == /\ minters'[a] # None
                         /\ minters'[a].denom = minters[a].denom
                         /\ minters'[a].amount <= minters[a].amount
<1>1. TokenInv /\ [TokenNext \/ TokenElsewhere]_factoryVars => [\A a \in Addr : Orphan(a) => Shrinks(a)]_factoryVars
  <2> SUFFICES ASSUME TokenInv, TokenNext \/ TokenElsewhere, NEW a \in Addr, Orphan(a)
               PROVE  Shrinks(a)
    OBVIOUS
  <2>1. minters[a] \in Coin
    BY DEF TokenInv, TokenTypeOK
  <2>2. minters[a].amount \in Nat
    BY <2>1, TokenAssumption DEF Coin
  <2>3. CASE UNCHANGED minters
    BY <2>2, <2>3
  <2>4. CASE minters' # minters
    <3>1. TokenMsg
      BY <2>4 DEF TokenNext, TokenElsewhere, tokenVars, grants, RestartTokens, ExportGenesis
    <3>2. PICK from \in Signer, m \in Addr :
            \/ RemoveMinter(from, m)
            \/ \E allowance \in Coin : ConfigureMinter(from, m, allowance)
            \/ \E coin \in PositiveCoin : Mint(from, m, coin)
      BY <2>4, <3>1 DEF TokenMsg, Pause, Unpause, Blacklist, Unblacklist,
        RemoveMinterController, ConfigureMinterController, SendToken, Burn, grants
    <3>3. from \in Addr
      BY SignerAccount
    <3>4. CASE RemoveMinter(from, m) \/ \E allowance \in Coin : ConfigureMinter(from, m, allowance)
      <4>1. controllers[from] = m /\ m # a
        BY <3>3, <3>4 DEF RemoveMinter, ConfigureMinter
      <4>2. minters'[a] = minters[a]
        BY <3>4, <4>1 DEF RemoveMinter, ConfigureMinter, TokenInv, TokenTypeOK
      <4> QED
        BY <2>2, <4>2
    <3>5. ASSUME NEW coin \in PositiveCoin, Mint(from, m, coin)
          PROVE  Shrinks(a)
      <4>0. /\ minters' = [minters EXCEPT ![from].amount = @ - coin.amount]
            /\ minters'[from] # None
            /\ minters'[from].amount = minters[from].amount - coin.amount
            /\ \A x \in Addr \ {from} : minters'[x] = minters[x]
        BY <3>5, MintAllowance DEF TokenInv
      <4>1. CASE a # from
        <5>1. minters'[a] = minters[a]
          BY <4>0, <4>1
        <5> QED
          BY <2>2, <5>1
      <4>2. CASE a = from
        <5>1. minters'[a].denom = minters[a].denom
          BY <2>1, <4>0, <4>2 DEF TokenInv, TokenTypeOK, Coin
        <5> QED
          BY <2>2, <4>0, <4>2, <5>1, PositiveAmount
      <4> QED
        BY <4>1, <4>2
    <3> QED
      BY <3>2, <3>4, <3>5
  <2> QED
    BY <2>3, <2>4
<1> QED
  BY <1>1, TokenInvCorrect, PTL DEF TokenOpenSpec, OrphanAllowanceOnlyShrinks
=============================================================================
