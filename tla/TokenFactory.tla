---------------------------- MODULE TokenFactory ----------------------------
(***************************************************************************)
(* x/tokenfactory: minters and their allowances, the controllers that      *)
(* configure them, the pause switch, the blacklist, and the coins of the   *)
(* minting denom in the bank.  The roles are those of Roles, and a step of *)
(* this module is one message of either part, committed whole.  A message  *)
(* whose check fails or panics is rolled back: its action is disabled.     *)
(***************************************************************************)
EXTENDS Roles, Bank

CONSTANTS
  MaxInt,   \* the largest sdk.Int: a sum above it panics
  Module    \* the account of the module, where coins are created and destroyed

Coin == [denom : Denom, amount : 0..MaxInt]

ASSUME TokenAssumption ==
  /\ MaxInt \in Nat \ {0}
  /\ Module \in Blocked
  /\ None \notin Denom
  /\ None \notin Coin
  /\ \A d \in Denom : Wealth[Module][d] = 0 /\ TotalSupply(Wealth, d) \in 0..MaxInt

VARIABLES
  paused,        \* "unset", "paused" or "running"
  mintingDenom,
  minters,       \* minters[a]: the allowance of the minter stored under a
  controllers,   \* controllers[a]: the minter that the controller a configures
  blacklisted,   \* accounts, not spellings
  supply,        \* the bank: total supply of the minting denom
  granted,       \* history: the last allowance configured for a minter
  minted         \* history: what the minter has minted since

grants == <<minters, granted, minted>>
bank == <<balances, supply>>
tokenVars == <<paused, mintingDenom, controllers, blacklisted, grants, bank>>
factoryVars == <<rolesVars, tokenVars>>

ASSUME TokenGenesisAssumption ==
  \A g \in Genesis :
    /\ g.paused \in {"unset", "paused", "running"}
    /\ g.mintingDenom \in Denom \cup {None}
    /\ g.minters \in [Addr -> Coin \cup {None}]
    /\ g.controllers \in [Addr -> Role]
    /\ g.blacklisted \subseteq Acc

-----------------------------------------------------------------------------
(* What the bank keeper is called for: coins are created and destroyed in  *)
(* the module's account.                                                   *)
CoinsOf(coin) == Only(coin.denom, coin.amount)
MintCoins(b, coin) == AddCoins(b, Module, CoinsOf(coin))
BurnCoins(b, coin) == SubCoins(b, Module, CoinsOf(coin))
HasCoin(acc, coin) == coin.amount <= balances[acc][coin.denom]

(* InitGenesis stores what the file has; absent entries stay unset.        *)
InitGenesis(g) ==
  /\ paused = g.paused
  /\ mintingDenom = g.mintingDenom
  /\ minters = g.minters
  /\ controllers = g.controllers
  /\ blacklisted = g.blacklisted

(* Mutant of ExportGenesis: the controllers are not exported.              *)
ExportForgetsControllers ==
  [paused |-> paused, mintingDenom |-> mintingDenom, minters |-> minters,
   controllers |-> [a \in Addr |-> None], blacklisted |-> blacklisted]

(* ExportGenesis; it panics when paused or mintingDenom was never set.     *)
ExportGenesis ==
  [paused |-> paused, mintingDenom |-> mintingDenom, minters |-> minters,
   controllers |-> controllers, blacklisted |-> blacklisted]

TokenInit ==
  /\ \E g \in Genesis :
       ValidGenesisRoles(g) /\ InitGenesisRoles(g) /\ InitGenesis(g)
  /\ balances = Wealth
  /\ supply = IF mintingDenom = None THEN 0 ELSE TotalSupply(balances, mintingDenom)
  /\ granted = [a \in Addr |-> IF minters[a] = None THEN 0 ELSE minters[a].amount]
  /\ minted = [a \in Addr |-> 0]

-----------------------------------------------------------------------------
(* Reading the store: a minter is stored under its spelling, a controller   *)
(* under its own, a blacklisted account under its bytes.  GetPaused and     *)
(* GetMintingDenom panic when their entry was never set.                   *)
IsMinter(a) == minters[a] # None
Controls(from, a) == controllers[from] = a
IsBlacklisted(s) == AccOf[s] \in blacklisted
PausedSet == paused # "unset"
IsRunning == PausedSet /\ paused # "paused"
MintingDenomSet == mintingDenom # None

Pause(from) ==
  /\ IsPauser(from)
  /\ paused' = "paused"
  /\ UNCHANGED <<mintingDenom, controllers, blacklisted, grants, bank>>

Unpause(from) ==
  /\ IsPauser(from)
  /\ paused' = "running"
  /\ UNCHANGED <<mintingDenom, controllers, blacklisted, grants, bank>>

(* The blacklist messages take any spelling and store the decoded bytes.   *)
Blacklist(from, s) ==
  /\ IsBlacklister(from)
  /\ ~IsBlacklisted(s)
  /\ blacklisted' = blacklisted \cup {AccOf[s]}
  /\ UNCHANGED <<paused, mintingDenom, controllers, grants, bank>>

Unblacklist(from, s) ==
  /\ IsBlacklister(from)
  /\ IsBlacklisted(s)
  /\ blacklisted' = blacklisted \ {AccOf[s]}
  /\ UNCHANGED <<paused, mintingDenom, controllers, grants, bank>>

(* An existing assignment of the controller is overwritten.                *)
ConfigureMinterController(from, controller, minter) ==
  /\ IsMasterMinter(from)
  /\ controllers' = [controllers EXCEPT ![controller] = minter]
  /\ UNCHANGED <<paused, mintingDenom, blacklisted, grants, bank>>

RemoveMinterController(from, controller) ==
  /\ IsMasterMinter(from)
  /\ controllers[controller] # None
  /\ controllers' = [controllers EXCEPT ![controller] = None]
  /\ UNCHANGED <<paused, mintingDenom, blacklisted, grants, bank>>

(* Mutant of ConfigureMinter: a controller configures any minter.          *)
ConfigureMinterAny(from, a, allowance) ==
  /\ MintingDenomSet
  /\ allowance.denom = mintingDenom
  /\ controllers[from] # None
  /\ minters' = [minters EXCEPT ![a] = allowance]
  /\ granted' = [granted EXCEPT ![a] = allowance.amount]
  /\ minted' = [minted EXCEPT ![a] = 0]
  /\ UNCHANGED <<paused, mintingDenom, controllers, blacklisted, bank>>

(* The allowance replaces the old one; pause and blacklist do not matter.  *)
ConfigureMinter(from, a, allowance) ==
  /\ MintingDenomSet
  /\ allowance.denom = mintingDenom
  /\ Controls(from, a)
  /\ minters' = [minters EXCEPT ![a] = allowance]
  /\ granted' = [granted EXCEPT ![a] = allowance.amount]
  /\ minted' = [minted EXCEPT ![a] = 0]
  /\ UNCHANGED <<paused, mintingDenom, controllers, blacklisted, bank>>

RemoveMinter(from, a) ==
  /\ Controls(from, a)
  /\ IsMinter(a)
  /\ minters' = [minters EXCEPT ![a] = None]
  /\ granted' = [granted EXCEPT ![a] = 0]
  /\ minted' = [minted EXCEPT ![a] = 0]
  /\ UNCHANGED <<paused, mintingDenom, controllers, blacklisted, bank>>

(* Mutant of MayMint: only the receiver is looked up in the blacklist.     *)
MayMintIgnoresMinter(from, to, coin) ==
  /\ IsMinter(from)
  /\ ~IsBlacklisted(to)
  /\ coin.denom = mintingDenom
  /\ minters[from].denom = coin.denom
  /\ coin.amount <= minters[from].amount
  /\ IsRunning

(* The checks of Keeper.Mint that read the store.  Comparing the allowance *)
(* with the amount panics when their denoms differ.                        *)
MayMint(from, to, coin) ==
  /\ IsMinter(from)
  /\ ~IsBlacklisted(from) /\ ~IsBlacklisted(to)
  /\ coin.denom = mintingDenom
  /\ minters[from].denom = coin.denom
  /\ coin.amount <= minters[from].amount
  /\ IsRunning

(* Mutant of Mint: the error of a refused receiver is ignored.             *)
MintIgnoresRefusal(from, to, coin) ==
  /\ MayMint(from, to, coin)
  /\ supply + coin.amount <= MaxInt
  /\ minters' = [minters EXCEPT ![from].amount = @ - coin.amount]
  /\ balances' = LET b == MintCoins(balances, coin) IN
                 IF AccOf[to] \in Blocked THEN b
                 ELSE SendCoins(b, Module, AccOf[to], CoinsOf(coin))
  /\ supply' = supply + coin.amount
  /\ minted' = [minted EXCEPT ![from] = @ + coin.amount]
  /\ UNCHANGED <<paused, mintingDenom, controllers, blacklisted, granted>>

(* The coins are created in the module's account and sent on, which the    *)
(* bank refuses for a blocked receiver.                                    *)
Mint(from, to, coin) ==
  /\ MayMint(from, to, coin)
  /\ supply + coin.amount <= MaxInt
  /\ AccOf[to] \notin Blocked
  /\ minters' = [minters EXCEPT ![from].amount = @ - coin.amount]
  /\ balances' = SendCoins(MintCoins(balances, coin), Module, AccOf[to], CoinsOf(coin))
  /\ supply' = supply + coin.amount
  /\ minted' = [minted EXCEPT ![from] = @ + coin.amount]
  /\ UNCHANGED <<paused, mintingDenom, controllers, blacklisted, granted>>

(* Mutants of Burn: the allowance is restored; the pause is ignored; the   *)
(* balance is not looked at; any account's coins are taken.                *)
BurnRestoresAllowance(from, coin) ==
  /\ IsMinter(from)
  /\ coin.denom = minters[from].denom
  /\ IsRunning
  /\ HasCoin(AccOf[from], coin)
  /\ minters' = [minters EXCEPT ![from].amount = @ + coin.amount]
  /\ balances' = BurnCoins(SendCoins(balances, AccOf[from], Module, CoinsOf(coin)), coin)
  /\ supply' = supply - coin.amount
  /\ UNCHANGED <<paused, mintingDenom, controllers, blacklisted, granted, minted>>
BurnWhilePaused(from, coin) ==
  /\ IsMinter(from)
  /\ ~IsBlacklisted(from)
  /\ coin.denom = mintingDenom
  /\ HasCoin(AccOf[from], coin)
  /\ balances' = BurnCoins(SendCoins(balances, AccOf[from], Module, CoinsOf(coin)), coin)
  /\ supply' = supply - coin.amount
  /\ UNCHANGED <<paused, mintingDenom, controllers, blacklisted, grants>>
BurnAnyone(from, coin) ==
  /\ IsMinter(from)
  /\ coin.denom = mintingDenom
  /\ IsRunning
  /\ \E acc \in Acc :
       /\ HasCoin(acc, coin)
       /\ balances' = BurnCoins(SendCoins(balances, acc, Module, CoinsOf(coin)), coin)
  /\ supply' = supply - coin.amount
  /\ UNCHANGED <<paused, mintingDenom, controllers, blacklisted, grants>>
BurnUnchecked(from, coin) ==
  /\ IsMinter(from)
  /\ coin.denom = mintingDenom
  /\ coin.amount <= supply
  /\ balances' = BurnCoins(SendCoins(balances, AccOf[from], Module, CoinsOf(coin)), coin)
  /\ supply' = supply - coin.amount
  /\ UNCHANGED <<paused, mintingDenom, controllers, blacklisted, grants>>

(* The minter burns its own coins; its allowance is not restored.  The     *)
(* bank panics if the supply is smaller than what is burnt.                *)
Burn(from, coin) ==
  /\ IsMinter(from)
  /\ ~IsBlacklisted(from)
  /\ coin.denom = mintingDenom
  /\ IsRunning
  /\ HasCoin(AccOf[from], coin)
  /\ coin.amount <= supply
  /\ balances' = BurnCoins(SendCoins(balances, AccOf[from], Module, CoinsOf(coin)), coin)
  /\ supply' = supply - coin.amount
  /\ UNCHANGED <<paused, mintingDenom, controllers, blacklisted, grants>>

(* A user's own transfer.  The ante handlers consult the keeper of the     *)
(* other token factory only, so neither pause nor blacklist stops it.      *)
SendToken(from, to, coin) ==
  /\ Send(AccOf[from], AccOf[to], CoinsOf(coin))
  /\ UNCHANGED <<paused, mintingDenom, controllers, blacklisted, grants, supply>>

RestartTokens ==
  /\ PausedSet
  /\ MintingDenomSet
  /\ LET g == ExportGenesis IN
     /\ paused' = g.paused
     /\ mintingDenom' = g.mintingDenom
     /\ minters' = g.minters
     /\ controllers' = g.controllers
     /\ blacklisted' = g.blacklisted
  /\ UNCHANGED <<granted, minted, bank>>

(* ValidateBasic: amounts to mint and burn are positive.                   *)
PositiveCoin == {coin \in Coin : coin.amount > 0}

TokenMsg ==
  \E from \in Signer :
    \/ Pause(from)
    \/ Unpause(from)
    \/ \E s \in Spelling : Blacklist(from, s) \/ Unblacklist(from, s)
    \/ \E a \in Addr :
         \/ RemoveMinterController(from, a)
         \/ RemoveMinter(from, a)
         \/ \E minter \in Addr : ConfigureMinterController(from, a, minter)
         \/ \E allowance \in Coin : ConfigureMinter(from, a, allowance)
         \/ \E coin \in PositiveCoin : Mint(from, a, coin) \/ SendToken(from, a, coin)
    \/ \E coin \in PositiveCoin : Burn(from, coin)

TokenNext ==
  \/ RolesMsg /\ UNCHANGED tokenVars
  \/ TokenMsg /\ UNCHANGED rolesVars
  \/ RestartTokens /\ RestartRoles

TokenSpec == TokenInit /\ [][TokenNext]_factoryVars

(* What the rest of the chain does to the bank under the token factory:    *)
(* it moves coins as it likes, but has no access to the module's account.  *)
TokenElsewhere ==
  /\ balances' \in Balances
  /\ balances'[Module] = balances[Module]
  /\ UNCHANGED <<rolesVars, paused, mintingDenom, controllers, blacklisted, grants, supply>>

TokenOpenSpec == TokenInit /\ [][TokenNext \/ TokenElsewhere]_factoryVars

-----------------------------------------------------------------------------
TokenTypeOK ==
  /\ RolesTypeOK
  /\ paused \in {"unset", "paused", "running"}
  /\ mintingDenom \in Denom \cup {None}
  /\ minters \in [Addr -> Coin \cup {None}]
  /\ controllers \in [Addr -> Role]
  /\ blacklisted \subseteq Acc
  /\ balances \in Balances
  /\ supply \in 0..MaxInt
  /\ granted \in [Addr -> 0..MaxInt]
  /\ minted \in [Addr -> 0..MaxInt]

(* What is left of an allowance and what was minted from it add up to what *)
(* its controller granted, over any interleaving of mints, burns, pauses,  *)
(* controller changes and restarts: no coin is minted beyond the grant,    *)
(* and a burn gives nothing back.                                          *)
AllowanceIsGrantLessMinted ==
  \A a \in Addr : minters[a] # None => minters[a].amount + minted[a] = granted[a]

(* The module's account is empty between transactions: what Mint creates   *)
(* there leaves it in the same message, what Burn collects is destroyed.   *)
ModuleAccountIsEmpty == \A d \in Denom : balances[Module][d] = 0

(* Supply grows by what one minter, not blacklisted under any spelling, is *)
(* charged in the minting denom; the whole of it arrives at one receiver   *)
(* that is not blacklisted either; nothing grows while paused.             *)
MintIsCharged ==
  [][supply' > supply =>
       LET n == supply' - supply IN
       /\ paused = "running"
       /\ \E a \in Addr :
            /\ minters[a] # None /\ AccOf[a] \notin blacklisted
            /\ minters[a].denom = mintingDenom
            /\ minters' = [minters EXCEPT ![a].amount = @ - n]
       /\ \E acc \in Acc \ blacklisted :
            balances' = [balances EXCEPT ![acc][mintingDenom] = @ + n]]_factoryVars

(* Supply shrinks by what one minter, not blacklisted, gives up from its   *)
(* own account; allowances stay as they are; nothing shrinks while paused. *)
BurnTakesOwnCoins ==
  [][supply' < supply =>
       LET n == supply - supply' IN
       /\ paused = "running"
       /\ \E a \in Addr :
            /\ minters[a] # None /\ AccOf[a] \notin blacklisted
            /\ balances' = [balances EXCEPT ![AccOf[a]][mintingDenom] = @ - n]
       /\ UNCHANGED minters]_factoryVars

(* A minter whose controllers have all been removed or reassigned keeps its *)
(* allowance and can only use it up: until the master minter appoints a    *)
(* controller for it again nobody raises the allowance, and nobody can     *)
(* take it away (RemoveMinterController leaves the minter in the store).   *)
OrphanAllowanceOnlyShrinks ==
  [][\A a \in Addr :
       minters[a] # None /\ (\A c \in Addr : controllers[c] # a) =>
         /\ minters'[a] # None
         /\ minters'[a].denom = minters[a].denom
         /\ minters'[a].amount <= minters[a].amount]_factoryVars

(* Export and import lose nothing but the open offer of ownership.         *)
RestartLosesOnlyTheOffer ==
  [][RestartTokens /\ RestartRoles =>
       /\ UNCHANGED <<owner, masterMinter, pauser, blacklister, tokenVars>>
       /\ pendingOwner' = None]_factoryVars

(* readme.md, access control: transfers of the token factory's asset are   *)
(* not among the actions allowed while paused.  Expected to fail.          *)
NoTransferWhilePaused ==
  [][paused = "paused" => UNCHANGED balances]_factoryVars
=============================================================================
