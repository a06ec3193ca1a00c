------------------------------- MODULE Tariff -------------------------------
(***************************************************************************)
(* x/tariff: a fee on outgoing ICS-20 transfers, taken from the escrow     *)
(* account while the packet is on its way down the ICS4 stack, and the     *)
(* allocation of collected fees among the distribution entities at the     *)
(* beginning of a block, before the distribution module takes the rest.    *)
(* The transfer module, the counterparty chain and the distribution module *)
(* are external: they are modelled from how the app wires them.            *)
(***************************************************************************)
EXTENDS Bank, Sequences

CONSTANTS
  FeeCollector,  \* the account transaction fees are collected in
  Distribution,  \* the distribution module's account
  Channel,
  Escrow,        \* Escrow[ch]: the transfer module's escrow account of ch
  Path,          \* Path[d]: what a packet calls them, d itself if d is native
  Home,          \* Home[d]: the channel d is a voucher of, None if d is native
  Prec,          \* sdk.Dec counts units of 1/Prec (10^18)
  BpsUnit,       \* basis points in the whole (10000)
  ParamSets,     \* values proposed for the parameters, valid or not
  MaxAmount,     \* bound: what one packet carries
  MaxInFlight    \* bound: packets under way at once

ASSUME TariffAssumption ==
  /\ {FeeCollector, Distribution} \subseteq Blocked
  /\ FeeCollector # Distribution
  /\ Escrow \in [Channel -> Acc \ (Blocked \cup User)]
  /\ \A c, d \in Channel : Escrow[c] = Escrow[d] => c = d
  /\ Home \in [Denom -> Channel \cup {None}] /\ None \notin Channel
  /\ \A d \in Denom : IF Home[d] = None THEN Path[d] = d ELSE Path[d] \notin Denom
  /\ Prec \in Nat \ {0} /\ BpsUnit \in Nat \ {0}
  /\ MaxAmount \in Nat
  /\ \A ch \in Channel, d \in Denom : Wealth[Escrow[ch]][d] = 0
  /\ \A p \in ParamSets : p.entities \in Seq([address : Spelling, share : Int])

VARIABLES
  params,     \* [share, entities, bps, max, denom], the fee denom maybe ""
  inFlight,   \* inFlight[p]: how many packets like p are sent and not acknowledged
  vouchers,   \* vouchers[ch][d]: what exists of d on the chain behind channel ch
  owed        \* history: owed[ch][d], what may still be asked of the escrow account

tariffState == <<params, inFlight, vouchers, owed>>
tariffVars == <<tariffState, balances>>

Packet == [sender : User, channel : Channel, denom : Denom, amount : 0..MaxAmount]

-----------------------------------------------------------------------------
(* validateDistributionEntityParams: the shares are positive and add up to  *)
(* one, or there is no entity.  An address is refused when two entries are  *)
(* written the way the chain prints it, so an account can be listed twice   *)
(* when one of its addresses is spelled in another way.                     *)
ValidEntities(entities) ==
  /\ \A i \in DOMAIN entities :
       /\ entities[i].address \in Addr
       /\ entities[i].share \in 1..Prec
       /\ \A j, k \in DOMAIN entities :
            /\ entities[j].address = String[AccOf[entities[i].address]]
            /\ entities[k].address = entities[j].address
            => j = k
  /\ entities # <<>> => SumFunction([i \in DOMAIN entities |-> entities[i].share]) = Prec

(* Mutant of ValidParams: the rate has no upper bound.                     *)
ValidParamsAnyRate(p) ==
  /\ p.share \in 0..Prec
  /\ ValidEntities(p.entities)
  /\ p.bps \in Nat
  /\ p.max \in Nat
  /\ p.denom \in Denom \cup {Path[d] : d \in Denom} \cup {""}

(* Params.Validate.                                                        *)
ValidParams(p) ==
  /\ p.share \in 0..Prec
  /\ ValidEntities(p.entities)
  /\ p.bps \in 0..BpsUnit
  /\ p.max \in Nat
  /\ p.denom \in Denom \cup {Path[d] : d \in Denom} \cup {""}

TariffInit ==
  /\ params \in {p \in ParamSets : ValidParams(p)}
  /\ balances = Wealth
  /\ inFlight = [p \in Packet |-> 0]
  /\ vouchers = [ch \in Channel |-> [d \in Denom |-> 0]]
  /\ owed = vouchers

(* Mutant of UpdateParams: the values are stored without their validation. *)
UpdateParamsUnchecked ==
  /\ params' \in ParamSets
  /\ UNCHANGED <<balances, inFlight, vouchers, owed>>

(* A parameter change, through the params module.                          *)
UpdateParams ==
  /\ params' \in {p \in ParamSets : ValidParams(p)}
  /\ UNCHANGED <<balances, inFlight, vouchers, owed>>

(* A transaction fee, deducted before the transaction runs.                *)
PayFee(user, coins) ==
  /\ Covers(balances[user], coins)
  /\ balances' = SendCoins(balances, user, FeeCollector, coins)
  /\ UNCHANGED tariffState

-----------------------------------------------------------------------------
(* Mutants of TransferFee: the maximum is forgotten; the fee is rounded up. *)
TransferFeeUncapped(denom, amount) ==
  IF Path[denom] # params.denom THEN 0 ELSE (amount * params.bps) \div BpsUnit
TransferFeeRoundsUp(denom, amount) ==
  LET fee == (amount * params.bps + BpsUnit - 1) \div BpsUnit IN
  IF Path[denom] # params.denom THEN 0
  ELSE IF fee > params.max THEN params.max
  ELSE fee

(* Keeper.SendPacket, the amount: basis points of the full amount, rounded *)
(* down and capped.  The packet names the denomination by its path.        *)
TransferFee(denom, amount) ==
  LET fee == (amount * params.bps) \div BpsUnit IN
  IF Path[denom] # params.denom THEN 0
  ELSE IF fee > params.max THEN params.max
  ELSE fee

(* The bank has no coins that are called by the path of a voucher.         *)
HasCoins(b, acc, denom, n) == n > 0 => Path[denom] = denom /\ b[acc][denom] >= n

Sent(sender, ch, denom, amount) ==
  [sender |-> sender, channel |-> ch, denom |-> denom, amount |-> amount]

(* What a packet carries is in escrow unless it is a voucher going home.   *)
Escrowed(ch, denom) == Home[denom] # ch
Owing(ch, denom, n) == IF Escrowed(ch, denom) THEN [owed EXCEPT ![ch][denom] = @ + n] ELSE owed

(* Mutants of SendPacket: the packet still carries the full amount; the fee *)
(* is taken from another channel's escrow account.                         *)
SendPacketKeepsAmount(b, sender, ch, denom, amount) ==
  LET fee == TransferFee(denom, amount)  rest == amount IN
  /\ HasCoins(b, Escrow[ch], denom, fee)
  /\ balances' = SendCoins(b, Escrow[ch], FeeCollector, Only(denom, fee))
  /\ inFlight' = [inFlight EXCEPT ![Sent(sender, ch, denom, rest)] = @ + 1]
  /\ owed' = Owing(ch, denom, rest)
SendPacketWrongEscrow(b, sender, ch, denom, amount) ==
  LET fee == TransferFee(denom, amount)  rest == amount - fee IN
  \E c \in Channel :
    /\ HasCoins(b, Escrow[c], denom, fee)
    /\ balances' = SendCoins(b, Escrow[c], FeeCollector, Only(denom, fee))
    /\ inFlight' = [inFlight EXCEPT ![Sent(sender, ch, denom, rest)] = @ + 1]
    /\ owed' = Owing(ch, denom, rest)

(* Keeper.SendPacket on a fungible-token packet: the fee leaves the escrow *)
(* account for the collector and the packet carries what remains.  A packet *)
(* without a fee is passed on as it is.                                    *)
SendPacket(b, sender, ch, denom, amount) ==
  LET fee == TransferFee(denom, amount)  rest == amount - fee IN
  /\ HasCoins(b, Escrow[ch], denom, fee)
  /\ balances' = SendCoins(b, Escrow[ch], FeeCollector, Only(denom, fee))
  /\ inFlight' = [inFlight EXCEPT ![Sent(sender, ch, denom, rest)] = @ + 1]
  /\ owed' = Owing(ch, denom, rest)

(* Where the transfer module puts the coins before it calls SendPacket: a  *)
(* voucher that goes home is burnt, anything else is put in escrow.        *)
Outgoing(sender, ch, denom, amount) ==
  IF Escrowed(ch, denom) THEN SendCoins(balances, sender, Escrow[ch], Only(denom, amount))
  ELSE SubCoins(balances, sender, Only(denom, amount))

(* MsgTransfer: an error, there or in SendPacket, undoes both.             *)
Transfer(sender, ch, denom, amount) ==
  /\ balances[sender][denom] >= amount
  /\ SendPacket(Outgoing(sender, ch, denom, amount), sender, ch, denom, amount)
  /\ UNCHANGED <<params, vouchers>>

(* The condition of neither error: all that Transfer asks of a state.      *)
MayTransfer(sender, ch, denom, amount) ==
  /\ balances[sender][denom] >= amount
  /\ HasCoins(Outgoing(sender, ch, denom, amount), Escrow[ch], denom,
              TransferFee(denom, amount))

(* The counterparty accepts the packet: it mints vouchers, or releases     *)
(* what came home.                                                         *)
Deliver(p) ==
  /\ inFlight[p] > 0
  /\ p.amount > 0
  /\ inFlight' = [inFlight EXCEPT ![p] = @ - 1]
  /\ vouchers' = IF Escrowed(p.channel, p.denom)
                 THEN [vouchers EXCEPT ![p.channel][p.denom] = @ + p.amount] ELSE vouchers
  /\ UNCHANGED <<params, balances, owed>>

(* Mutant of Refund: what comes back is always minted.                     *)
RefundMints(p) ==
  /\ inFlight[p] > 0
  /\ inFlight' = [inFlight EXCEPT ![p] = @ - 1]
  /\ balances' = AddCoins(balances, p.sender, Only(p.denom, p.amount))
  /\ owed' = Owing(p.channel, p.denom, -p.amount)
  /\ UNCHANGED <<params, vouchers>>

(* The counterparty refuses the packet or it times out: the transfer       *)
(* module gives back, or mints again, the amount it reads in the packet.   *)
Refund(p) ==
  LET coins == Only(p.denom, p.amount) IN
  /\ inFlight[p] > 0
  /\ inFlight' = [inFlight EXCEPT ![p] = @ - 1]
  /\ IF Escrowed(p.channel, p.denom)
     THEN /\ balances[Escrow[p.channel]][p.denom] >= p.amount
          /\ balances' = SendCoins(balances, Escrow[p.channel], p.sender, coins)
     ELSE balances' = AddCoins(balances, p.sender, coins)
  /\ owed' = Owing(p.channel, p.denom, -p.amount)
  /\ UNCHANGED <<params, vouchers>>

(* Vouchers come back and are redeemed from the escrow account, unless the *)
(* receiver is a module account.                                           *)
Redeem(ch, denom, n, acc) ==
  /\ acc \notin Blocked
  /\ vouchers[ch][denom] >= n
  /\ balances[Escrow[ch]][denom] >= n
  /\ vouchers' = [vouchers EXCEPT ![ch][denom] = @ - n]
  /\ balances' = SendCoins(balances, Escrow[ch], acc, Only(denom, n))
  /\ owed' = [owed EXCEPT ![ch][denom] = @ - n]
  /\ UNCHANGED <<params, inFlight>>

-----------------------------------------------------------------------------
MulDecTruncate(a, b) == (a * b) \div Prec

(* What an entity is due of what was collected: two products of decimals,  *)
(* each truncated, and the integer part of the result.                     *)
EntityCoins(collected, entity) ==
  [d \in Denom |->
     MulDecTruncate(MulDecTruncate(collected[d] * Prec, params.share), entity.share) \div Prec]

(* Mutant of PayEntity: the bank is not asked whether it pays the account. *)
PayEntityAnyone(b, collected, entity) ==
  LET coins == EntityCoins(collected, entity) IN
  IF Covers(b[FeeCollector], coins)
  THEN SendCoins(b, FeeCollector, AccOf[entity.address], coins)
  ELSE b

(* An entity is paid out of the collector.  A payment the bank refuses is  *)
(* logged and the loop goes on.                                            *)
PayEntity(b, collected, entity) ==
  LET coins == EntityCoins(collected, entity) IN
  IF AccOf[entity.address] \notin Blocked /\ Covers(b[FeeCollector], coins)
  THEN SendCoins(b, FeeCollector, AccOf[entity.address], coins)
  ELSE b

(* Mutant of AllocateTokens: shares of what is left, not of what was there. *)
AllocateFromWhatIsLeft(b) ==
  LET Paid[i \in 0..Len(params.entities)] ==
        IF i = 0 THEN b
        ELSE PayEntity(Paid[i-1], Paid[i-1][FeeCollector], params.entities[i])
  IN Paid[Len(params.entities)]

(* Keeper.AllocateTokens: every entity's coins are computed from what the  *)
(* collector held at the start, and the entities are paid in their order.  *)
AllocateTokens(b) ==
  LET Paid[i \in 0..Len(params.entities)] ==
        IF i = 0 THEN b
        ELSE PayEntity(Paid[i-1], b[FeeCollector], params.entities[i])
  IN Paid[Len(params.entities)]

(* The distribution module takes all that is left in the collector.        *)
DistributeRest(b) == SendCoins(b, FeeCollector, Distribution, b[FeeCollector])

(* The begin blockers, in the order the app sets.                          *)
BeginBlock ==
  /\ balances' = DistributeRest(AllocateTokens(balances))
  /\ UNCHANGED tariffState

-----------------------------------------------------------------------------
PacketsUnderWay == SumFunction(inFlight)

TariffNext ==
  \/ UpdateParams
  \/ BeginBlock
  \/ \E u \in User, d \in Denom :
       \E n \in 1..MaxAmount :
         \/ PayFee(u, Only(d, n))
         \/ \E acc \in Acc : Send(u, acc, Only(d, n)) /\ UNCHANGED tariffState
         \/ \E ch \in Channel :
              \/ PacketsUnderWay < MaxInFlight /\ Transfer(u, ch, d, n)
              \/ \E acc \in Acc : Redeem(ch, d, n, acc)
  \/ \E p \in Packet : Deliver(p) \/ Refund(p)

TariffSpec == TariffInit /\ [][TariffNext]_tariffVars

(* What the rest of the chain does to the bank under the tariff: it takes  *)
(* nothing out of an escrow account.                                       *)
TariffElsewhere ==
  /\ balances' \in Balances
  /\ \A ch \in Channel : Covers(balances'[Escrow[ch]], balances[Escrow[ch]])
  /\ UNCHANGED tariffState

TariffOpenSpec == TariffInit /\ [][TariffNext \/ TariffElsewhere]_tariffVars

-----------------------------------------------------------------------------
TariffTypeOK ==
  /\ params \in {p \in ParamSets : ValidParams(p)}
  /\ balances \in Balances
  /\ inFlight \in [Packet -> Nat]
  /\ vouchers \in [Channel -> Coins]
  /\ owed \in [Channel -> [Denom -> Int]]

(* The part of it that is about one account.                               *)
EscrowCovers ==
  \A ch \in Channel, d \in Denom : balances[Escrow[ch]][d] >= owed[ch][d]

(* What the packets under way over a channel took out of circulation here.  *)
UnderWay(ch, d) ==
  LET packets == {p \in Packet : p.channel = ch /\ p.denom = d /\ Escrowed(ch, d)}
  IN  SumFunction([p \in packets |-> p.amount * inFlight[p]])

(* The escrow account of a channel holds all that may be asked of it, which *)
(* is what the packets under way carry and what exists as vouchers behind  *)
(* the channel: the fee taken from escrow comes off the packet, however    *)
(* the parameters change meanwhile, so every refund and redemption is paid. *)
EscrowBacksTransfers ==
  /\ EscrowCovers
  /\ \A ch \in Channel, d \in Denom :
       owed[ch][d] = vouchers[ch][d] + UnderWay(ch, d)

(* Coins can leave over every channel at any time: the escrow account can  *)
(* pay the fee of a packet, under any parameters the validation accepts.   *)
(* The one exception is a fee denomination that is the path of a voucher,  *)
(* which the bank does not know the coins by.                              *)
CoinsCanLeave ==
  \A u \in User, ch \in Channel, d \in Denom : \A n \in 1..balances[u][d] :
    \/ MayTransfer(u, ch, d, n)
    \/ Home[d] # None /\ params.denom = Path[d] /\ TransferFee(d, n) > 0

(* What the ideal escrow promises: see IdealEscrow.                        *)
Ideal == INSTANCE IdealEscrow WITH held <- [ch \in Channel |-> balances[Escrow[ch]]]

(* The escrow accounts under the tariff are an ideal escrow: the fee that  *)
(* SendPacket takes from one is hidden inside the step that locks the rest, *)
(* parameter changes and blocks take nothing out, and refunds and          *)
(* redemptions release what was locked.                                    *)
ImplementsIdealEscrow == Ideal!Spec

(* When a packet leaves, its sender pays the packet's amount and the fee,  *)
(* the collector gets the fee, and the fee is the largest that exceeds     *)
(* neither the rate nor the maximum.                                       *)
FeeIsTheTariff ==
  [][\A p \in Packet : inFlight'[p] > inFlight[p] =>
       LET paid == balances[p.sender][p.denom] - balances'[p.sender][p.denom]
           fee  == balances'[FeeCollector][p.denom] - balances[FeeCollector][p.denom]
           ok(n) == n * BpsUnit <= paid * params.bps /\ n <= params.max
       IN /\ paid = p.amount + fee
          /\ IF Path[p.denom] = params.denom THEN ok(fee) /\ ~ok(fee + 1) ELSE fee = 0]_tariffVars

(* At the beginning of a block an account that is not blocked gets, for     *)
(* each entity that names it, the whole part of that entity's share of the  *)
(* share of the fees: whatever the entity's place in the list and whether   *)
(* or not a payment before it failed.  The distribution module gets all     *)
(* that is left, the refused shares included.                               *)
AllocationIsTheShare ==
  [][BeginBlock => \A d \in Denom :
       LET collected == balances[FeeCollector][d]
           gain(acc) == balances'[acc][d] - balances[acc][d]
           Due(e)    == (collected * params.share * e.share) \div (Prec * Prec)
           named(acc) ==
             {i \in DOMAIN params.entities : AccOf[params.entities[i].address] = acc}
           due == [acc \in Acc \ Blocked |->
                     SumFunction([i \in named(acc) |-> Due(params.entities[i])])]
       IN /\ \A acc \in Acc \ Blocked : gain(acc) = due[acc]
          /\ balances'[FeeCollector][d] = 0
          /\ gain(Distribution) = collected - SumFunction(due)]_tariffVars

(* A packet that carries nothing is sent only under the rate of 100%.      *)
EmptyPacketOnlyAtFullRate ==
  [][\A p \in Packet :
       inFlight'[p] > inFlight[p] /\ p.amount = 0 => params.bps = BpsUnit]_tariffVars
=============================================================================
