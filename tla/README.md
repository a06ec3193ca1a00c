# Noble: a verification project

Noble is a Cosmos SDK application chain for issuing assets. This directory
holds TLA+ specifications of the modules whose code is in this repository, the
TLC configurations that check them on small instances, and TLAPS proofs of
their invariants. Everything is translated from the Go source; where a document
and the code differ, the specification follows the code and the difference is
a finding.

## 1. The system

A block is a sequence of steps on one replicated state: the begin blockers of
the modules, then the transactions. A transaction passes the ante handlers and
runs its messages; it commits as a whole or, when a check fails or code panics,
leaves no trace. So the unit of interleaving is the message, and what is hard is
the order of messages of different actors, the state one module leaves for
another, what is exported and imported at a restart, and packets that come back
long after they were sent under other parameters.

| component | state | operations | interacts with |
|---|---|---|---|
| x/tokenfactory, roles | owner, pending owner, master minter, pauser, blacklister | `UpdateOwner`, `AcceptOwner`, `UpdateMasterMinter`, `UpdatePauser`, `UpdateBlacklister` | all the other messages read the roles |
| x/tokenfactory, issuance | minters and allowances, minter controllers, pause switch, blacklist, minting denom | `Mint`, `Burn`, `ConfigureMinter`, `RemoveMinter`, `ConfigureMinterController`, `RemoveMinterController`, `Pause`, `Unpause`, `Blacklist`, `Unblacklist` | bank (mint, burn, send) |
| x/tokenfactory, genesis | | `Validate`, `InitGenesis`, `ExportGenesis` | bank denom metadata |
| x/tariff | parameters: share, distribution entities, basis points, maximum, denom | `SendPacket` (ICS-4 middleware), `AllocateTokens` (begin blocker), parameter changes | bank, ICS-20 transfer, distribution |
| x/globalfee | parameters: minimum gas prices, bypass message types | `FeeDecorator.AnteHandle` | staking parameter (bond denom), node configuration |
| app | wiring | ante chain, order of begin blockers, blocked accounts, export | everything |
| generated code and message types | none | `Unmarshal`, `Size`, `Marshal` of 76 message types; `ValidateBasic`, `GetSigners` of 15 | every byte a transaction, a genesis file or a query brings passes here first |
| bank of the SDK | balances | mint, burn, send; external, modelled from its callers | shared by token factory, tariff, IBC and the users |
| distribution, params, IBC transfer | their own | external, modelled from how the app wires them | bank |
| packet forwarding, fiat token factory, CCTP | their own | external to this repository | |
| queries, command line, simulation stubs | none | read-only or no protocol state | |

What makes each part correct:

* Roles: one account does not hold two operational roles; an offer of ownership
  belongs to the owner of the moment; only the owner assigns.
* Issuance: supply grows only by what a minter is charged, shrinks only by what a
  minter gives up; nothing moves through the module account and stays there;
  blacklisted accounts and a paused module stop both.
* Genesis: a restart from an exported file is the same state.
* Tariff: the fee is the tariff, the sender pays what the packet and the fee add
  up to, escrow covers everything outside; collected fees are shared as configured
  and no coin is lost when a payment fails.
* Global fee: the decorator accepts what the combined requirement allows.
* Messages: a decoder stays inside its slice and ends, whatever it is given; what was
  encoded is what is decoded; no decoded message makes a stateless check panic.
* App: each module may rely on the bank while the others use it too; what is
  held and what is outside the chain is always what was issued.

The hazards, each at its line, are in `PROJECT.json`.

## 2. Modules

| module | models | notes |
|---|---|---|
| `Addresses` | bech32 spellings of accounts, blocked accounts, users | constants and two predicates |
| `Bank` | the balances of every account in every denom | external; shared by the two modules below |
| `Roles` | the role part of x/tokenfactory | EXTENDS `Addresses`; a specification of its own, `RolesSpec` |
| `TokenFactory` | all of x/tokenfactory | EXTENDS `Roles` and `Bank`, whose variables and actions are part of its steps |
| `Tariff` | x/tariff with escrow accounts, counterparties and the distribution module | EXTENDS `Bank` |
| `IdealEscrow` | what an escrow account promises | abstract; `Tariff` implements it |
| `App` | token factory and tariff over one bank | EXTENDS `TokenFactory` and `Tariff` |
| `GlobalFee` | x/globalfee's fee decorator under the SDK's, with mempools | fee arithmetic as operators |
| `Wire` | the generated `Unmarshal` and the function that skips a field | one state machine for all types, `Schema` is a constant |
| `Messages` | `ValidateBasic` and `GetSigners` on what was decoded | EXTENDS `Wire` |
| `Encoding` | the generated `Size` and `MarshalToSizedBuffer` | EXTENDS `Wire`; the encoder takes the encoder of embedded messages as an operator |
| `Schemas`, `Encoders` | the fields of each type as its decoder, its encoder and its size know them | tables |
| `MCAddresses`, `MCRoles`, `MCTokenFactory`, `MCTariff`, `MCApp`, `MCGlobalFee`, `MCMessages` | instances for TLC | constants of the runs, bounds |
| `TokenFactory_proofs`, `Tariff_proofs`, `App_proofs`, `GlobalFee_proofs`, `Messages_proofs` | theorems | one for each module above with properties; `TokenFactory_proofs` has those of `Roles` too, `Messages_proofs` those of `Wire` and `Encoding` |
| `Decoder_proofs` | theorems | that the decoder of `Wire` inverts the encoder of `Encoding`; EXTENDS `Messages_proofs` |
| `Numbers_proofs`, `Bank_proofs` | lemmas | numbers, sums, recursive functions; what the bank's functions do |

### Addresses

The messages carry addresses as strings. The code decodes them to bytes for the
blacklist, for balances and for signatures, and compares the strings themselves
for roles, minters and controllers. Both bech32 cases decode to the same bytes,
and `bech32.DecodeAndConvert`, which the blacklist messages use, takes any
prefix. A spelling is therefore a value of its own, `AccOf` decodes it, and
`String` is what `AccAddress.String()` prints. `User` are the accounts somebody
holds a key of: only they sign (`Signer` are their spellings), while the account of a
module or an escrow account can be named in any message.

### Bank

One function from accounts to coins. The functions `AddCoins`, `SubCoins` and
`SendCoins` transform it, so that a handler that calls the bank several times is a
composition of functions and its action assigns the result once. `Send` is
the message by which users pay each other; it refuses blocked receivers.

### Roles

One variable per store entry, `None` when absent. An action is a message: its
guard is the comparison of the stored string with the sender and the call to
`ValidatePrivileges`, which decodes the new address, prints it and compares it
with four of the five entries. Reading a store entry is a guard with a name of its
own (`IsOwner`, `IsPauser`, `IsMinter`, `Controls`, `IsRunning`). `RestartRoles` is an export followed by
`InitGenesis`, which validates nothing and has no pending owner. The initial
state is a genesis file that `GenesisState.Validate` accepts (the
`validate-genesis` command runs it; the start of a chain does not, so this is
an assumption about operators). `proposedBy` is a history variable: who made the
open offer.

### TokenFactory

`minters` and `controllers` are functions on spellings, `blacklisted` a set of
accounts: the difference matters when one account is a minter under two
spellings. `paused` has the value "unset" before the first `Pause` or
`Unpause` of a default genesis, because `GetPaused` panics then; `Mint`,
`Burn` and the export are disabled. A message that fails after it changed
something (a blocked receiver, an overflow of the supply, an allowance in
another denom) is an action that is not enabled, since the SDK drops the
transaction's writes; what `Mint` and `Burn` do to the module account in between
is composed of `MintCoins`, `SendCoins` and `BurnCoins`. `granted` and `minted`
are history variables. `SendToken` is the bank's message; nothing in the ante
chain looks at this module's pause switch or blacklist.
Receivers that are module accounts are blocked (`App.BlockedModuleAccountAddrs`
has all of them).

`TokenElsewhere` is what the rest of the chain may do to the bank, namely
anything that leaves the module's own account alone, and `TokenOpenSpec` is the module
in a chain that does so. The theorems are about `TokenOpenSpec`.

### Tariff

`SendPacket` takes the fee out of the escrow account and shrinks the packet.
Amounts are integers, `sdk.Dec` counts 1/`Prec`, and a whole has `BpsUnit`
basis points; `fullAmount.ToDec().Mul(0.0001).MulInt(bps)` is exact in `sdk.Dec`,
so the fee is one integer division. A denom is native or the voucher of a
channel, its `Home`: in a packet, and in the comparison with the fee denom, a voucher is
called by its `Path`, in the bank by another name. A voucher that goes home is burnt
instead of escrowed, and minted again by a refund. `AllocateTokens` is a
recursive function along the list of entities; a payment to a blocked account or
one the collector cannot cover is skipped. The transfer module, the
counterparty, fee deduction and distribution are external. `inFlight`
counts equal packets; `owed` is a history variable: what was put in an escrow
account by packets, less what was taken out for refunds and redemptions. A
delivered packet must carry a positive amount, as ICS-20 packet validation
demands; every packet that is not delivered may be refunded, whether by an error
acknowledgement or a timeout. Vouchers may come back to any account that is not
blocked, an escrow account included. `BeginBlock` runs x/tariff and then
distribution, the order set in `app.go`. Distribution skips the first block, when the
collector is still empty. `TariffElsewhere` and `TariffOpenSpec` are the
counterparts of those above: the rest of the chain takes nothing out of an escrow account.

`IdealEscrow` has two variables per channel, what the account holds and what it
owes, and steps that lock, release or donate. `Ideal` in `Tariff` maps the
balances of the escrow accounts to `held`. That the fee is charged to the account and taken
off the packet in one step is what the mapping hides.

### App

`App` has the variables of both modules, with `balances` in common, and every step is
a step of one of them that leaves the other's state unchanged. Nothing else is
added: the claim is that neither notices the other, which `ImplementsTokenFactory` and
`ImplementsTariff` state as refinements. `AppAssumption` is that the account of the
token factory is neither the fee collector nor distribution's, and that the minting
denom is not a voucher.

### GlobalFee

The functions of `fee_utils.go` are operators of the same names on sequences of
coins; denominations are numbered in alphabetical order. `Find` returns a position
instead of a coin, and is a recursive function of the bounds of the slice it
searches. `Sort` puts a coin at its `Place`, one more than the number of smaller ones,
which is a sort because a fee names a denomination once. A price counts 1/`PriceUnit`; price times gas
is exact in `sdk.Dec`, and `Cost` rounds it up. `Accepts` puts the SDK's
`MempoolFeeDecorator` (external) before `FeeDecorator`, as the ante chain does.
Both act only when a transaction is checked, so `Block` may include anything;
after it every node checks again what it keeps, under the new parameters. Node
prices are positive and sorted, as the parser of the node's configuration leaves
them, and gas is positive, since a transaction without gas fails before.
Simulation, whose result changes nothing, is left out.

### Wire, Encoding, Messages

All `.pb.go` files have the same loops. An iteration of a loop is an action of
`Wire`: `Group` reads one byte of a varint, `KnownTag` and `UnknownTag` are the two ways out
of the switch, `ReadBytes`, `ReadBool` and `EnterMessage` the kinds of fields,
`SkipOne` and `SkipValue` an iteration of the function that skips. Each error
return is a disjunct of `Fail`. A message inside a message is a call, so the state has a
stack of frames on one input. Integers have their width: `uint64` is modulo `2*Half`,
a conversion to `int` wraps at `Half`, and the code's tests for negative lengths
and sums are tests of that. `Schemas` has one definition per message type for the decoder,
`Encoders` two, for the encoder and for the size (76 types, and 4 of the SDK that they embed); the three tables were read from the
three methods separately, because the generated code repeats in each what the
others must agree with. A message embeds messages at most two levels deep
(`NestingAssumption`), so `MarshalToSizedBuffer` and `Size` are three levels of one
operator, `Marshal` and `SizeOf`, each given the level below. `Messages` continues with the decoded message: the
checks of its `ValidateBasic` in their order, then `GetSigners`.

## 3. What TLC checks

| run | states | question | bounds |
|---|---|---|---|
| `roles_handover` | 30 192 | roles under all updates, acceptances and restarts | 3 accounts and the module's, 2 spellings each |
| `roles_separation` | violation | do owner and operational roles stay apart? | 4 accounts, canonical spellings |
| `roles_respelled` | violation | do operational roles stay apart by account? | 3 accounts, 2 spellings |
| `token_issuance` | 84 480 | books of allowance, balance and supply | 2 users, one with 2 spellings, 2 denoms, `MaxInt` = 3 |
| `token_authority` | 207 296 | controllers, orphans and restarts with an owner acting | 2 users, `MaxInt` = 1, at most one minter and one controller at a time (`Bounded`) |
| `transfer_while_paused` | violation | does a pause stop transfers? | as `token_issuance` |
| `tariff_transfer` | 79 632 | fees, escrow and refunds across parameter changes; the ideal escrow | 2 users, 2 channels, 3 native coins and 1 voucher, 2 packets under way |
| `tariff_allocation` | 24 750 | shares under refusals, rounding and respelling | 8 and 2 coins of 2 denoms, shares in fifths |
| `app_circulation` | 23 380 | one coin through issuance, fees, IBC and allocation | 2 users, 2 channels, `MaxInt` = 2, 2 packets under way |
| `fee_check` | 309 | does the check compute its rule, and do mempools stay paid for? | 24 lists of the prices 0, 1/2, 1 over 3 of 4 denoms, and 3 the validation refuses; fees of up to 3 coins; gas 1 to 3 around a bypass limit of 2; 3 nodes with 2 transactions each |
| `fee_bypass` | violation | are bypass transactions free? | as `fee_check` |
| `message_decoding` | 219 026 | every type encoded, joined, cut and wrapped; odd bytes | 15-bit words, varints of 3 groups, every sequence of up to 4 of 12 bytes on 2 types |

Why the bounds are enough to be interesting: three accounts let two roles
collide while a third acts; two spellings are the two bech32 cases. With `MaxInt` = 3
an allowance can be used in two steps, refused and configured again, and the
supply reaches its largest value, where a further mint overflows. `IssuanceGenesis`
has no owner, so that controllers are fixed and the run spends its states on
interleavings of issuance; `AuthorityGenesis` is the opposite. Two channels
make taking the fee from the wrong escrow visible; two packets under way and a
parameter change between them are the shortest way to a refund under another
tariff. Eight coins and shares in fifths give payments that round and payments
that are zero. In `app_circulation` one user is minter and pauser and the other
its controller, which configures and refuses allowances again and again; the accounts of
the token factory and of a channel are among the entities that collected fees go
to, so the payment to one must fail and the one to the other is a donation. A state of
`fee_check` is parameters and mempools, and in each all 760 transactions and
nodes are put to the decorator. The words of `message_decoding` are narrow, but three
groups of seven bits overflow 15 as ten groups overflow 64, so a length can wrap to a
negative number; four bytes are a tag and a length of three groups, or
a group within a group. `ParamSets` of both runs contain values that the validation rejects.
Both token factory runs start from genesis files as well chosen as needed; the
proofs have no such limits.

Properties that are not obvious:

* `OfferIsByCurrentOwner`: an open offer was made by the owner in office. It
  fails if `AcceptOwner` leaves the entry in the store.
* `OperationalRolesApart`: no two of the three operational roles are one account
  *in its canonical spelling*. Without the condition it is false (finding 2).
* `OwnerMergesOnlyByAcceptance`: the only step that can join the owner with an
  operational role is `AcceptOwner`; that it can is finding 1.
* `AllowanceIsGrantLessMinted`, `ModuleAccountIsEmpty`: the books.
* `MintIsCharged`, `BurnTakesOwnCoins`: any step that changes the supply, whatever
  action it is, is authorised, charged in the right place, and not by a blacklisted
  account under any spelling, nor while paused.
* `OrphanAllowanceOnlyShrinks`: after its controller is removed a minter keeps
  its allowance; nobody raises it and nobody can revoke it.
* `RestartLosesOnlyTheOffer`: an export followed by an import.
* `EscrowBacksTransfers`: escrow holds at least what the packets under way carry
  and what exists behind the channel. Anyone may send coins to an escrow account,
  hence "at least".
* `ImplementsIdealEscrow`: an account never loses more than what it no longer owes.
* `CoinsCanLeave`: in every state, under every accepted tariff, whoever has coins can
  send them: every check of the transfer, of the tariff's `SendPacket` and of the bank passes. The exception it states is real: when the fee denom is the path of a
  voucher, `SendPacket` asks the bank for coins it knows by another name, and
  a transfer whose fee is not zero fails.
* `FeeIsTheTariff`: the fee is the largest amount within the rate and the maximum,
  and the sender pays packet and fee together.
* `EmptyPacketOnlyAtFullRate`: a packet that carries nothing, which the
  counterparty refuses, is sent only under a rate of 100%.
* `AllocationIsTheShare`: shares are of what was collected at the start of the
  block, a failed payment costs the other entities nothing, and an account
  listed under several spellings gets the sum of its entries.
* `FeeCheckIsTheRule`: what two decorators, four list operators and a search accept
  is what a rule on sets with cross-multiplied prices allows. Three prices are
  the shortest list in which `Find` enters its upper half past a middle.
* `CheaperIsAccepted`: paying more or asking for less gas never turns an accepted
  transaction away, although it may move it to the other branch of the decorator.
* `NodeOnlyRaises`: no node configuration undercuts the network's minimum.
* `MempoolIsPaidFor`: the check of a transaction is not out of date when the next
  block is built.
* `CursorInBounds`: no length an input contains leads a decoder out of its slice; calls
  are nested in slices; the function that skips never goes back.
* `DecodesWhatWasSent`: for every type, with unknown fields before and after,
  and for two encodings joined, which merges them.
* `BufferIsFilled`: `Size` is the length `MarshalToSizedBuffer` writes, for
  every message that was decoded from anything.
* `NothingPanics`: an absent amount is noticed before a method of it is called.
* `OnlyOwnersSpend`: a user's account loses coins of a denom only by a fee, a payment, a
  transfer or a burn of exactly that amount, which the user signed under some spelling.
  No other message, block, packet, answer or restart takes anything from a user.
* `SupplyIsHeld`, `CirculationIsIssued`: the issued coin, wherever it is, adds
  up to its supply, and what other chains hold is part of it.
* `ImplementsTokenFactory`, `ImplementsTariff`: see `App` above.
* `EveryStepAdvances`: every iteration of every loop makes a tuple of five numbers
  smaller, none of which is negative: the input behind the current field, the calls to return to,
  the loops left for the field, the bytes left, a varint not yet used. It is not obvious because the
  index goes back when a field is skipped, lengths may be zero and sums may wrap.
* `EveryInputIsDecided` is the one liveness property: no input keeps a node in the loops of
  the generated code. Its fairness is that of `MessagesSpec`, weak fairness of the
  next step: a call that has begun runs until it returns.

Nothing else needs fairness, because nothing else in these modules waits: no
message has to be sent and no packet has to be delivered. Deadlock is checked
in every run that is expected to pass but `message_decoding`, where a call ends.

### Findings

1. `RolesSeparated` (code): the pending owner may be given an operational role before
   it accepts; the genesis exported from that state is one `Validate` rejects.
2. `OperationalAccountsDiffer` (code): a role stored in upper case is not
   recognised as the same account by `ValidatePrivileges`.
3. `NoTransferWhilePaused` (document): the access-control table in the readme
   does not allow transfers of the token factory's asset while paused; the ante
   handlers check the other token factory only.
4. `BypassPaysNothing` (document): `minimum-gas-prices` does apply to bypass
   transactions, because the SDK's fee check is still in the ante chain. For the same
   reason a price a node asks for in a denomination outside the global list is not
   ignored, as `docs/modules/globalfee.md` says it is: such a node accepts
   no transaction that pays in that denomination alone, nor one that does not pay in
   one of its own.

## 4. What is proved

Every invariant and every action property of section 3 that a run passes is a
theorem; so are the three refinements. They hold for
every set of accounts and spellings, any denominations and channels, any genesis
files, any largest integer, any parameters and proposals, any transactions, any
input and any width of the integers (`NothingPanics`, `BufferIsFilled` and
`DecodesWhatWasSent` for the message types of the chain, which they are about). The assumptions are those of the modules:

* `AddressAssumption`: printing an account gives a spelling of it.
* `RolesGenesisAssumption`, `TokenGenesisAssumption`: the types of a genesis file.
* `TokenAssumption`: the module account is blocked; `None` is neither a coin nor a
  denom.
* `BankAssumption`: balances are natural numbers; there are finitely many accounts,
  since an address has at most 255 bytes, so that a supply is a sum.
* `TariffAssumption`: escrow accounts are nobody's, not blocked and different from
  each other, and begin empty; decimals have a positive unit.
* `AppAssumption`: see `App` above.
* `FeeAssumption`: a node's prices are sorted and positive, as the configuration is
  parsed; a fee names a denomination once and gas is positive, which the SDK sees to
  before the decorators run.
* `WireAssumption`: an input is shorter than the largest `int`; embedded types
  exist.
* `MessagesAssumption`: no bytes are no address.
* `EncodingAssumption`, `DigitsAssumption`: the tables have a row for each field, and a
  number is written in bytes.
* `NestingAssumption`: what is embedded in an embedded message embeds nothing. It holds of
  the types of the chain (`QueryParamsResponse`, `Params`, `DecCoin` of x/globalfee are
  as deep as they go), and TLC checks it of them.

### Numbers and sums

`Numbers_proofs` has a least counterexample for every false statement about numbers
(`Least`): what a recursive function does along a list is proved by looking at the
first place where it would fail, since the induction theorems of the library cannot
be used. For the same reason it has its own lemma that recursive functions exist
(`Recursion`): one whose value at a number is made from the value at a smaller one. It
also has what the fee, the shares and rounded prices need of `\div` and
`*` (`QuotientBounds`, `QuotientUnique`, `TimesMonotone`), and what a sum over a finite
set does when one summand changes (`SumChange`), which is how the sums over accounts,
packets, entities and bytes below are followed. `Bank_proofs` says what `AddCoins`,
`SubCoins` and `SendCoins` do to each balance.

### Roles

`RolesTypeCorrect` and `OfferCorrect` are inductive as they stand.
`OperationalRolesCorrect` needs only the type invariant: a new holder is checked
against the stored strings, and two canonical spellings of one account are one
string (`ValidatedIsApart`). `OwnerMergesCorrect` is the same argument for the
owner, with `AcceptOwner` as the exception.

### Token factory

All theorems are about `TokenOpenSpec`, a chain whose other parts move coins as they
like; `FactoryIsOpen` is the special case without others. The inductive invariant
`TokenInv` is `TokenTypeOK`, `AllowanceIsGrantLessMinted` and `ModuleAccountIsEmpty`
together. `minted` stays within `MaxInt` only because of the second conjunct, so the
type invariant alone is not inductive. `MintedBalances` and `BurntBalances` say what
is left of the two bank calls of a message once they are composed (one balance
changes), `MintEffect`, `BurnEffect` and `SendTokenEffect` give the whole effect of
an action, and `TokenInvStep` has one case per action. `MintCorrect`, `BurnCorrect`,
`OrphanCorrect` and `RestartCorrect` are action properties derived from it;
`SupplySteps` says that only `Mint` and `Burn` change the supply. `RolesRefined`
shows that the module implements `RolesSpec`, so `RolesCorrect` carries the
invariants of the roles over.

### Tariff

The inductive invariant `TariffInv` is `TariffTypeOK` and `EscrowCovers`. Every step
is put in one of two forms, `StepEffect`: nothing is owed anew and no escrow account
loses (`Donated`), or the debt of one account in one denom changes, and no account
loses more than that (`Settled`). The invariant (`EffectCovers`) and the refinement
(`EffectRefines`, `EscrowIsIdeal`) both follow from this form. Under it lies
`FeeInAmount`: a fee is never more than the amount, the reason why the validation
bounds the rate.

`EscrowBacksTransfersCorrect` adds `Balanced`: what an account owes is the vouchers
outside and the sum of the packets under way. A packet sent, delivered or refunded
changes one summand of that sum (`UnderWayChange`). `EscrowPaysEverybody` draws the
conclusion for the people waiting: in every reachable state each refund and each
redemption can be paid. `CoinsCanLeaveCorrect` draws it for the people who send: what a
transfer has to pay on its way, `Outgoing`, covers the fee and the packet.
`CoinsCanLeave` speaks of the condition `MayTransfer` instead of ENABLED, and
`TransferGuard` says that the action `Transfer` is that condition and assignments.

`FeeCorrect` is that the quotient `TransferFee` computes is the largest number
within the rate (`FeeIsLargest`), carried through the bank calls of `Transfer`;
`EmptyPacketCorrect` follows from it. `AllocationCorrect` follows the loop of
`AllocateTokens` along a list of any length: after the first k entities each account
has been paid the sum of its truncated shares among them, and the collector still
covers the rest because truncated shares of a valid list add up to no more than the
whole (`Allocated`, `AllAllocated`, by a least counterexample). That the shares are
of what was collected at first, and that a refused payment costs nobody else, is
part of what is carried along.

### The application

`AppInv` is `TokenInv` and `TariffTypeOK`. A step of the tariff is a
`TokenElsewhere` step, because nothing it does touches the account of the token
factory: its payments go to unblocked accounts, to the collector or to distribution.
A step of the token factory is a `TariffElsewhere` step, because only signers and
the module account lose coins in it. So `AppSpec` implements `TokenOpenSpec` and
`TariffOpenSpec` (`AppIsATokenFactory`, `AppHasTheTariff`), and every theorem about
these holds of the application (`AppIssuance`, `AppEscrow`).

`OnlyOwnersSpendCorrect` goes through the actions of both modules and asks of each whose
balance it lowers. It needs the types and that users are apart from the accounts that
lose coins on their own: escrow accounts, the collector, the account of the token
factory.

`SupplyIsHeldCorrect` needs a fact neither module has: the minting denom is no
voucher, so no refund or redemption mints it (`SupplyInv`); then a mint adds to the
sum of the balances what it adds to the supply, and every other step of either
module moves coins between accounts. `CirculationCorrect` adds what each escrow
account owes: escrow accounts are different from each other, so the sum of the debts
is at most the sum of all balances.

### Global fee

The fee functions are first shown to compute what they are named for, for lists of
any length. Places are different and every place is taken, by counting, so `Sort` is
an ascending list of the same coins (`SortCorrect`). `Find` finds the coin of a
denomination in an ascending list if there is one (`FindCorrect`): in the shortest
slice where it failed, the half it turns to would be shorter and fail as well.
`CostCorrect` and `ChargeCorrect` replace a rounded-up price by a cross-multiplied
inequality. With these `CombinedCorrect`, `SubsetCorrect` and `AnyGTECorrect` say
what the list operators are on sets, `DecoratorCorrect` and `MempoolFeeCorrect` what
the two decorators are, and `AcceptsIsRule` joins them. `FeeCheckCorrect`,
`CheaperCorrect` and `NodeRaisesCorrect` follow from the rule wherever the
parameters are valid. `FeeInv`, the inductive invariant, is `TypeOK` and
`MempoolIsPaidFor`.

### Decoding and checking messages

`CursorInv` adds to `CursorInBounds` that the slices of the calls are nested and
that the input is shorter than the largest `int`. The central step (`PostInSlice`)
is that an index that passed the two tests of the code did not wrap around.
`CursorCorrect` is about `Spec` and about `MessagesSpec`, whose further steps leave
the cursor alone.

`AdvanceCorrect` needs `AdvanceInv`: a varint that has been read leaves the index
behind the beginning of its field, and nothing that is skipped is longer than an
`int`. Each action then decreases the variant at the place that `Advanced` names for
it. Since the variant is a tuple of natural numbers, no behaviour takes infinitely
many such steps; with the weak fairness of `MessagesSpec` this is why
`EveryInputIsDecided` holds.

`PanicsCorrect` is a statement about tables. In the checks of each of the 15
messages every method of an amount comes after the test that there is one (`Sound`),
and every amount among the fields of the type is tested (`Covers`). By
`OutcomeCorrect` a sound list of checks never panics, whatever is in the message,
and `ChecksInv` keeps what it decided until `GetSigners` is done.

### Encoding

`BufferCorrect` has two halves, the encoder and the decoder.

The encoder: `MessagesAreFilled` says that for every message of every type `Size` is the
length of what `MarshalToSizedBuffer` writes. The two agree on every field of the
chain's types about when it is written, and a tag is one byte (`FieldsOfTypes`, by the
shapes the types have). A value is as long as it is counted: for a varint this is
`SovCorrect`, that `bits.Len64` rounded up to groups of seven is the number of
iterations of `encodeVarint`, zero included; for an embedded message it is the statement
one level below. What is joined is as long as the sum of its parts (`FlattenLength`).

The decoder: what it has decoded is a message that this can be said of. `TypedInv` says
that every call of `Unmarshal` on the stack fills a message of its type (`IsMessage`), and
that this is the type of the field its caller is at, so that what it returns can be put there. A new
message is one (`EmptyIsMessage`), and stays one when a value of the right kind is
assigned to a field or appended to it (`FieldAssigned`). The kind is right because
`KnownTag` compares the wire type with that of the field, and `Reads` remembers it until
the value has been read.

### The round trip

`DecodesWhatWasSent` speaks of two programs, so it is proved in two halves, with a
grammar between them that mentions neither.

The grammar says what bytes mean. A task (`Task`) is a slice, the message decoded before it
and the message that is to result. A set of tasks explains the bytes (`Explains`) if each of
them is at its end with the result in hand, or begins with a field (`FieldFollows`): a tag and
a value of a field of the type, which leads to the task behind it and, for an embedded
message, to a task inside it; or a field that the type does not have (`SkipsField`), which
leads to the same message behind it. What is skipped is explained in the same way, by
places in groups (`Skips`).

The decoder: `DecoderCorrect` is that no call fails on bytes that are explained, and that the
call from outside makes the result of its task. The inductive invariant `DecodeInv`
keeps a set of tasks and, for each call on the stack, what it is to make: the caller waits
for what the call above it makes (`Waits`), and the last call is at the beginning of a field,
in the middle of one (`Started`) or skipping one (`SkipStarted`). In the middle of a varint it
keeps what is left of the number (`BeingRead`): value, scale and the groups that still
stand at the index give the number (`GroupReads`). The two tests of a length pass because
an explained slice ends inside that of its call, and sums do not wrap there (`SliceRead`,
`SkipOneRead`). This half is for every schema and every depth of embedded messages.

The encoder: `MessagesEncode` is that wherever the bytes that `MarshalToSizedBuffer` writes
stand, they lead from any message of the type to that message with the encoded one merged into
it (`Encodes`, `Merged`); merging into a new message gives the message itself
(`MergedEmpty`). Fields are followed one by one, values of a list one by one (`ListReceived`),
embedded messages one level below. `RoundTripCorrect` puts the halves together: bytes
made of pieces (`Joins`), each an encoding or an unknown field (`IsUnknownField`), are decoded
to what the pieces make. `EncodingJoins` and `UnknownNumber` say that there are such pieces.

Its assumptions, beside those of the modules: a tag fits a byte and a varint fits the loop
that reads it (`WordsFit`, true of 64-bit words and ten groups); a number that is
written and read again is the same number (`NumbersRead`); no bytes are the digits of a
number. A message can be sent (`CanSend`) if its integers fit a word and its
amounts are not nil: a nil amount is written as the digits of zero, so it is decoded as zero
and not as what was sent.

### Only model-checked

`EveryInputIsDecided` is liveness. What is left of it beside `EveryStepAdvances` is
that some disjunct of `Decode` is always enabled.

## 5. Not modelled

* Packet forwarding, which calls the same `SendPacket` from above: the second hop is
  charged on an amount the first hop fixed. What a refund of the second hop gives back to the
  first is decided in code that is not in this repository.
* The other token factory, CCTP, forwarding and param authority: their code is not here.
* Fee grants, vesting and staking beyond the fee collector.
* Queries and the gateway: they read one store entry, or a page of them by the SDK's
  pagination, and change nothing. Their messages are part of `Schemas` and `Encoders`.
* The command line, the node binary, descriptors, getters and gRPC stubs, simulation stubs.
* Events, gas metering, the formatting of errors.
* The export at height zero beyond the two modules: it resets staking and distribution.

## 6. What is left

1. The fee that `GlobalFee` accepts as the fee that `PayFee` deducts in `App`: today any
   user may pay any fee.
2. That a step of the decoder is always possible until the call ends, as an invariant on
   the guards, which would leave only fairness to `EveryInputIsDecided`.
3. Packet forwarding, when its refund path can be read.
