--------------------------- MODULE MCTokenFactory ---------------------------
(***************************************************************************)
(* Model checking of TokenFactory.  IssuanceGenesis has no owner and no    *)
(* master minter, so roles and controllers stay as they are and the runs   *)
(* explore allowances, balances, pause and blacklist; a2 has two spellings *)
(* and is a minter under both, a3's allowance has the wrong denom.         *)
(* AuthorityGenesis has an owner, so every message is possible.            *)
(***************************************************************************)
EXTENDS TokenFactory, MCAddresses, FiniteSets

CONSTANTS a1, a2, a3, usdx, stake, MaxMinters, MaxControllers

(* One account has a second spelling. *)
MCIssuanceAddr == {lower(a1), lower(a2), upper(a2), lower(tf)}

NoWealth == [acc \in Acc |-> [d \in Denom |-> 0]]

NoMinters == [a \in Addr |-> None]

IssuanceGenesis ==
  { [owner |-> None, masterMinter |-> None, pauser |-> lower(a1), blacklister |-> lower(a2),
     paused |-> "running", mintingDenom |-> usdx,
     minters |-> [a \in Addr |-> CASE a = lower(a1) -> [denom |-> stake, amount |-> 1]
                                   [] a = upper(a2) -> [denom |-> usdx, amount |-> MaxInt]
                                   [] OTHER -> None],
     controllers |-> [a \in Addr |-> CASE a = lower(a1) -> lower(a2)
                                       [] a = lower(a2) -> lower(a1)
                                       [] OTHER -> None],
     blacklisted |-> {}] }

AuthorityGenesis ==
  { [owner |-> lower(a1), masterMinter |-> lower(a2), pauser |-> None, blacklister |-> None,
     paused |-> p, mintingDenom |-> d,
     minters |-> NoMinters, controllers |-> NoMinters, blacklisted |-> {}]
    : p \in {"unset", "paused"}, d \in {None, usdx} }

(* Bounds of the authority run. *)
Bounded ==
  /\ Cardinality({a \in Addr : minters[a] # None}) <= MaxMinters
  /\ Cardinality({a \in Addr : controllers[a] # None}) <= MaxControllers
=============================================================================
