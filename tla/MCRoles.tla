------------------------------ MODULE MCRoles ------------------------------
(* Model checking of Roles from a genesis with several roles set, one with *)
(* the owner alone, and one that GenesisState.Validate rejects: a2 in two  *)
(* of its roles.                                                           *)
EXTENDS Roles, MCAddresses

CONSTANTS a1, a2, a3, a4

MCGenesis ==
  { [owner |-> lower(a1), masterMinter |-> lower(a2),
     pauser |-> lower(a3), blacklister |-> None],
    [owner |-> lower(a1), masterMinter |-> None, pauser |-> None, blacklister |-> None],
    [owner |-> lower(a1), masterMinter |-> lower(a2), pauser |-> lower(a2), blacklister |-> None] }
=============================================================================
