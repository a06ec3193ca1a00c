------------------------------- MODULE Roles -------------------------------
(***************************************************************************)
(* The privileged roles of x/tokenfactory: the owner, the two-step         *)
(* hand-over of ownership, and the three operational roles the owner       *)
(* assigns.  Every action is one message of one transaction: it commits    *)
(* whole or, when a check fails, changes nothing (a disabled action).      *)
(***************************************************************************)
EXTENDS Addresses

CONSTANT Genesis    \* the genesis files a chain may start from

VARIABLES
  owner, pendingOwner, masterMinter, pauser, blacklister,
  proposedBy        \* history: the sender of the UpdateOwner that made the offer

rolesVars == <<owner, pendingOwner, masterMinter, pauser, blacklister, proposedBy>>

Role == Addr \cup {None}

ASSUME RolesGenesisAssumption ==
  \A g \in Genesis : {g.owner, g.masterMinter, g.pauser, g.blacklister} \subseteq Role

(* GenesisState.Validate, the part about roles: no account holds two.      *)
ValidGenesisRoles(g) ==
  /\ ~SameAccount(g.owner, g.masterMinter)
  /\ ~SameAccount(g.owner, g.pauser)
  /\ ~SameAccount(g.owner, g.blacklister)
  /\ ~SameAccount(g.masterMinter, g.pauser)
  /\ ~SameAccount(g.masterMinter, g.blacklister)
  /\ ~SameAccount(g.pauser, g.blacklister)

(* InitGenesis, the part about roles: a genesis file has no pending owner. *)
InitGenesisRoles(g) ==
  /\ owner = g.owner
  /\ masterMinter = g.masterMinter
  /\ pauser = g.pauser
  /\ blacklister = g.blacklister
  /\ pendingOwner = None
  /\ proposedBy = None

RolesInit == \E g \in Genesis : ValidGenesisRoles(g) /\ InitGenesisRoles(g)

-----------------------------------------------------------------------------
(* A role is set and the sender is the address stored for it.              *)
IsOwner(from) == owner = from
IsMasterMinter(from) == masterMinter = from
IsPauser(from) == pauser = from
IsBlacklister(from) == blacklister = from

(* Mutants of ValidatePrivileges: the check forgets one of the roles.      *)
ValidateForgetsPauser(a) ==
  String[AccOf[a]] \notin {owner, blacklister, masterMinter}
ValidateForgetsOwner(a) ==
  String[AccOf[a]] \notin {blacklister, masterMinter, pauser}

(* Keeper.ValidatePrivileges: a is decoded and printed again, and the      *)
(* result compared with the strings in the store.  The pending owner is    *)
(* not one of them.                                                        *)
ValidatePrivileges(a) ==
  String[AccOf[a]] \notin {owner, blacklister, masterMinter, pauser}

(* MsgUpdateOwner offers the ownership; an earlier offer is overwritten.   *)
UpdateOwner(from, a) ==
  /\ IsOwner(from)
  /\ ValidatePrivileges(a)
  /\ pendingOwner' = a
  /\ proposedBy' = from
  /\ UNCHANGED <<owner, masterMinter, pauser, blacklister>>

(* Mutants of AcceptOwner: the offer stays in the store; the decoded       *)
(* account is stored in place of the address.                              *)
AcceptKeepsOffer(from) ==
  /\ pendingOwner = from
  /\ owner' = pendingOwner
  /\ UNCHANGED <<pendingOwner, masterMinter, pauser, blacklister, proposedBy>>
AcceptStoresAccount(from) ==
  /\ pendingOwner = from
  /\ owner' = AccOf[pendingOwner]
  /\ pendingOwner' = None
  /\ proposedBy' = None
  /\ UNCHANGED <<masterMinter, pauser, blacklister>>

(* MsgAcceptOwner: the offeree takes the ownership.  Privileges are not    *)
(* validated again.                                                        *)
AcceptOwner(from) ==
  /\ pendingOwner = from
  /\ owner' = pendingOwner
  /\ pendingOwner' = None
  /\ proposedBy' = None
  /\ UNCHANGED <<masterMinter, pauser, blacklister>>

UpdateMasterMinter(from, a) ==
  /\ IsOwner(from)
  /\ ValidatePrivileges(a)
  /\ masterMinter' = a
  /\ UNCHANGED <<owner, pendingOwner, pauser, blacklister, proposedBy>>

UpdatePauser(from, a) ==
  /\ IsOwner(from)
  /\ ValidatePrivileges(a)
  /\ pauser' = a
  /\ UNCHANGED <<owner, pendingOwner, masterMinter, blacklister, proposedBy>>

UpdateBlacklister(from, a) ==
  /\ IsOwner(from)
  /\ ValidatePrivileges(a)
  /\ blacklister' = a
  /\ UNCHANGED <<owner, pendingOwner, masterMinter, pauser, proposedBy>>

(* ExportGenesis, the part about roles: the pending owner is not written.  *)
ExportRoles ==
  [owner |-> owner, masterMinter |-> masterMinter,
   pauser |-> pauser, blacklister |-> blacklister]

(* The chain is exported to a genesis file and started from it; the start  *)
(* does not validate the file.                                             *)
RestartRoles ==
  LET g == ExportRoles IN
  /\ owner' = g.owner
  /\ masterMinter' = g.masterMinter
  /\ pauser' = g.pauser
  /\ blacklister' = g.blacklister
  /\ pendingOwner' = None
  /\ proposedBy' = None

RolesMsg ==
  \E from \in Signer :
    \/ AcceptOwner(from)
    \/ \E a \in Addr :
         \/ UpdateOwner(from, a)
         \/ UpdateMasterMinter(from, a)
         \/ UpdatePauser(from, a)
         \/ UpdateBlacklister(from, a)

RolesNext == RolesMsg \/ RestartRoles

RolesSpec == RolesInit /\ [][RolesNext]_rolesVars

-----------------------------------------------------------------------------
RolesTypeOK ==
  /\ {owner, pendingOwner, masterMinter, pauser, blacklister} \subseteq Role
  /\ proposedBy \in Role

(* An offer of ownership that is still open was made by the owner of now,  *)
(* so an offer never survives the owner who made it (AcceptOwner deletes   *)
(* the entry, UpdateOwner overwrites it).                                  *)
OfferIsByCurrentOwner == pendingOwner # None => proposedBy = owner

(* Two roles held by one account under the spelling the chain prints.      *)
Apart(a, b) == SameAccount(a, b) => ~Canonical(a) \/ ~Canonical(b)

(* ValidatePrivileges keeps the three operational roles with three         *)
(* accounts, whatever sequence of updates the owners make, unless one of   *)
(* them is stored in a spelling other than the canonical one.              *)
OperationalRolesApart ==
  /\ Apart(masterMinter, pauser)
  /\ Apart(masterMinter, blacklister)
  /\ Apart(pauser, blacklister)

OwnerApart ==
  Apart(owner, masterMinter) /\ Apart(owner, pauser) /\ Apart(owner, blacklister)

(* The owner comes to share an account with an operational role only by    *)
(* accepting an offer, never by one of the role updates: those check the   *)
(* owner's address and AcceptOwner checks nothing.                         *)
OwnerMergesOnlyByAcceptance ==
  [][OwnerApart /\ ~OwnerApart' =>
       /\ pendingOwner # None /\ owner' = pendingOwner /\ pendingOwner' = None
       /\ UNCHANGED <<masterMinter, pauser, blacklister>>]_rolesVars

(* types/genesis.go, validatePrivileges: "the same address is not being    *)
(* assigned to more than one privileged role".  Expected to fail: the      *)
(* pending owner can be given another role between UpdateOwner and         *)
(* AcceptOwner.                                                            *)
RolesSeparated == OperationalRolesApart /\ OwnerApart

(* keeper.go: ValidatePrivileges "checks if a specified address has        *)
(* already been assigned to a privileged role".  Expected to fail when an  *)
(* account has two spellings: an entry stored in the other one is missed.  *)
OperationalAccountsDiffer ==
  /\ ~SameAccount(masterMinter, pauser)
  /\ ~SameAccount(masterMinter, blacklister)
  /\ ~SameAccount(pauser, blacklister)
=============================================================================
