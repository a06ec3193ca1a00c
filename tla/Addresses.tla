----------------------------- MODULE Addresses -----------------------------
(***************************************************************************)
(* Accounts and the strings that spell them.                               *)
(*                                                                         *)
(* The messages of x/tokenfactory carry addresses as bech32 strings.  The  *)
(* code decodes them to account bytes in some places and compares the raw  *)
(* strings in others.  Both bech32 cases decode to the same bytes, and     *)
(* bech32.DecodeAndConvert accepts any human-readable prefix, so one       *)
(* account has several spellings; sdk.AccAddress.String() returns one of   *)
(* them.  Strings and accounts are values of small sets; decoding and      *)
(* printing are the functions AccOf and String.                            *)
(***************************************************************************)
CONSTANTS
  Acc,       \* accounts (address bytes)
  Spelling,  \* strings bech32.DecodeAndConvert accepts
  Addr,      \* strings sdk.AccAddressFromBech32 accepts: the chain's prefix
  AccOf,     \* decoding: the account a spelling stands for
  String,    \* acc.String(): the spelling the chain prints for an account
  User,      \* accounts a key signs for
  Blocked,   \* module accounts: the bank pays nothing to them
  None       \* an entry that is absent from the store

ASSUME AddressAssumption ==
  /\ Addr \subseteq Spelling
  /\ AccOf \in [Spelling -> Acc]
  /\ String \in [Acc -> Addr]
  /\ \A acc \in Acc : AccOf[String[acc]] = acc
  /\ Blocked \subseteq Acc /\ User \subseteq Acc \ Blocked
  /\ None \notin Spelling

(* A string can be the sender of a message when its account has a key.     *)
Signer == {a \in Addr : AccOf[a] \in User}

(* The spelling String() returns, as opposed to any other one of a's account. *)
Canonical(a) == String[AccOf[a]] = a

(* Two store entries that are both set and denote one account.             *)
SameAccount(a, b) == a # None /\ b # None /\ AccOf[a] = AccOf[b]
=============================================================================
