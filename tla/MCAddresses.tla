---------------------------- MODULE MCAddresses ----------------------------
(***************************************************************************)
(* Values for the constants of Addresses: a spelling is an account and the *)
(* way its address is written.  "lower" is what String() prints, "upper"   *)
(* is the other bech32 case, "foreign" another chain's prefix.             *)
(***************************************************************************)
CONSTANTS Users, Cases, tf    \* tf: the account of the tokenfactory module

MCAcc == Users \cup {tf}
MCAddr == MCAcc \X Cases
MCSpelling == MCAcc \X (Cases \cup {"foreign"})
MCAccOf == [s \in MCSpelling |-> s[1]]
MCString == [acc \in MCAcc |-> <<acc, "lower">>]
MCBlocked == {tf}

lower(acc) == <<acc, "lower">>
upper(acc) == <<acc, "upper">>
=============================================================================
