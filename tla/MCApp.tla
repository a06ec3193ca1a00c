-------------------------------- MODULE MCApp --------------------------------
(***************************************************************************)
(* Model checking of App with one coin, which the token factory issues.    *)
(* u1 is a minter and pauses, u2 controls it; the account of the token     *)
(* factory and an escrow account are among the entities that fees go to.   *)
(***************************************************************************)
EXTENDS App

CONSTANTS u1, u2, tf, fc, dist, esc1, esc2, ch1, ch2, usdx

MCAcc == {u1, u2, tf, fc, dist, esc1, esc2}
MCBlocked == {tf, fc, dist}
MCAddr == MCAcc \X {"lower"}
MCAccOf == [s \in MCAddr |-> s[1]]
MCString == [acc \in MCAcc |-> <<acc, "lower">>]
MCEscrow == [ch \in Channel |-> IF ch = ch1 THEN esc1 ELSE esc2]
MCPath == [d \in Denom |-> d]
MCHome == [d \in Denom |-> None]
MCWealth == [acc \in MCAcc |-> [d \in Denom |-> 0]]

lower(acc) == <<acc, "lower">>

(* Nobody is owner or master minter, so that roles and controllers stay.   *)
MCGenesis ==
  { [owner |-> None, masterMinter |-> None, pauser |-> lower(u1), blacklister |-> None,
     paused |-> "running", mintingDenom |-> usdx,
     minters |-> [a \in Addr |-> IF a = lower(u1) THEN [denom |-> usdx, amount |-> MaxInt]
                                 ELSE None],
     controllers |-> [a \in Addr |-> IF a = lower(u2) THEN lower(u1) ELSE None],
     blacklisted |-> {}] }

Pay(acc, share) == [address |-> lower(acc), share |-> share]

MCParamSets ==
  { [share |-> 2, entities |-> <<Pay(tf, 1), Pay(esc1, 1)>>, bps |-> 1, max |-> 1, denom |-> usdx],
    [share |-> 2, entities |-> <<Pay(u1, 2)>>, bps |-> 2, max |-> 2, denom |-> usdx] }
=============================================================================
