------------------------------ MODULE MCTariff ------------------------------
(***************************************************************************)
(* Model checking of Tariff with small decimals.  TransferParams vary what *)
(* an outgoing packet is charged, AllocationParams whom the collected fees *)
(* go to: an account spelled in two ways and a module account among them.  *)
(* Both contain parameters that Params.Validate rejects.                   *)
(***************************************************************************)
EXTENDS Tariff

CONSTANTS u1, u2, fc, dist, esc1, esc2, ch1, ch2, usdc, atom, atomPath

MCEscrow == [ch \in Channel |-> IF ch = ch1 THEN esc1 ELSE esc2]
MCAcc == {u1, u2, fc, dist} \cup {MCEscrow[ch] : ch \in Channel}
MCBlocked == {fc, dist}
MCAddr == MCAcc \X {"lower", "upper"}
MCAccOf == [s \in MCAddr |-> s[1]]
MCString == [acc \in MCAcc |-> <<acc, "lower">>]
MCHome == [d \in Denom |-> IF d = atom /\ ch2 \in Channel THEN ch2 ELSE None]
MCPath == [d \in Denom |-> IF MCHome[d] = None THEN d ELSE atomPath]
Rich(coins) == [acc \in Acc |-> IF acc = u1 THEN coins ELSE [d \in Denom |-> 0]]
OneFeeDenom == Rich([d \in Denom |-> IF d = usdc THEN 3 ELSE 1])
ManyFees == Rich([d \in Denom |-> IF d = usdc THEN 8 ELSE 2])

Pay(acc, spelled, share) == [address |-> <<acc, spelled>>, share |-> share]
Fee(bps, max, denom) ==
  [share |-> 0, entities |-> <<>>, bps |-> bps, max |-> max, denom |-> denom]

TransferParams ==
  {Fee(0, 2, usdc), Fee(1, 2, usdc), Fee(3, 1, usdc), Fee(4, 4, usdc),
   Fee(2, 2, ""), Fee(8, 9, usdc), Fee(4, 1, atomPath), Fee(4, 0, atomPath)}

AllocationParams ==
  { [share |-> s, entities |-> e, bps |-> 0, max |-> 0, denom |-> ""] :
    s \in {0, 4, 5, 6},
    e \in { <<>>,
            <<Pay(u1, "lower", 3), Pay(u2, "lower", 2)>>,
            <<Pay(dist, "lower", 2), Pay(u2, "lower", 2), Pay(u1, "upper", 1)>>,
            <<Pay(u1, "lower", 4), Pay(u1, "upper", 1)>>,
            <<Pay(u1, "upper", 1), Pay(u1, "upper", 4)>>,
            <<Pay(u1, "lower", 1), Pay(u1, "lower", 4)>>,
            <<Pay(u1, "lower", 5), Pay(u2, "lower", 5)>> } }
=============================================================================
