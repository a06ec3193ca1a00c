----------------------------- MODULE IdealEscrow -----------------------------
(***************************************************************************)
(* What the users of a channel are promised: an escrow account per channel *)
(* that is charged and discharged like a till.  What is locked is owed,    *)
(* what is released is owed no longer, anyone may add to any account, and  *)
(* no account ever loses more than what it no longer owes.                 *)
(***************************************************************************)
EXTENDS Integers

CONSTANTS Channel, Denom

VARIABLES
  held,   \* held[ch][d]: what the account of ch holds
  owed    \* owed[ch][d]: what may be asked of it

Amounts == [Channel -> [Denom -> Int]]

Init == /\ held = [ch \in Channel |-> [d \in Denom |-> 0]]
        /\ owed = [ch \in Channel |-> [d \in Denom |-> 0]]

(* How much more is owed after a step.                                     *)
Change(ch, d) == owed'[ch][d] - owed[ch][d]

NothingTaken ==
  /\ held' \in Amounts
  /\ \A ch \in Channel, d \in Denom : held'[ch][d] >= held[ch][d] + Change(ch, d)

Owe(ch, d) == owed' = [owed EXCEPT ![ch][d] = @ + Change(ch, d)]

Lock(ch, d) == Owe(ch, d) /\ Change(ch, d) >= 0 /\ NothingTaken

Release(ch, d) ==
  /\ Owe(ch, d)
  /\ Change(ch, d) <= 0 /\ -Change(ch, d) <= held[ch][d]
  /\ NothingTaken

Donate == UNCHANGED owed /\ NothingTaken

Next ==
  \/ \E ch \in Channel, d \in Denom : Lock(ch, d) \/ Release(ch, d)
  \/ Donate

Spec == Init /\ [][Next]_<<held, owed>>
=============================================================================
