------------------------------ MODULE Messages ------------------------------
(***************************************************************************)
(* What happens to the bytes of a message before a handler sees it: they   *)
(* are decoded, ValidateBasic checks the message without looking at any    *)
(* state, and GetSigners says who must have signed.  Types that are not    *)
(* messages of a transaction stop when they are decoded.                   *)
(***************************************************************************)
EXTENDS Wire, FiniteSetsExt

CONSTANT Bech32   \* the strings that are addresses of the chain

ASSUME MessagesAssumption == <<>> \notin Bech32

-----------------------------------------------------------------------------
(* The checks of every ValidateBasic, in their order, on numbered fields.  *)
Check(what, f) == [what |-> what, field |-> f]
IsAddress(f) == Check("is an address", f)
NotEmpty(f) == Check("is not empty", f)
NotNil(f) == Check("is not nil", f)
NotNegative(f) == Check("is not negative", f)
NotZero(f) == Check("is not zero", f)

ValidateMsgUpdateMasterMinter == <<IsAddress(1), IsAddress(2)>>
ValidateMsgUpdatePauser == <<IsAddress(1), IsAddress(2)>>
ValidateMsgUpdateBlacklister == <<IsAddress(1), IsAddress(2)>>
ValidateMsgUpdateOwner == <<IsAddress(1), IsAddress(2)>>
ValidateMsgAcceptOwner == <<IsAddress(1)>>
ValidateMsgConfigureMinter ==
  <<IsAddress(1), IsAddress(2), NotNil(3), NotNegative(3)>>
ValidateMsgRemoveMinter == <<IsAddress(1), IsAddress(2)>>

(* Mutant of ValidateMsgMint: nothing looks for an amount that is absent.  *)
ValidateMsgMintTrusting ==
  <<IsAddress(1), IsAddress(2), NotNegative(3), NotZero(3)>>

ValidateMsgMint ==
  <<IsAddress(1), IsAddress(2), NotNil(3), NotNegative(3), NotZero(3)>>
ValidateMsgBurn == <<IsAddress(1), NotNil(2), NotNegative(2), NotZero(2)>>
ValidateMsgBlacklist == <<IsAddress(1), NotEmpty(2)>>
ValidateMsgUnblacklist == <<IsAddress(1), NotEmpty(2)>>
ValidateMsgPause == <<IsAddress(1)>>
ValidateMsgUnpause == <<IsAddress(1)>>
ValidateMsgConfigureMinterController ==
  <<IsAddress(1), IsAddress(2), IsAddress(3)>>
ValidateMsgRemoveMinterController == <<IsAddress(1), IsAddress(2)>>

(* The messages of a transaction, as the service descriptor registers them.*)
Checks ==
  [MsgUpdateMasterMinter |-> ValidateMsgUpdateMasterMinter,
   MsgUpdatePauser |-> ValidateMsgUpdatePauser,
   MsgUpdateBlacklister |-> ValidateMsgUpdateBlacklister,
   MsgUpdateOwner |-> ValidateMsgUpdateOwner,
   MsgAcceptOwner |-> ValidateMsgAcceptOwner,
   MsgConfigureMinter |-> ValidateMsgConfigureMinter,
   MsgRemoveMinter |-> ValidateMsgRemoveMinter,
   MsgMint |-> ValidateMsgMint,
   MsgBurn |-> ValidateMsgBurn,
   MsgBlacklist |-> ValidateMsgBlacklist,
   MsgUnblacklist |-> ValidateMsgUnblacklist,
   MsgPause |-> ValidateMsgPause,
   MsgUnpause |-> ValidateMsgUnpause,
   MsgConfigureMinterController |-> ValidateMsgConfigureMinterController,
   MsgRemoveMinterController |-> ValidateMsgRemoveMinterController]

-----------------------------------------------------------------------------
IsMsg == Type \in DOMAIN Checks

AmountOf(f) == Message[f][2]

(* The methods of a coin, except IsNil, dereference its amount.            *)
Panics(c) ==
  /\ c.what \in {"is not negative", "is not zero"}
  /\ AmountOf(c.field) = Nil

Passes(c) ==
  CASE c.what = "is an address" -> Message[c.field] \in Bech32
    [] c.what = "is not empty" -> Message[c.field] # <<>>
    [] c.what = "is not nil" -> AmountOf(c.field) # Nil
    [] c.what = "is not negative" -> AmountOf(c.field) >= 0
    [] c.what = "is not zero" -> AmountOf(c.field) # 0

(* The outcome is that of the first check that does not pass.              *)
Outcome(checks) ==
  LET stops == {i \in DOMAIN checks : Panics(checks[i]) \/ ~Passes(checks[i])} IN
  IF stops = {} THEN "valid"
  ELSE IF Panics(checks[Min(stops)]) THEN "panicked" ELSE "refused"

ValidateBasic ==
  /\ phase = "decoded" /\ IsMsg
  /\ phase' = Outcome(Checks[Type])
  /\ UNCHANGED <<input, sent, stack, at, pre, num, depth>>

(* The sender, in field 1, must have signed.                               *)
GetSigners ==
  /\ phase = "valid"
  /\ phase' = IF Message[1] \in Bech32 THEN "accepted" ELSE "panicked"
  /\ UNCHANGED <<input, sent, stack, at, pre, num, depth>>

Next == Decode \/ ValidateBasic \/ GetSigners

(* A call goes on until it returns.                                        *)
MessagesSpec == Init /\ [][Next]_vars /\ WF_vars(Next)

-----------------------------------------------------------------------------
Decided == phase \in {"failed", "refused", "accepted"} \/ (phase = "decoded" /\ ~IsMsg)

(* Every input is decided: no sequence of bytes keeps a node in one of the  *)
(* loops of Unmarshal or of the function that skips.                       *)
EveryInputIsDecided == <>Decided

(* What was encoded is what is decoded, for every type: also when fields   *)
(* the type does not know stand before, after or inside the ones it knows, *)
(* and when two encodings are joined, which merges them.                   *)
DecodesWhatWasSent ==
  sent # Nil => /\ phase # "failed"
                /\ phase = "decoded" => Message = sent

(* No message makes the checks or the look-up of its signer panic, whatever *)
(* fields it lacks, and a message that is accepted has amounts that the    *)
(* handlers can compare and add.                                           *)
NothingPanics ==
  /\ phase # "panicked"
  /\ phase = "accepted" =>
       \A f \in DOMAIN Schema[Type] :
         Schema[Type][f].of = "Coin" => AmountOf(f) # Nil /\ AmountOf(f) >= 0
=============================================================================
