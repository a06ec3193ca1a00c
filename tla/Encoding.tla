------------------------------ MODULE Encoding ------------------------------
(***************************************************************************)
(* The generated encoder: Size, which Marshal allocates a buffer by, and   *)
(* MarshalToSizedBuffer, which fills the buffer from its end.  A message is *)
(* the sequence of the values of its fields, as in Wire.                   *)
(***************************************************************************)
EXTENDS Wire, SequencesExt

CONSTANTS
  Digits,  \* Digits[n]: the bytes that number n is written as
  Writes,  \* Writes[t]: how each field of t is written
  Counts   \* Counts[t]: how each field of t is counted

ASSUME EncodingAssumption ==
  \A t \in DOMAIN Schema : /\ Len(Writes[t]) = Len(Schema[t])
                           /\ Len(Counts[t]) = Len(Schema[t])

(* A number is written in bytes.                                           *)
ASSUME DigitsAssumption == \A n \in {0} \cup Range(Decimal) : Digits[n] \in Seq(Nat)

(* The types of the messages that a message of type t embeds.              *)
EmbeddedTypes(t) ==
  {Schema[t][f].of : f \in {g \in DOMAIN Schema[t] : Schema[t][g].kind = "message"}}

(* What is embedded in an embedded message embeds nothing.                 *)
ASSUME NestingAssumption ==
  \A t \in DOMAIN Schema : \A u \in EmbeddedTypes(t) :
    \A v \in EmbeddedTypes(u) : EmbeddedTypes(v) = {}

(* The number of bits of n.                                                *)
Len64[n \in Nat] == IF n = 0 THEN 0 ELSE 1 + Len64[n \div 2]

(* Mutant of sov: zero has no bits, hence no bytes.                        *)
SovOfZeroIsZero(n) == (Len64[n] + 6) \div 7

(* The bytes of a varint: n | 1 has a bit even if n has none.              *)
sov(n) == (Len64[n + 1 - (n % 2)] + 6) \div 7

encodeVarint[n \in Nat] ==
  IF n < High THEN <<n>> ELSE <<High + (n % High)>> \o encodeVarint[n \div High]

(* The values of a field that the code behind a condition is run for.     *)
Chosen(when, field, value) ==
  CASE when = "each" -> value
    [] when = "always" -> <<value>>
    [] when = "set" -> IF value = ZeroOf(field) THEN <<>> ELSE <<value>>

DigitsOf(v) == Digits[IF v = Nil THEN 0 ELSE v]

(* The values that the fields of m are written for, or counted for.        *)
Values(table, t, m) ==
  [f \in DOMAIN Schema[t] |-> Chosen(table[t][f].when, Schema[t][f], m[f])]

-----------------------------------------------------------------------------
(* The bytes of a value, given the encoder of the messages it may embed.   *)
Bytes(Inner(_, _), field, v) ==
  CASE field.kind = "bool" -> <<1>>
    [] field.kind = "uint" -> encodeVarint[v]
    [] field.kind = "bytes" -> v
    [] field.kind = "number" -> DigitsOf(v)
    [] field.kind = "message" -> Inner(field.of, v)

Prefixed(field, bytes) ==
  IF Wanted(field.kind) = 0 THEN bytes ELSE encodeVarint[Len(bytes)] \o bytes

(* What is written of a field: its tag and bytes for each of the values.   *)
Written(t, f, values) ==
  FlattenSeq([i \in DOMAIN values |->
                <<Writes[t][f].tag>> \o Prefixed(Schema[t][f], values[i])])

Marshal(Inner(_, _), t, m) ==
  LET w == Values(Writes, t, m) IN
  FlattenSeq([f \in DOMAIN Schema[t] |->
    Written(t, f, [i \in DOMAIN w[f] |-> Bytes(Inner, Schema[t][f], w[f][i])])])

MarshalNothing(t, m) == <<>>
MarshalFlat(t, m) == Marshal(MarshalNothing, t, m)
MarshalNested(t, m) == Marshal(MarshalFlat, t, m)
MarshalToSizedBuffer(t, m) == Marshal(MarshalNested, t, m)

(* How many bytes there are, counted in the same way.                      *)
Count(Inner(_, _), field, v) ==
  CASE field.kind = "bool" -> 1
    [] field.kind = "uint" -> sov(v)
    [] field.kind = "bytes" -> Len(v)
    [] field.kind = "number" -> Len(DigitsOf(v))
    [] field.kind = "message" -> Inner(field.of, v)

WithPrefix(field, l) == IF Wanted(field.kind) = 0 THEN l ELSE l + sov(l)

Counted(t, f, counts) ==
  SumFunction([i \in DOMAIN counts |->
                 Counts[t][f].tag + WithPrefix(Schema[t][f], counts[i])])

SizeOf(Inner(_, _), t, m) ==
  LET w == Values(Counts, t, m) IN
  SumFunction([f \in DOMAIN Schema[t] |->
    Counted(t, f, [i \in DOMAIN w[f] |-> Count(Inner, Schema[t][f], w[f][i])])])

SizeNothing(t, m) == 0
SizeFlat(t, m) == SizeOf(SizeNothing, t, m)
SizeNested(t, m) == SizeOf(SizeFlat, t, m)
Size(t, m) == SizeOf(SizeNested, t, m)

-----------------------------------------------------------------------------
(* Marshal allocates exactly what MarshalToSizedBuffer fills: with less it *)
(* writes out of range, with more it returns the wrong end of the buffer.  *)
BufferIsFilled ==
  phase = "decoded" => Size(Type, Message) = Len(MarshalToSizedBuffer(Type, Message))
=============================================================================
