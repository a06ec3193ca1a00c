--------------------------------- MODULE Wire ---------------------------------
(***************************************************************************)
(* The generated decoder of protobuf messages: the Unmarshal method of a   *)
(* message and the function that skips a field the method does not know,   *)
(* one iteration of a loop at a time.  All generated files have the same   *)
(* loops; they differ in the fields, which are the constant Schema.        *)
(*                                                                         *)
(* A byte holds one group of a varint, low groups first, and is High or    *)
(* more when another group follows.  Integers are Go's: uint64 is modulo   *)
(* 2*Half, int wraps at Half, the number of a field wraps at NumHalf.      *)
(* A message is the sequence of the values of its fields.  An Unmarshal    *)
(* that calls the Unmarshal of an embedded message is a stack of frames on *)
(* one input, with the indices of the slices counted from its beginning.   *)
(***************************************************************************)
EXTENDS Integers, Sequences

CONSTANTS
  High,       \* 2^7
  MaxGroups,  \* 10: how many shifts by 7 stay below 64
  Half,       \* 2^63
  NumHalf,    \* 2^31
  Schema,     \* Schema[t]: the fields of message type t, from number 1
  Decimal,    \* Decimal[b]: the number written as the bytes b
  Nil,        \* an absent embedded message, a number without digits
  Input       \* what arrives: [type, bytes, sent], sent Nil or the message

FieldType == [kind : {"bytes", "bool", "uint", "number", "message"},
              many : BOOLEAN, optional : BOOLEAN, of : STRING]

ASSUME WireAssumption ==
  /\ High \in Nat \ {0} /\ MaxGroups \in Nat \ {0}
  /\ Half \in Nat /\ Half > 8 /\ NumHalf \in Nat \ {0}
  /\ \A t \in DOMAIN Schema : Schema[t] \in Seq(FieldType)
  /\ \A t \in DOMAIN Schema : \A f \in DOMAIN Schema[t] :
       Schema[t][f].kind = "message" => Schema[t][f].of \in DOMAIN Schema
  /\ \A m \in Input : /\ m.type \in DOMAIN Schema
                      /\ m.bytes \in Seq(0..2*High-1) /\ Len(m.bytes) < Half

VARIABLES
  input,   \* the bytes that arrived
  sent,    \* history: the message they encode, Nil if they are just bytes
  stack,   \* the calls of Unmarshal: [type, field, from, to, message]
  at,      \* iNdEx
  pre,     \* preIndex, where the field began
  num,     \* the varint being read
  phase,   \* what it is, or how the call ended
  depth    \* of groups, in the function that skips

cursor == <<stack, at, pre, num, phase, depth>>
vars == <<input, sent, cursor>>

Varints == {"tag", "bool", "length", "skipTag", "skipVarint", "skipLength"}

(* A new field that is not an embedded message.                            *)
ZeroOf(field) ==
  IF field.many THEN <<>>
  ELSE CASE field.kind = "bytes" -> <<>>
         [] field.kind = "bool" -> FALSE
         [] field.kind = "uint" -> 0
         [] OTHER -> Nil

(* A new message has its fields at their zero values.                      *)
Empty[t \in DOMAIN Schema] ==
  [f \in DOMAIN Schema[t] |->
     LET field == Schema[t][f] IN
     IF field.kind = "message" /\ ~field.many /\ ~field.optional
     THEN Empty[field.of] ELSE ZeroOf(field)]

Zero == [value |-> 0, scale |-> 1, groups |-> 0, done |-> FALSE]

Call(t, field, from, to, message) ==
  [type |-> t, field |-> field, from |-> from, to |-> to, message |-> message]

Init ==
  /\ \E m \in Input :
       /\ input = m.bytes
       /\ sent = m.sent
       /\ stack = <<Call(m.type, 0, 0, Len(m.bytes), Empty[m.type])>>
  /\ at = 0 /\ pre = 0 /\ num = Zero /\ phase = "tag" /\ depth = 0

-----------------------------------------------------------------------------
Top == stack[Len(stack)]

(* What the call from outside decodes.                                     *)
Type == stack[1].type
Message == stack[1].message

Fields == Schema[Top.type]

(* A conversion to int, which a sum of two ints goes through as well.      *)
Int64(n) ==
  LET u == n % (2 * Half) IN IF u < Half THEN u ELSE u - (2 * Half)

(* An index of the slice of the call, after len more bytes.                *)
Index(i) == i - Top.from
PostIndex(len) == Int64(Index(at) + len)

(* Mutant of InSlice: a length so large that the sum is negative passes.   *)
InSliceUnlessTooLong(post) == post <= Index(Top.to)

InSlice(post) == post >= 0 /\ post <= Index(Top.to)

FieldNumber ==
  LET n == (num.value \div 8) % (2 * NumHalf)
  IN IF n < NumHalf THEN n ELSE n - (2 * NumHalf)
WireType == num.value % 8
Known == FieldNumber \in DOMAIN Fields
Wanted(kind) == IF kind \in {"bool", "uint"} THEN 0 ELSE 2

(* An iteration of a loop that reads a varint.                             *)
Group ==
  /\ ~num.done
  /\ num.groups < MaxGroups
  /\ at < Top.to
  /\ LET b == input[at + 1] IN
     num' = [value |-> (num.value + (b % High) * num.scale) % (2 * Half),
             scale |-> num.scale * High, groups |-> num.groups + 1, done |-> b < High]
  /\ at' = at + 1
  /\ UNCHANGED <<stack, pre, phase, depth>>

(* The next iteration of the outer loop begins at index i.                 *)
NextField(i) == at' = i /\ pre' = i /\ phase' = "tag" /\ num' = Zero

(* The tag of a field the message has: its value is read.                  *)
KnownTag ==
  /\ phase = "tag" /\ num.done
  /\ Known
  /\ WireType = Wanted(Fields[FieldNumber].kind)
  /\ stack' = [stack EXCEPT ![Len(stack)].field = FieldNumber]
  /\ phase' = IF WireType = 0 THEN "bool" ELSE "length"
  /\ num' = Zero
  /\ UNCHANGED <<at, pre, depth>>

(* The tag of another field: the index goes back and the field is skipped. *)
UnknownTag ==
  /\ phase = "tag" /\ num.done
  /\ WireType # 4 /\ FieldNumber > 0 /\ ~Known
  /\ phase' = "skipTag" /\ num' = Zero /\ at' = pre /\ depth' = 0
  /\ UNCHANGED <<stack, pre>>

Field == Fields[Top.field]

Assign(value) ==
  stack' = [stack EXCEPT ![Len(stack)].message[Top.field] =
              IF Field.many THEN Append(@, value) ELSE value]

ReadBool ==
  /\ phase = "bool" /\ num.done
  /\ Assign(IF Field.kind = "uint" THEN num.value ELSE num.value # 0)
  /\ NextField(at)
  /\ UNCHANGED depth

Length == Int64(num.value)
LengthInSlice == Length >= 0 /\ InSlice(PostIndex(Length))
Slice == SubSeq(input, at + 1, Top.from + PostIndex(Length))

ReadBytes ==
  /\ phase = "length" /\ num.done
  /\ LengthInSlice
  /\ \/ Field.kind = "bytes" /\ Assign(Slice)
     \/ Field.kind = "number" /\ Slice \in DOMAIN Decimal /\ Assign(Decimal[Slice])
     \/ Field.kind = "number" /\ Slice = <<>> /\ UNCHANGED stack
  /\ NextField(Top.from + PostIndex(Length))
  /\ UNCHANGED depth

(* Mutant of EmbeddedIn: what the field held before is dropped.            *)
EmbeddedAnew(old) == Empty[Field.of]

(* An embedded message is decoded into what the field holds already; an    *)
(* element of a list, and a pointer that is nil, are new.                  *)
EmbeddedIn(old) == IF Field.many \/ old = Nil THEN Empty[Field.of] ELSE old

EnterMessage ==
  /\ phase = "length" /\ num.done
  /\ LengthInSlice
  /\ Field.kind = "message"
  /\ stack' = Append(stack, Call(Field.of, 0, at, Top.from + PostIndex(Length),
                                 EmbeddedIn(Top.message[Top.field])))
  /\ NextField(at)
  /\ UNCHANGED depth

AtEnd == phase = "tag" /\ num.groups = 0 /\ at >= Top.to

(* The embedded call returns to the one that made it.                      *)
LeaveMessage ==
  /\ AtEnd /\ at = Top.to /\ Len(stack) > 1
  /\ LET caller == SubSeq(stack, 1, Len(stack) - 1)
         f      == caller[Len(caller)].field
         many   == Schema[caller[Len(caller)].type][f].many
     IN stack' = [caller EXCEPT ![Len(caller)].message[f] =
                    IF many THEN Append(@, Top.message) ELSE Top.message]
  /\ NextField(Top.to)
  /\ UNCHANGED depth

Finish ==
  /\ AtEnd /\ at = Top.to /\ Len(stack) = 1
  /\ phase' = "decoded"
  /\ UNCHANGED <<stack, at, pre, num, depth>>

-----------------------------------------------------------------------------
(* The function that skips works on the slice that begins at the field.    *)
SkipTo(len) == Int64(at - pre + len)

(* Mutant of Skipped: the caller does not add what was skipped.            *)
SkippedStays(n, d) ==
  IF d > 0
  THEN at' = pre + n /\ phase' = "skipTag" /\ num' = Zero /\ UNCHANGED pre
  ELSE InSlice(Int64(Index(pre) + n)) /\ NextField(pre)

(* After n bytes of the slice, at depth d, the function goes on or returns; *)
(* its caller checks where that is.                                        *)
Skipped(n, d) ==
  IF d > 0
  THEN at' = pre + n /\ phase' = "skipTag" /\ num' = Zero /\ UNCHANGED pre
  ELSE InSlice(Int64(Index(pre) + n)) /\ NextField(pre + n)

(* What the last varint said to skip, and the depth it leads to.           *)
SkipLen ==
  CASE phase = "skipVarint" -> 0
    [] phase = "skipLength" -> Length
    [] phase = "skipTag" /\ WireType = 1 -> 8
    [] phase = "skipTag" /\ WireType = 5 -> 4
    [] OTHER -> 0
SkipDepth ==
  CASE phase = "skipTag" /\ WireType = 3 -> depth + 1
    [] phase = "skipTag" /\ WireType = 4 -> depth - 1
    [] OTHER -> depth

SkipOne ==
  /\ \/ phase \in {"skipVarint", "skipLength"}
     \/ phase = "skipTag" /\ WireType \in {1, 3, 4, 5}
  /\ num.done
  /\ SkipLen >= 0 /\ SkipDepth >= 0 /\ SkipTo(SkipLen) >= 0
  /\ Skipped(SkipTo(SkipLen), SkipDepth)
  /\ depth' = SkipDepth
  /\ UNCHANGED stack

(* The tag of a field whose length is in another varint.                   *)
SkipValue ==
  /\ phase = "skipTag" /\ num.done
  /\ WireType \in {0, 2}
  /\ phase' = IF WireType = 0 THEN "skipVarint" ELSE "skipLength"
  /\ num' = Zero
  /\ UNCHANGED <<stack, at, pre, depth>>

-----------------------------------------------------------------------------
(* Why an Unmarshal returns an error.                                      *)
BadEnd == AtEnd /\ at > Top.to

BadVarint == ~num.done /\ ~AtEnd /\ (num.groups >= MaxGroups \/ at >= Top.to)

BadField ==
  /\ num.done
  /\ \/ /\ phase = "tag"
        /\ \/ WireType = 4 \/ FieldNumber <= 0
           \/ Known /\ WireType # Wanted(Fields[FieldNumber].kind)
     \/ /\ phase = "length"
        /\ \/ ~LengthInSlice
           \/ /\ LengthInSlice /\ Field.kind = "number"
              /\ Slice # <<>> /\ Slice \notin DOMAIN Decimal

BadSkip ==
  /\ num.done
  /\ phase \in {"skipTag", "skipVarint", "skipLength"}
  /\ \/ phase = "skipTag" /\ WireType \in {6, 7}
     \/ phase = "skipTag" /\ WireType = 4 /\ depth = 0
     \/ SkipLen < 0
     \/ SkipTo(SkipLen) < 0
     \/ /\ phase = "skipTag" => WireType \notin {0, 2}
        /\ SkipDepth = 0
        /\ ~InSlice(Int64(Index(pre) + SkipTo(SkipLen)))

Fail ==
  /\ BadEnd \/ BadVarint \/ BadField \/ BadSkip
  /\ phase' = "failed"
  /\ UNCHANGED <<stack, at, pre, num, depth>>

Decode ==
  /\ phase \in Varints
  /\ \/ Group \/ KnownTag \/ UnknownTag \/ ReadBool \/ ReadBytes
     \/ EnterMessage \/ LeaveMessage \/ Finish \/ SkipOne \/ SkipValue \/ Fail
  /\ UNCHANGED <<input, sent>>

Spec == Init /\ [][Decode]_vars /\ WF_vars(Decode)

-----------------------------------------------------------------------------
Inside(call) == 0 <= call.from /\ call.from <= call.to /\ call.to <= Len(input)

(* Where the next byte is read, or the slice of a value begins.            *)
Reading == \/ phase \in Varints \ {"skipTag"}
           \/ phase = "skipTag" /\ num.done

(* No length that is read leads outside the slice it was read from: every  *)
(* call works within its caller's slice, the index never leaves the slice  *)
(* of its call, the function that skips never goes back, and what is       *)
(* decoded is the whole input.                                             *)
CursorInBounds ==
  /\ \A i \in DOMAIN stack : Inside(stack[i])
  /\ \A i, j \in DOMAIN stack :
       i < j => stack[i].from <= stack[j].from /\ stack[j].to <= stack[i].to
  /\ Top.from <= pre /\ pre <= Top.to /\ pre <= at
  /\ Reading => at <= Top.to
  /\ phase = "decoded" => Len(stack) = 1 /\ at = Top.to

(* How far a call is from its return: the input behind the field, the calls *)
(* to return to, whether the field's tag is known, the bytes left, and     *)
(* whether a varint waits to be used.                                      *)
Variant ==
  <<Len(input) - pre,
    Len(stack),
    IF phase = "tag" THEN 2 ELSE IF phase \in Varints THEN 1 ELSE 0,
    2 * Half - at,
    IF num.done THEN 1 ELSE 0>>

(* The first place where they differ counts.                               *)
Below(v, w) == \E i \in DOMAIN v : v[i] < w[i] /\ \A j \in 1..i-1 : v[j] = w[j]

(* Every iteration of every loop brings the call closer to its return: also *)
(* when the index goes back to skip a field, when a length is zero, and     *)
(* when a sum of lengths has wrapped around.                               *)
EveryStepAdvances ==
  [][Decode => Below(Variant', Variant) /\ \A i \in DOMAIN Variant : Variant'[i] >= 0]_vars
=============================================================================
