--------------------------- MODULE Messages_proofs ---------------------------
(***************************************************************************)
(* For every schema, every input and every width of the integers: the      *)
(* decoder reads inside the slices it was given.  For the messages of the  *)
(* chain: neither the checks nor the look-up of the signer panic, and the  *)
(* encoder fills the buffer it allocates.                                  *)
(***************************************************************************)
EXTENDS Messages, Encoding, Schemas, Encoders, Numbers_proofs, TLAPS

IsCall(c) == c = Call(c.type, c.field, c.from, c.to, c.message)

(* Calls on slices of an input of length len, each inside its caller's.    *)
Nested(st, len) ==
  /\ \E S : st \in Seq(S)
  /\ Len(st) > 0
  /\ \A i \in 1..Len(st) :
       /\ IsCall(st[i]) /\ st[i].from \in Int /\ st[i].to \in Int
       /\ 0 <= st[i].from /\ st[i].from <= st[i].to /\ st[i].to <= len
  /\ \A i, j \in 1..Len(st) :
       i < j => st[i].from <= st[j].from /\ st[j].to <= st[i].to

(* The inductive invariant: the property, the nesting of the calls as a    *)
(* fact about one sequence, and the types of what the index is made of.    *)
CursorInv ==
  /\ input \in Seq(Nat) /\ Len(input) < Half
  /\ Nested(stack, Len(input))
  /\ at \in Int /\ pre \in Int /\ num.value \in Int /\ num.scale \in Int
  /\ CursorInBounds

-----------------------------------------------------------------------------
(* Conversion to int: a sum of two ints that are not negative is itself or *)
(* has become negative.                                                    *)
LEMMA Int64Range ==
  ASSUME NEW n \in Int
  PROVE  Int64(n) \in Int /\ Int64(n) < Half /\ -Half <= Int64(n)
<1>1. Half \in Nat /\ Half > 8 BY WireAssumption
<1> DEFINE u == n % (2 * Half)
<1>2. u \in 0..(2 * Half) - 1 BY <1>1
<1>3. Int64(n) = IF u < Half THEN u ELSE u - (2 * Half) BY DEF Int64
<1> HIDE DEF u
<1>4. QED BY <1>1, <1>2, <1>3

LEMMA Int64Sum ==
  ASSUME NEW n \in Int, 0 <= n, n < 2 * Half
  PROVE  IF n < Half THEN Int64(n) = n ELSE Int64(n) < 0
<1>1. Half \in Nat /\ Half > 8 BY WireAssumption
<1>2. n % (2 * Half) = n BY <1>1
<1>3. Int64(n) = IF n < Half THEN n ELSE n - (2 * Half) BY <1>2 DEF Int64
<1>4. QED BY <1>1, <1>3

-----------------------------------------------------------------------------
(* Changing a field of the last call, entering a call, leaving one.        *)
LEMMA SameSlice ==
  ASSUME NEW st, NEW len \in Int, Nested(st, len), NEW c, IsCall(c),
         c.from = st[Len(st)].from, c.to = st[Len(st)].to
  PROVE  /\ Nested([st EXCEPT ![Len(st)] = c], len)
         /\ Len([st EXCEPT ![Len(st)] = c]) = Len(st)
         /\ [st EXCEPT ![Len(st)] = c][Len(st)] = c
<1>1. PICK S : st \in Seq(S) BY DEF Nested
<1> DEFINE s == [st EXCEPT ![Len(st)] = c]
<1>2. s \in Seq(S \cup {c}) /\ Len(s) = Len(st) /\ Len(st) \in Nat \ {0} BY <1>1 DEF Nested
<1>3. \A i \in 1..Len(st) : s[i] = IF i = Len(st) THEN c ELSE st[i] BY <1>1, <1>2
<1> HIDE DEF s
<1>4. \A i \in 1..Len(st) : s[i].from = st[i].from /\ s[i].to = st[i].to /\ IsCall(s[i])
  BY <1>3 DEF Nested
<1>5. Nested(s, len) BY <1>2, <1>4 DEF Nested
<1>6. QED BY <1>2, <1>3, <1>5 DEF s

LEMMA Pushed ==
  ASSUME NEW st, NEW len \in Int, Nested(st, len), NEW c, IsCall(c),
         c.from \in Int, c.to \in Int, c.from <= c.to,
         st[Len(st)].from <= c.from, c.to <= st[Len(st)].to
  PROVE  /\ Nested(Append(st, c), len)
         /\ Append(st, c)[Len(Append(st, c))] = c
<1>1. PICK S : st \in Seq(S) BY DEF Nested
<1> DEFINE s == Append(st, c)
<1>2. s \in Seq(S \cup {c}) /\ Len(s) = Len(st) + 1 /\ Len(st) \in Nat \ {0}
  BY <1>1 DEF Nested
<1>3. \A i \in 1..Len(s) : s[i] = IF i = Len(s) THEN c ELSE st[i] BY <1>1, <1>2
<1> HIDE DEF s
<1>4. \A i \in 1..Len(st) : st[i].from <= c.from /\ c.to <= st[i].to
  BY <1>2 DEF Nested
<1>5. Nested(s, len)
  <2>1. \E T : s \in Seq(T) BY <1>2
  <2>2. Len(s) > 0 BY <1>2
  <2>3. 0 <= st[Len(st)].from /\ st[Len(st)].to <= len BY <1>2 DEF Nested
  <2>4. /\ st[Len(st)].from \in Int /\ st[Len(st)].to \in Int BY <1>2 DEF Nested
  <2>5. ASSUME NEW i \in 1..Len(s)
        PROVE  /\ IsCall(s[i]) /\ s[i].from \in Int /\ s[i].to \in Int
               /\ 0 <= s[i].from /\ s[i].from <= s[i].to /\ s[i].to <= len
    <3>1. CASE i = Len(s) BY <3>1, <1>3, <2>3, <2>4
    <3>2. CASE i # Len(s)
      <4>1. i \in 1..Len(st) BY <3>2, <1>2
      <4>2. QED BY <4>1, <3>2, <1>3 DEF Nested
    <3>3. QED BY <3>1, <3>2
  <2>6. ASSUME NEW i \in 1..Len(s), NEW j \in 1..Len(s), i < j
        PROVE  s[i].from <= s[j].from /\ s[j].to <= s[i].to
    <3>1. i \in 1..Len(st) BY <2>6, <1>2
    <3>2. CASE j = Len(s) BY <3>1, <3>2, <2>6, <1>3, <1>4
    <3>3. CASE j # Len(s)
      <4>1. j \in 1..Len(st) BY <3>3, <1>2
      <4>2. QED BY <4>1, <3>1, <3>3, <2>6, <1>2, <1>3 DEF Nested
    <3>4. QED BY <3>2, <3>3
  <2>7. QED BY <2>1, <2>2, <2>5, <2>6 DEF Nested
<1>6. QED BY <1>2, <1>3, <1>5 DEF s

LEMMA Popped ==
  ASSUME NEW st, NEW len \in Int, Nested(st, len), Len(st) > 1
  PROVE  LET s == SubSeq(st, 1, Len(st) - 1) IN
         /\ Nested(s, len)
         /\ s[Len(s)].from <= st[Len(st)].from
         /\ st[Len(st)].to <= s[Len(s)].to
<1>1. PICK S : st \in Seq(S) BY DEF Nested
<1> DEFINE s == SubSeq(st, 1, Len(st) - 1)
<1>2. s \in Seq(S) /\ Len(s) = Len(st) - 1 /\ Len(st) \in Nat BY <1>1
<1>3. \A i \in 1..Len(s) : s[i] = st[i] BY <1>1, <1>2
<1> HIDE DEF s
<1>4. Nested(s, len)
  <2>1. \A i \in 1..Len(s) : i \in 1..Len(st) BY <1>2
  <2>2. \E T : s \in Seq(T) BY <1>2
  <2>3. Len(s) > 0 BY <1>2
  <2>4. QED BY <2>1, <2>2, <2>3, <1>3 DEF Nested
<1>5. Len(s) \in 1..Len(st) /\ Len(st) \in 1..Len(st) /\ Len(s) < Len(st) BY <1>2
<1>6. /\ st[Len(s)].from <= st[Len(st)].from
      /\ st[Len(st)].to <= st[Len(s)].to
  BY <1>5 DEF Nested
<1>7. s[Len(s)] = st[Len(s)]
  <2>1. Len(s) \in 1..Len(s) BY <1>2, <1>5
  <2>2. QED BY <2>1, <1>3
<1>8. QED BY <1>4, <1>6, <1>7 DEF s

-----------------------------------------------------------------------------
(* What the facts of CursorInv say of the last call.                       *)
LEMMA LastCall ==
  ASSUME CursorInv
  PROVE  /\ Len(stack) \in 1..Len(stack) /\ DOMAIN stack = 1..Len(stack)
         /\ IsCall(Top) /\ Top.from \in Int /\ Top.to \in Int
         /\ 0 <= Top.from /\ Top.from <= Top.to /\ Top.to <= Len(input)
         /\ Top.to < Half /\ Half \in Nat /\ Len(input) \in Int
<1>1. PICK S : stack \in Seq(S) BY DEF CursorInv, Nested
<1>2. Len(stack) \in 1..Len(stack) /\ DOMAIN stack = 1..Len(stack)
  BY <1>1 DEF CursorInv, Nested
<1>3. /\ IsCall(Top) /\ Top.from \in Int /\ Top.to \in Int
      /\ 0 <= Top.from /\ Top.from <= Top.to /\ Top.to <= Len(input)
  BY <1>2 DEF CursorInv, Nested, Top
<1>4. Half \in Nat BY WireAssumption
<1>5. QED BY <1>2, <1>3, <1>4 DEF CursorInv

(* The invariant of a step, from where the index of the last call is.      *)
LEMMA CursorStep ==
  ASSUME input' \in Seq(Nat), Len(input') < Half,
         Nested(stack', Len(input')),
         at' \in Int, pre' \in Int, num'.value \in Int, num'.scale \in Int,
         Top'.from <= pre', pre' <= Top'.to, pre' <= at',
         Reading' => at' <= Top'.to,
         phase' = "decoded" => Len(stack') = 1 /\ at' = Top'.to
  PROVE  CursorInv'
<1>1. PICK S : stack' \in Seq(S) BY DEF Nested
<1>2. DOMAIN stack' = 1..Len(stack') BY <1>1
<1>3. \A i \in DOMAIN stack' : Inside(stack[i])' BY <1>2 DEF Nested, Inside
<1>4. \A i, j \in DOMAIN stack' :
        i < j => stack'[i].from <= stack'[j].from /\ stack'[j].to <= stack'[i].to
  BY <1>2 DEF Nested
<1>5. QED BY <1>3, <1>4 DEF CursorInv, CursorInBounds, Top

-----------------------------------------------------------------------------
LEMMA InitInv == Init => CursorInv
<1> SUFFICES ASSUME Init PROVE CursorInv OBVIOUS
<1>1. PICK m \in Input :
        /\ input = m.bytes
        /\ stack = <<Call(m.type, 0, 0, Len(m.bytes), Empty[m.type])>>
  BY DEF Init
<1>2. m.bytes \in Seq(0..2*High-1) /\ Len(m.bytes) < Half /\ High \in Nat
  BY WireAssumption
<1>3. input \in Seq(Nat) /\ Len(input) < Half /\ Len(input) \in Nat BY <1>1, <1>2
<1>4. at = 0 /\ pre = 0 /\ num = Zero /\ phase = "tag" BY DEF Init
<1> DEFINE c == Call(m.type, 0, 0, Len(input), Empty[m.type])
<1>5. stack = <<c>> BY <1>1
<1>6. IsCall(c) /\ c.from = 0 /\ c.to = Len(input) BY DEF IsCall, Call
<1> HIDE DEF c
<1>7. /\ stack \in Seq({c}) /\ Len(stack) = 1 /\ stack[1] = c /\ Top = c
      /\ DOMAIN stack = 1..1
  BY <1>5 DEF Top
<1>8. Nested(stack, Len(input)) BY <1>3, <1>6, <1>7 DEF Nested
<1>9. CursorInBounds BY <1>3, <1>4, <1>6, <1>7 DEF CursorInBounds, Inside
<1>10. QED BY <1>3, <1>4, <1>8, <1>9 DEF CursorInv, Zero

LEMMA GroupInv == CursorInv /\ phase \in Varints /\ Group /\ UNCHANGED input => CursorInv'
<1> SUFFICES ASSUME CursorInv, phase \in Varints, Group, UNCHANGED input
             PROVE  CursorInv'
  OBVIOUS
<1> USE LastCall
<1> DEFINE b == input[at + 1]
           x == num.value + (b % High) * num.scale
<1>1. b \in Nat
  <2>1. at \in Int /\ at < Top.to /\ 0 <= at /\ Top.to <= Len(input)
    BY DEF Group, CursorInv, CursorInBounds
  <2>2. Len(input) \in Nat /\ \A i \in 1..Len(input) : input[i] \in Nat BY DEF CursorInv
  <2>3. at + 1 \in 1..Len(input) BY <2>1, <2>2
  <2>4. QED BY <2>2, <2>3
<1>2. High \in Nat \ {0} BY WireAssumption
<1>3. num.value \in Int /\ num.scale \in Int /\ at \in Int /\ pre \in Int BY DEF CursorInv
<1>4. b % High \in Int /\ (b % High) * num.scale \in Int BY <1>1, <1>2, <1>3
<1>5. x \in Int BY <1>3, <1>4
<1>6. x % (2 * Half) \in Int BY <1>5, WireAssumption
<1>7. num.scale * High \in Int BY <1>2, <1>3
<1>8. num'.value = x % (2 * Half) /\ num'.scale = num.scale * High BY DEF Group
<1> HIDE DEF x
<1>9. /\ UNCHANGED <<stack, pre, phase>> /\ at < Top.to /\ at' = at + 1 BY DEF Group
<1>10. Top' = Top BY <1>9 DEF Top
<1>11. Top.from <= pre /\ pre <= Top.to /\ pre <= at BY DEF CursorInv, CursorInBounds
<1>12. phase' # "decoded" BY <1>9 DEF Varints
<1>13. at' <= Top'.to /\ pre' <= at' /\ at' \in Int BY <1>3, <1>9, <1>10, <1>11
<1>14. QED BY <1>3, <1>6, <1>7, <1>8, <1>9, <1>10, <1>11, <1>12, <1>13, CursorStep DEF CursorInv

(* The next field begins at an index of the slice of the last call.        *)
LEMMA NextFieldInv ==
  ASSUME CursorInv, UNCHANGED input, NEW i \in Int, NextField(i),
         Nested(stack', Len(input)), Top'.from <= i, i <= Top'.to
  PROVE  CursorInv'
<1>1. /\ at' = i /\ pre' = i /\ num'.value \in Int /\ num'.scale \in Int
      /\ phase' = "tag"
  BY DEF NextField, Zero
<1>2. i <= i OBVIOUS
<1>3. QED BY <1>1, <1>2, CursorStep DEF CursorInv

(* The slice of a value whose length is checked lies in that of its call.  *)
LEMMA PostInSlice ==
  ASSUME CursorInv, phase = "length", LengthInSlice
  PROVE  /\ Top.from + PostIndex(Length) \in Int
         /\ at <= Top.from + PostIndex(Length)
         /\ Top.from + PostIndex(Length) <= Top.to
         /\ Top.from <= at /\ at \in Int
<1> USE LastCall
<1>1. at \in Int /\ Top.from <= at /\ at <= Top.to /\ num.value \in Int
  BY DEF CursorInv, CursorInBounds, Reading, Varints
<1>2. Length \in Int /\ Length < Half /\ 0 <= Length
  BY <1>1, Int64Range DEF Length, LengthInSlice
<1> HIDE DEF Length
<1> DEFINE n == at - Top.from + Length
<1>3. n \in Int /\ 0 <= n /\ n < 2 * Half /\ PostIndex(Length) = Int64(n)
  BY <1>1, <1>2 DEF PostIndex, Index
<1>4. 0 <= PostIndex(Length) /\ PostIndex(Length) <= Top.to - Top.from
  <2>1. InSlice(PostIndex(Length)) BY DEF LengthInSlice
  <2>2. PostIndex(Length) \in Int BY <1>3, Int64Range
  <2>3. PostIndex(Length) >= 0 /\ PostIndex(Length) <= Index(Top.to)
    BY <2>1 DEF InSlice
  <2>4. Index(Top.to) = Top.to - Top.from BY DEF Index
  <2>5. QED BY <2>2, <2>3, <2>4
<1> HIDE DEF n
<1>5. PostIndex(Length) = n
  <2>1. IF n < Half THEN Int64(n) = n ELSE Int64(n) < 0 BY <1>3, Int64Sum
  <2>2. Int64(n) \in Int BY <1>3, Int64Range
  <2>3. QED BY <1>3, <1>4, <2>1, <2>2
<1>6. QED BY <1>1, <1>2, <1>4, <1>5 DEF n

-----------------------------------------------------------------------------
(* A step that changes only the field or the message of the last call.     *)
LEMMA SameSliceStep ==
  ASSUME CursorInv, NEW c, IsCall(c), c.from = Top.from, c.to = Top.to,
         stack' = [stack EXCEPT ![Len(stack)] = c]
  PROVE  /\ Nested(stack', Len(input))
         /\ Top'.from = Top.from /\ Top'.to = Top.to
         /\ Len(stack') = Len(stack)
<1>1. Nested(stack, Len(input)) /\ Len(input) \in Int BY LastCall DEF CursorInv
<1>2. /\ Nested(stack', Len(input)) /\ Len(stack') = Len(stack)
      /\ stack'[Len(stack)] = c
  BY <1>1, SameSlice DEF Top
<1>3. QED BY <1>2 DEF Top

LEMMA AssignStep ==
  ASSUME CursorInv, NEW value, Assign(value)
  PROVE  /\ Nested(stack', Len(input))
         /\ Top'.from = Top.from /\ Top'.to = Top.to
<1> DEFINE msg == [Top.message EXCEPT ![Top.field] =
                     IF Field.many THEN Append(@, value) ELSE value]
           c == Call(Top.type, Top.field, Top.from, Top.to, msg)
<1>1. IsCall(Top) BY LastCall
<1>2. [Top EXCEPT !.message = msg] = c
  <2> DEFINE old == Call(Top.type, Top.field, Top.from, Top.to, Top.message)
  <2>1. Top = old BY <1>1 DEF IsCall
  <2>2. [old EXCEPT !.message = msg] = c BY DEF Call
  <2> HIDE DEF old, msg, c
  <2>3. QED BY <2>1, <2>2
<1>3. stack' = [stack EXCEPT ![Len(stack)] = c]
  BY <1>2 DEF Assign, Top
<1>4. IsCall(c) /\ c.from = Top.from /\ c.to = Top.to BY DEF IsCall, Call
<1> HIDE DEF c
<1>5. QED BY <1>3, <1>4, SameSliceStep

LEMMA KnownTagInv == CursorInv /\ KnownTag /\ UNCHANGED input => CursorInv'
<1> SUFFICES ASSUME CursorInv, KnownTag, UNCHANGED input PROVE CursorInv' OBVIOUS
<1> DEFINE c == Call(Top.type, FieldNumber, Top.from, Top.to, Top.message)
<1>1. IsCall(Top) BY LastCall
<1>2. [Top EXCEPT !.field = FieldNumber] = c BY <1>1 DEF IsCall, Call
<1>3. stack' = [stack EXCEPT ![Len(stack)] = c]
  BY <1>2 DEF KnownTag, Top
<1>4. IsCall(c) /\ c.from = Top.from /\ c.to = Top.to BY DEF IsCall, Call
<1> HIDE DEF c
<1>5. Nested(stack', Len(input)) /\ Top'.from = Top.from /\ Top'.to = Top.to
  BY <1>3, <1>4, SameSliceStep
<1>6. /\ UNCHANGED <<at, pre>> /\ phase = "tag" /\ phase' # "decoded"
      /\ num'.value \in Int /\ num'.scale \in Int
  BY DEF KnownTag, Zero
<1>7. Top.from <= pre /\ pre <= Top.to /\ pre <= at /\ at <= Top.to
  BY <1>6 DEF CursorInv, CursorInBounds, Reading, Varints
<1>8. at \in Int /\ pre \in Int /\ input \in Seq(Nat) /\ Len(input) < Half BY DEF CursorInv
<1>9. QED BY <1>5, <1>6, <1>7, <1>8, CursorStep

LEMMA UnknownTagInv == CursorInv /\ UnknownTag /\ UNCHANGED input => CursorInv'
<1> SUFFICES ASSUME CursorInv, UnknownTag, UNCHANGED input PROVE CursorInv' OBVIOUS
<1>1. /\ UNCHANGED <<stack, pre>> /\ at' = pre /\ phase' = "skipTag" /\ num' = Zero
  BY DEF UnknownTag
<1>2. num'.value \in Int /\ num'.scale \in Int /\ ~num'.done BY <1>1 DEF Zero
<1>3. ~Reading' BY <1>1, <1>2 DEF Reading, Varints
<1>4. Top' = Top BY <1>1 DEF Top
<1>5. Top.from <= pre /\ pre <= Top.to /\ pre \in Int BY DEF CursorInv, CursorInBounds
<1>6. pre <= pre BY <1>5
<1>7. QED BY <1>1, <1>2, <1>3, <1>4, <1>5, <1>6, CursorStep DEF CursorInv

LEMMA ReadBoolInv == CursorInv /\ ReadBool /\ UNCHANGED input => CursorInv'
<1> SUFFICES ASSUME CursorInv, ReadBool, UNCHANGED input PROVE CursorInv' OBVIOUS
<1>1. PICK value : Assign(value) BY DEF ReadBool
<1>2. Nested(stack', Len(input)) /\ Top'.from = Top.from /\ Top'.to = Top.to
  BY <1>1, AssignStep
<1>3. phase = "bool" /\ NextField(at) BY DEF ReadBool
<1>4. Top.from <= pre /\ pre <= at /\ at <= Top.to /\ at \in Int /\ pre \in Int
  BY <1>3 DEF CursorInv, CursorInBounds, Reading, Varints
<1>5. Top.from <= at BY <1>4, LastCall
<1>6. QED BY <1>2, <1>3, <1>4, <1>5, NextFieldInv

LEMMA ReadBytesInv == CursorInv /\ ReadBytes /\ UNCHANGED input => CursorInv'
<1> SUFFICES ASSUME CursorInv, ReadBytes, UNCHANGED input PROVE CursorInv' OBVIOUS
<1>1. (\E value : Assign(value)) \/ UNCHANGED stack BY DEF ReadBytes
<1>2. Nested(stack', Len(input)) /\ Top'.from = Top.from /\ Top'.to = Top.to
  <2>1. CASE UNCHANGED stack BY <2>1 DEF Top, CursorInv
  <2>2. CASE \E value : Assign(value)
    <3>1. PICK value : Assign(value) BY <2>2
    <3>2. QED BY <3>1, AssignStep
  <2>3. QED BY <1>1, <2>1, <2>2
<1> DEFINE i == Top.from + PostIndex(Length)
<1>3. phase = "length" /\ LengthInSlice /\ NextField(i) BY DEF ReadBytes
<1>4. i \in Int /\ at <= i /\ i <= Top.to /\ Top.from <= at /\ at \in Int
  BY <1>3, PostInSlice
<1> HIDE DEF i
<1>5. Top.from <= i BY <1>4, LastCall
<1>6. QED BY <1>2, <1>3, <1>4, <1>5, NextFieldInv

LEMMA EnterMessageInv == CursorInv /\ EnterMessage /\ UNCHANGED input => CursorInv'
<1> SUFFICES ASSUME CursorInv, EnterMessage, UNCHANGED input PROVE CursorInv' OBVIOUS
<1> DEFINE i == Top.from + PostIndex(Length)
           c == Call(Field.of, 0, at, i, EmbeddedIn(Top.message[Top.field]))
<1>1. phase = "length" /\ LengthInSlice /\ NextField(at) /\ stack' = Append(stack, c)
  BY DEF EnterMessage
<1>2. i \in Int /\ at <= i /\ i <= Top.to /\ Top.from <= at /\ at \in Int
  BY <1>1, PostInSlice
<1> HIDE DEF i
<1>3. IsCall(c) /\ c.from = at /\ c.to = i BY DEF IsCall, Call
<1> HIDE DEF c
<1>4. Nested(stack, Len(input)) /\ Len(input) \in Int BY LastCall DEF CursorInv
<1>5. Nested(stack', Len(input)) /\ Top' = c
  BY <1>1, <1>2, <1>3, <1>4, Pushed DEF Top
<1>6. at <= at BY <1>2
<1>7. QED BY <1>1, <1>2, <1>3, <1>5, <1>6, NextFieldInv

LEMMA LeaveMessageInv == CursorInv /\ LeaveMessage /\ UNCHANGED input => CursorInv'
<1> SUFFICES ASSUME CursorInv, LeaveMessage, UNCHANGED input PROVE CursorInv' OBVIOUS
<1> DEFINE caller == SubSeq(stack, 1, Len(stack) - 1)
           last == caller[Len(caller)]
           msg == [last.message EXCEPT ![last.field] =
                     IF Schema[last.type][last.field].many
                     THEN Append(@, Top.message) ELSE Top.message]
           c == Call(last.type, last.field, last.from, last.to, msg)
<1>1. Nested(stack, Len(input)) /\ Len(input) \in Int BY LastCall DEF CursorInv
<1>2. Len(stack) > 1 /\ NextField(Top.to) BY DEF LeaveMessage
<1>3. /\ Nested(caller, Len(input))
      /\ last.from <= Top.from /\ Top.to <= last.to
  BY <1>1, <1>2, Popped DEF Top
<1>4. stack' = [caller EXCEPT ![Len(caller)] = [last EXCEPT !.message = msg]]
  BY DEF LeaveMessage
<1>5. IsCall(last) /\ last.from \in Int /\ last.to \in Int
  <2>1. PICK S : caller \in Seq(S) BY <1>3 DEF Nested
  <2>2. Len(caller) \in 1..Len(caller) BY <1>3, <2>1 DEF Nested
  <2>3. QED BY <1>3, <2>2 DEF Nested
<1> HIDE DEF caller, last, msg
<1>6. [last EXCEPT !.message = msg] = c BY <1>5 DEF IsCall, Call
<1>7. IsCall(c) /\ c.from = last.from /\ c.to = last.to BY DEF IsCall, Call
<1> HIDE DEF c
<1>8. /\ Nested(stack', Len(input)) /\ Len(stack') = Len(caller)
      /\ stack'[Len(caller)] = c
  BY <1>1, <1>3, <1>4, <1>6, <1>7, SameSlice DEF last
<1>9. Top' = c BY <1>8 DEF Top
<1>10. Top.to \in Int /\ last.from <= Top.to BY <1>3, <1>5, LastCall
<1>11. QED BY <1>2, <1>3, <1>7, <1>8, <1>9, <1>10, NextFieldInv

LEMMA FinishInv == CursorInv /\ Finish /\ UNCHANGED input => CursorInv'
<1> SUFFICES ASSUME CursorInv, Finish, UNCHANGED input PROVE CursorInv' OBVIOUS
<1>1. /\ UNCHANGED <<stack, at, pre, num>> /\ phase' = "decoded"
      /\ at = Top.to /\ Len(stack) = 1
  BY DEF Finish
<1>2. Top' = Top BY <1>1 DEF Top
<1>3. ~Reading' BY <1>1 DEF Reading, Varints
<1>4. Top.from <= pre /\ pre <= Top.to /\ pre <= at BY DEF CursorInv, CursorInBounds
<1>5. QED BY <1>1, <1>2, <1>3, <1>4, CursorStep DEF CursorInv

LEMMA FailInv == CursorInv /\ Fail /\ UNCHANGED input => CursorInv'
<1> SUFFICES ASSUME CursorInv, Fail, UNCHANGED input PROVE CursorInv' OBVIOUS
<1>1. UNCHANGED <<stack, at, pre, num>> /\ phase' = "failed" BY DEF Fail
<1>2. Top' = Top BY <1>1 DEF Top
<1>3. ~Reading' /\ phase' # "decoded" BY <1>1 DEF Reading, Varints
<1>4. Top.from <= pre /\ pre <= Top.to /\ pre <= at BY DEF CursorInv, CursorInBounds
<1>5. QED BY <1>1, <1>2, <1>3, <1>4, CursorStep DEF CursorInv

LEMMA SkipValueInv == CursorInv /\ SkipValue /\ UNCHANGED input => CursorInv'
<1> SUFFICES ASSUME CursorInv, SkipValue, UNCHANGED input PROVE CursorInv' OBVIOUS
<1>1. /\ UNCHANGED <<stack, at, pre>> /\ phase = "skipTag" /\ num.done
      /\ phase' # "decoded" /\ num'.value \in Int /\ num'.scale \in Int
  BY DEF SkipValue, Zero
<1>2. Top' = Top BY <1>1 DEF Top
<1>3. Top.from <= pre /\ pre <= Top.to /\ pre <= at /\ at <= Top.to
  BY <1>1 DEF CursorInv, CursorInBounds, Reading
<1>4. QED BY <1>1, <1>2, <1>3, CursorStep DEF CursorInv

(* Where the function that skips has come to is in the slice or is refused.*)
LEMMA SkipOneInv == CursorInv /\ SkipOne /\ UNCHANGED input => CursorInv'
<1> SUFFICES ASSUME CursorInv, SkipOne, UNCHANGED input PROVE CursorInv' OBVIOUS
<1> USE LastCall
<1> DEFINE n == SkipTo(SkipLen)
           d == SkipDepth
<1>1. /\ UNCHANGED stack /\ num.done /\ 0 <= n /\ 0 <= SkipLen /\ Skipped(n, d)
      /\ phase \in {"skipVarint", "skipLength", "skipTag"}
  BY DEF SkipOne
<1>2. /\ Top.from <= pre /\ pre <= at /\ at <= Top.to /\ at \in Int /\ pre \in Int
      /\ num.value \in Int
  BY <1>1 DEF CursorInv, CursorInBounds, Reading, Varints
<1>3. SkipLen \in Int
  BY <1>2, Int64Range DEF SkipLen, Length
<1>4. n \in Int /\ n < Half
  <2>1. at - pre + SkipLen \in Int BY <1>2, <1>3
  <2>2. QED BY <2>1, Int64Range DEF SkipTo
<1>5. Top' = Top BY <1>1 DEF Top
<1> HIDE DEF n, d
<1>6. CASE d > 0
  <2>1. at' = pre + n /\ phase' = "skipTag" /\ num' = Zero /\ UNCHANGED pre
    BY <1>1, <1>6 DEF Skipped
  <2>2. num'.value \in Int /\ num'.scale \in Int /\ ~num'.done BY <2>1 DEF Zero
  <2>3. ~Reading' /\ phase' # "decoded" BY <2>1, <2>2 DEF Reading, Varints
  <2>4. pre' <= at' /\ at' \in Int BY <1>1, <1>2, <1>4, <2>1
  <2>5. pre <= Top.to BY <1>2
  <2>6. QED BY <1>1, <1>2, <1>5, <2>1, <2>2, <2>3, <2>4, <2>5, CursorStep DEF CursorInv
<1>7. CASE ~(d > 0)
  <2> DEFINE i == pre - Top.from + n
  <2>1. InSlice(Int64(i)) /\ NextField(pre + n) BY <1>1, <1>7 DEF Skipped, Index
  <2>2. i \in Int /\ 0 <= i /\ i < 2 * Half BY <1>1, <1>2, <1>4
  <2>3. Int64(i) \in Int BY <2>2, Int64Range
  <2>4. 0 <= Int64(i) /\ Int64(i) <= Index(Top.to) BY <2>1, <2>3 DEF InSlice
  <2> HIDE DEF i
  <2>5. Int64(i) = i BY <2>2, <2>3, <2>4, Int64Sum
  <2>6. i <= Top.to - Top.from BY <2>4, <2>5 DEF Index
  <2>7. Top.from <= pre + n /\ pre + n <= Top.to /\ pre + n \in Int
    BY <1>1, <1>2, <1>4, <2>6 DEF i
  <2>8. Nested(stack', Len(input)) BY <1>1 DEF CursorInv
  <2>9. QED BY <1>5, <2>1, <2>7, <2>8, NextFieldInv
<1>8. QED BY <1>6, <1>7

LEMMA StepInv == CursorInv /\ [Decode]_vars => CursorInv'
<1> SUFFICES ASSUME CursorInv, [Decode]_vars PROVE CursorInv' OBVIOUS
<1>1. CASE UNCHANGED vars
  BY <1>1 DEF vars, cursor, CursorInv, CursorInBounds, Reading, Top, Inside
<1>2. CASE Decode
  <2>1. phase \in Varints /\ UNCHANGED input BY <1>2 DEF Decode
  <2>2. CASE Group BY <2>1, <2>2, GroupInv
  <2>3. CASE KnownTag BY <2>1, <2>3, KnownTagInv
  <2>4. CASE UnknownTag BY <2>1, <2>4, UnknownTagInv
  <2>5. CASE ReadBool BY <2>1, <2>5, ReadBoolInv
  <2>6. CASE ReadBytes BY <2>1, <2>6, ReadBytesInv
  <2>7. CASE EnterMessage BY <2>1, <2>7, EnterMessageInv
  <2>8. CASE LeaveMessage BY <2>1, <2>8, LeaveMessageInv
  <2>9. CASE Finish BY <2>1, <2>9, FinishInv
  <2>10. CASE SkipOne BY <2>1, <2>10, SkipOneInv
  <2>11. CASE SkipValue BY <2>1, <2>11, SkipValueInv
  <2>12. CASE Fail BY <2>1, <2>12, FailInv
  <2>13. QED BY <1>2, <2>2, <2>3, <2>4, <2>5, <2>6, <2>7, <2>8, <2>9, <2>10, <2>11,
               <2>12 DEF Decode
<1>3. QED BY <1>1, <1>2

(* The checks and the look-up of the signer leave the cursor where it is.   *)
LEMMA CheckedInv == CursorInv /\ [Next]_vars => CursorInv'
<1> SUFFICES ASSUME CursorInv, [Next]_vars PROVE CursorInv' OBVIOUS
<1>1. CASE [Decode]_vars BY <1>1, StepInv
<1>2. CASE ValidateBasic \/ GetSigners
  <2>1. UNCHANGED <<input, stack, at, pre, num>> BY <1>2 DEF ValidateBasic, GetSigners
  <2>2. phase' \in {"valid", "refused", "panicked", "accepted"}
    BY <1>2 DEF ValidateBasic, GetSigners, Outcome
  <2>3. ~Reading' /\ phase' # "decoded" BY <2>2 DEF Reading, Varints
  <2>4. Top' = Top BY <2>1 DEF Top
  <2>5. Top.from <= pre /\ pre <= Top.to /\ pre <= at BY DEF CursorInv, CursorInBounds
  <2>6. QED BY <2>1, <2>3, <2>4, <2>5, CursorStep DEF CursorInv
<1>3. QED BY <1>1, <1>2 DEF Next

(* No input, for no set of message types and at no width of the integers,  *)
(* leads Unmarshal or the function that skips outside a slice it was given, *)
(* and the checks that follow do not change that.                          *)
THEOREM CursorCorrect ==
  /\ Spec => []CursorInBounds
  /\ MessagesSpec => []CursorInBounds
<1>1. Init => CursorInv BY InitInv
<1>2. CursorInv /\ [Decode]_vars => CursorInv' BY StepInv
<1>3. CursorInv /\ [Next]_vars => CursorInv' BY CheckedInv
<1>4. CursorInv => CursorInBounds BY DEF CursorInv
<1>5. Spec => []CursorInBounds BY <1>1, <1>2, <1>4, PTL DEF Spec
<1>6. MessagesSpec => []CursorInBounds BY <1>1, <1>3, <1>4, PTL DEF MessagesSpec
<1>7. QED BY <1>5, <1>6

-----------------------------------------------------------------------------
(* Every iteration advances: the index is behind the beginning of the field *)
(* whenever a varint has been read, and nothing that is skipped is longer  *)
(* than an int.                                                            *)
AdvanceInv ==
  /\ CursorInv
  /\ num.done \in BOOLEAN
  /\ num.done \/ phase \in {"bool", "length", "skipVarint", "skipLength"} => pre < at
  /\ at <= pre + Half

Rank == IF phase = "tag" THEN 2 ELSE IF phase \in Varints THEN 1 ELSE 0

LEMMA Lexicographic ==
  ASSUME NEW v, NEW w, DOMAIN v = 1..5,
         \/ v[1] < w[1]
         \/ v[1] = w[1] /\
              \/ v[2] < w[2]
              \/ v[2] = w[2] /\
                   \/ v[3] < w[3]
                   \/ v[3] = w[3] /\ (v[4] < w[4] \/ (v[4] = w[4] /\ v[5] < w[5]))
  PROVE  Below(v, w)
<1>1. \E i \in 1..5 : v[i] < w[i] /\ \A j \in 1..i-1 : v[j] = w[j]
  <2>1. CASE v[1] < w[1]
    <3>1. v[1] < w[1] /\ \A j \in 1..1-1 : v[j] = w[j] BY <2>1
    <3>2. QED BY <3>1
  <2>2. CASE v[1] = w[1] /\ v[2] < w[2]
    <3>1. v[2] < w[2] /\ \A j \in 1..2-1 : v[j] = w[j] BY <2>2
    <3>2. QED BY <3>1
  <2>3. CASE v[1] = w[1] /\ v[2] = w[2] /\ v[3] < w[3]
    <3>1. v[3] < w[3] /\ \A j \in 1..3-1 : v[j] = w[j] BY <2>3
    <3>2. QED BY <3>1
  <2>4. CASE v[1] = w[1] /\ v[2] = w[2] /\ v[3] = w[3] /\ v[4] < w[4]
    <3>1. v[4] < w[4] /\ \A j \in 1..4-1 : v[j] = w[j] BY <2>4
    <3>2. QED BY <3>1
  <2>5. CASE v[1] = w[1] /\ v[2] = w[2] /\ v[3] = w[3] /\ v[4] = w[4] /\ v[5] < w[5]
    <3>1. v[5] < w[5] /\ \A j \in 1..5-1 : v[j] = w[j] BY <2>5
    <3>2. QED BY <3>1
  <2>6. QED BY <2>1, <2>2, <2>3, <2>4, <2>5
<1>2. QED BY <1>1, Zenon DEF Below

(* What advancing is, in terms of the variables.                           *)
Advanced ==
  \/ pre' > pre
  \/ pre' = pre /\ \/ Len(stack') < Len(stack)
                   \/ Len(stack') = Len(stack) /\
                        \/ Rank' < Rank
                        \/ Rank' = Rank /\ (at' > at \/ (at' = at /\ num.done /\ ~num'.done))

LEMMA AdvanceTypes ==
  ASSUME AdvanceInv
  PROVE  /\ at \in Int /\ pre \in Int /\ 0 <= pre /\ pre <= at /\ pre <= Len(input)
         /\ Len(input) \in Nat /\ Len(stack) \in Nat /\ Rank \in Nat
         /\ Half \in Nat /\ Len(input) < Half /\ at <= 2 * Half
<1>1. CursorInv /\ at <= pre + Half BY DEF AdvanceInv
<1>2. /\ at \in Int /\ pre \in Int /\ Top.from <= pre /\ pre <= Top.to /\ pre <= at
      /\ Len(input) < Half /\ Len(input) \in Nat
  BY <1>1 DEF CursorInv, CursorInBounds
<1>3. /\ Top.from \in Int /\ Top.to \in Int /\ 0 <= Top.from /\ Top.to <= Len(input)
      /\ Half \in Nat /\ Len(stack) \in 1..Len(stack)
  BY <1>1, LastCall
<1>4. Len(stack) \in Nat
  <2>1. PICK S : stack \in Seq(S) BY <1>1 DEF CursorInv, Nested
  <2>2. QED BY <2>1
<1>5. Rank \in Nat BY DEF Rank
<1>6. QED BY <1>1, <1>2, <1>3, <1>4, <1>5

LEMMA AdvanceTypesClosed ==
  AdvanceInv =>
    /\ at \in Int /\ pre \in Int /\ 0 <= pre /\ pre <= at /\ pre <= Len(input)
    /\ Len(input) \in Nat /\ Len(stack) \in Nat /\ Rank \in Nat
    /\ Half \in Nat /\ Len(input) < Half /\ at <= 2 * Half
BY AdvanceTypes

LEMMA Differences ==
  \A x, y, z \in Int : /\ x - y \in Int
                       /\ y <= x => x - y >= 0
                       /\ y > z => x - y < x - z
OBVIOUS

LEMMA AdvancedIsBelow ==
  ASSUME AdvanceInv, AdvanceInv', Advanced, UNCHANGED input
  PROVE  Below(Variant', Variant) /\ \A i \in DOMAIN Variant : Variant'[i] >= 0
<1> DEFINE n == Len(input)
           s == Len(stack)
           t == Len(stack')
           v == Variant'
           w == Variant
<1>1. /\ at \in Int /\ pre \in Int /\ 0 <= pre /\ pre <= at /\ pre <= n
      /\ n \in Nat /\ s \in Nat
      /\ Half \in Nat /\ n < Half /\ at <= 2 * Half
  BY AdvanceTypes
<1>2. (AdvanceInv =>
         /\ at \in Int /\ pre \in Int /\ 0 <= pre /\ pre <= at /\ pre <= Len(input)
         /\ Len(input) \in Nat /\ Len(stack) \in Nat /\ Rank \in Nat
         /\ Half \in Nat /\ Len(input) < Half /\ at <= 2 * Half)'
  BY AdvanceTypesClosed, PTL
<1>3. /\ at' \in Int /\ pre' \in Int /\ 0 <= pre' /\ pre' <= at' /\ pre' <= n
      /\ t \in Nat /\ at' <= 2 * Half
  BY <1>2
<1>4. PICK r \in Nat, q \in Nat, d \in Nat, e \in Nat :
        /\ r = Rank /\ q = Rank'
        /\ d = (IF num.done THEN 1 ELSE 0) /\ e = (IF num'.done THEN 1 ELSE 0)
  BY AdvanceTypes, <1>2
<1>5. w = <<n - pre, s, r, 2 * Half - at, d>> BY <1>4 DEF Variant, Rank
<1>6. v = <<n - pre', t, q, 2 * Half - at', e>> BY <1>4 DEF Variant, Rank
<1>7. \/ pre' > pre
      \/ pre' = pre /\ \/ t < s
                       \/ t = s /\ (\/ q < r
                                    \/ q = r /\ (at' > at \/ (at' = at /\ e < d)))
  <2>1. num.done /\ ~num'.done => e < d BY <1>4
  <2>2. QED BY <1>4, <2>1, Zenon DEF Advanced
<1> HIDE DEF n, s, t, v, w
<1>8. /\ DOMAIN v = 1..5 /\ DOMAIN w = 1..5
      /\ v[1] = n - pre' /\ v[2] = t /\ v[3] = q /\ v[4] = 2 * Half - at' /\ v[5] = e
      /\ w[1] = n - pre /\ w[2] = s /\ w[3] = r /\ w[4] = 2 * Half - at /\ w[5] = d
  BY <1>5, <1>6
<1>9. n \in Int /\ 2 * Half \in Int BY <1>1
<1>10. \A i \in DOMAIN w : v[i] >= 0
  <2>1. n - pre' >= 0 /\ 2 * Half - at' >= 0 BY <1>3, <1>9, Differences, Zenon
  <2>2. t >= 0 /\ q >= 0 /\ e >= 0 BY <1>3
  <2>3. \A i \in 1..5 : i = 1 \/ i = 2 \/ i = 3 \/ i = 4 \/ i = 5 OBVIOUS
  <2>4. QED BY <1>8, <2>1, <2>2, <2>3, Zenon
<1>11. Below(v, w)
  <2>1. pre' > pre => v[1] < w[1]
    <3>1. pre' > pre => n - pre' < n - pre BY <1>1, <1>3, <1>9, Differences, Zenon
    <3>2. QED BY <1>8, <3>1, Zenon
  <2>2. at' > at => v[4] < w[4]
    <3>1. at' > at => 2 * Half - at' < 2 * Half - at BY <1>1, <1>3, <1>9, Differences, Zenon
    <3>2. QED BY <1>8, <3>1, Zenon
  <2>3. pre' = pre => v[1] = w[1] BY <1>8, Zenon
  <2>4. at' = at => v[4] = w[4] BY <1>8, Zenon
  <2>5. /\ (t < s => v[2] < w[2]) /\ (t = s => v[2] = w[2])
        /\ (q < r => v[3] < w[3]) /\ (q = r => v[3] = w[3])
        /\ (e < d => v[5] < w[5])
    BY <1>8, Zenon
  <2>6. \/ v[1] < w[1]
        \/ v[1] = w[1] /\
             \/ v[2] < w[2]
             \/ v[2] = w[2] /\
                  \/ v[3] < w[3]
                  \/ v[3] = w[3] /\ (v[4] < w[4] \/ (v[4] = w[4] /\ v[5] < w[5]))
    BY <1>7, <2>1, <2>2, <2>3, <2>4, <2>5, Zenon
  <2>7. QED BY <1>8, <2>6, Lexicographic, Zenon
<1>12. QED BY <1>10, <1>11 DEF v, w

LEMMA SameLength ==
  ASSUME NEW S, NEW st \in Seq(S), NEW i, NEW x
  PROVE  Len([st EXCEPT ![i] = x]) = Len(st)
OBVIOUS

LEMMA StackLength ==
  ASSUME CursorInv
  PROVE  \A i, x : Len([stack EXCEPT ![i] = x]) = Len(stack)
<1>1. PICK S : stack \in Seq(S) BY DEF CursorInv, Nested
<1>2. QED BY <1>1, SameLength

(* The next iteration of the outer loop begins further on.                 *)
LEMMA NextFieldAdvances ==
  ASSUME AdvanceInv, CursorInv', NEW i \in Int, NextField(i), i > pre
  PROVE  AdvanceInv' /\ Advanced
<1>1. at' = i /\ pre' = i /\ phase' = "tag" /\ num' = Zero BY DEF NextField
<1>2. num'.done = FALSE BY <1>1 DEF Zero
<1>3. i <= i + Half BY WireAssumption
<1>4. at' <= pre' + Half BY <1>1, <1>3, Zenon
<1>5. AdvanceInv'
  <2>1. ~(num'.done \/ phase' \in {"bool", "length", "skipVarint", "skipLength"})
    BY <1>1, <1>2
  <2>2. num'.done \in BOOLEAN BY <1>2
  <2>3. QED BY <1>4, <2>1, <2>2 DEF AdvanceInv
<1>6. Advanced BY <1>1, Zenon DEF Advanced
<1>7. QED BY <1>5, <1>6

(* The index stays in front of or behind a varint.                         *)
LEMMA GroupAdvances ==
  ASSUME AdvanceInv, CursorInv', phase \in Varints, Group, UNCHANGED input
  PROVE  AdvanceInv' /\ Advanced
<1>1. /\ at < Top.to /\ at' = at + 1
      /\ UNCHANGED <<stack, pre, phase>>
  BY DEF Group
<1>2. num'.done \in BOOLEAN BY DEF Group
<1>3. /\ at \in Int /\ pre \in Int /\ 0 <= pre /\ pre <= at
      /\ Half \in Nat /\ Len(input) < Half /\ Len(input) \in Nat
  BY AdvanceTypes
<1>4. Top.to \in Int /\ Top.to <= Len(input) BY LastCall DEF AdvanceInv
<1>5. pre < at + 1 /\ at + 1 <= pre + Half /\ at + 1 > at BY <1>1, <1>3, <1>4
<1>6. pre' < at' /\ at' <= pre' + Half /\ at' > at BY <1>1, <1>5, Zenon
<1>7. AdvanceInv' BY <1>2, <1>6, Zenon DEF AdvanceInv
<1>8. Rank' = Rank BY <1>1 DEF Rank
<1>9. Advanced BY <1>1, <1>6, <1>8, Zenon DEF Advanced
<1>10. QED BY <1>7, <1>9

LEMMA KnownTagAdvances ==
  ASSUME AdvanceInv, CursorInv', KnownTag
  PROVE  AdvanceInv' /\ Advanced
<1>1. /\ phase = "tag" /\ phase' \in {"bool", "length"} /\ num' = Zero
      /\ UNCHANGED <<at, pre>>
  BY DEF KnownTag
<1>2. num.done BY DEF KnownTag
<1>3. pre < at /\ at <= pre + Half BY <1>2, Zenon DEF AdvanceInv
<1>4. num'.done = FALSE BY <1>1 DEF Zero
<1>5. AdvanceInv'
  <2>1. pre' < at' /\ at' <= pre' + Half BY <1>1, <1>3, Zenon
  <2>2. num'.done \in BOOLEAN BY <1>4
  <2>3. QED BY <2>1, <2>2, Zenon DEF AdvanceInv
<1>6. Len(stack') = Len(stack)
  <2>1. PICK c : stack' = [stack EXCEPT ![Len(stack)] = c] BY DEF KnownTag
  <2>2. QED BY <2>1, StackLength DEF AdvanceInv
<1>7. Rank' < Rank BY <1>1 DEF Rank, Varints
<1>8. Advanced BY <1>1, <1>6, <1>7, Zenon DEF Advanced
<1>9. QED BY <1>5, <1>8

LEMMA UnknownTagAdvances ==
  ASSUME AdvanceInv, CursorInv', UnknownTag
  PROVE  AdvanceInv' /\ Advanced
<1>1. /\ phase = "tag" /\ phase' = "skipTag" /\ num' = Zero /\ at' = pre
      /\ UNCHANGED <<stack, pre>>
  BY DEF UnknownTag
<1>2. num'.done = FALSE BY <1>1 DEF Zero
<1>3. pre <= pre + Half BY AdvanceTypes
<1>4. AdvanceInv'
  <2>1. at' <= pre' + Half BY <1>1, <1>3, Zenon
  <2>2. ~(num'.done \/ phase' \in {"bool", "length", "skipVarint", "skipLength"})
    BY <1>1, <1>2
  <2>3. num'.done \in BOOLEAN BY <1>2
  <2>4. QED BY <2>1, <2>2, <2>3 DEF AdvanceInv
<1>5. Rank' < Rank BY <1>1 DEF Rank, Varints
<1>6. Advanced BY <1>1, <1>5, Zenon DEF Advanced
<1>7. QED BY <1>4, <1>6

LEMMA SkipValueAdvances ==
  ASSUME AdvanceInv, CursorInv', SkipValue
  PROVE  AdvanceInv' /\ Advanced
<1>1. /\ phase = "skipTag" /\ phase' \in {"skipVarint", "skipLength"} /\ num' = Zero
      /\ UNCHANGED <<stack, at, pre>>
  BY DEF SkipValue
<1>2. num.done BY DEF SkipValue
<1>3. pre < at /\ at <= pre + Half BY <1>2, Zenon DEF AdvanceInv
<1>4. num'.done = FALSE BY <1>1 DEF Zero
<1>5. AdvanceInv'
  <2>1. pre' < at' /\ at' <= pre' + Half BY <1>1, <1>3, Zenon
  <2>2. num'.done \in BOOLEAN BY <1>4
  <2>3. QED BY <2>1, <2>2, Zenon DEF AdvanceInv
<1>6. Rank' = Rank BY <1>1 DEF Rank, Varints
<1>7. Advanced BY <1>1, <1>2, <1>4, <1>6, Zenon DEF Advanced
<1>8. QED BY <1>5, <1>7

(* A call that returns leaves the variables of the loops as they are.      *)
LEMMA StopAdvances ==
  ASSUME AdvanceInv, CursorInv', phase \in Varints, Finish \/ Fail
  PROVE  AdvanceInv' /\ Advanced
<1>1. phase' \in {"decoded", "failed"} /\ UNCHANGED <<stack, at, pre, num>>
  BY DEF Finish, Fail
<1>2. AdvanceInv' BY <1>1 DEF AdvanceInv
<1>3. Rank' < Rank BY <1>1 DEF Rank, Varints
<1>4. Advanced BY <1>1, <1>3, Zenon DEF Advanced
<1>5. QED BY <1>2, <1>4

(* The caller goes on where the embedded call ended, with a smaller stack. *)
LEMMA LeaveMessageAdvances ==
  ASSUME AdvanceInv, CursorInv', LeaveMessage
  PROVE  AdvanceInv' /\ Advanced
<1>1. at = Top.to /\ NextField(Top.to) /\ Len(stack) > 1 BY DEF LeaveMessage
<1>2. /\ at \in Int /\ pre \in Int /\ pre <= at /\ Half \in Nat BY AdvanceTypes
<1>3. CASE at > pre BY <1>1, <1>2, <1>3, NextFieldAdvances
<1>4. CASE at = pre
  <2>1. at' = at /\ pre' = pre /\ phase' = "tag" /\ num' = Zero
    BY <1>1, <1>4 DEF NextField
  <2>2. num'.done = FALSE BY <2>1 DEF Zero
  <2>3. AdvanceInv'
    <3>1. ~(num'.done \/ phase' \in {"bool", "length", "skipVarint", "skipLength"})
      BY <2>1, <2>2
    <3>2. at' <= pre' + Half BY <2>1, Zenon DEF AdvanceInv
    <3>3. num'.done \in BOOLEAN BY <2>2
    <3>4. QED BY <3>1, <3>2, <3>3 DEF AdvanceInv
  <2>4. Len(stack') < Len(stack)
    <3> DEFINE caller == SubSeq(stack, 1, Len(stack) - 1)
    <3>1. PICK S : stack \in Seq(S) BY DEF AdvanceInv, CursorInv, Nested
    <3>2. caller \in Seq(S) /\ Len(caller) = Len(stack) - 1 BY <1>1, <3>1
    <3>3. PICK c : stack' = [caller EXCEPT ![Len(caller)] = c] BY DEF LeaveMessage
    <3> HIDE DEF caller
    <3>4. Len(stack') = Len(caller) BY <3>2, <3>3, SameLength
    <3>5. Len(stack) - 1 < Len(stack) BY <3>1
    <3>6. QED BY <3>2, <3>4, <3>5, Zenon
  <2>5. Advanced BY <2>1, <2>4, Zenon DEF Advanced
  <2>6. QED BY <2>3, <2>5
<1>5. QED BY <1>2, <1>3, <1>4

LEMMA ReadAdvances ==
  ASSUME AdvanceInv, CursorInv', ReadBool \/ ReadBytes \/ EnterMessage
  PROVE  AdvanceInv' /\ Advanced
<1>1. at \in Int /\ pre \in Int /\ CursorInv BY AdvanceTypes DEF AdvanceInv
<1>2. phase \in {"bool", "length"} BY DEF ReadBool, ReadBytes, EnterMessage
<1>3. pre < at BY <1>2, Zenon DEF AdvanceInv
<1>4. CASE ReadBool \/ EnterMessage
  <2>1. NextField(at) BY <1>4 DEF ReadBool, EnterMessage
  <2>2. QED BY <1>1, <1>3, <2>1, NextFieldAdvances
<1>5. CASE ReadBytes
  <2> DEFINE i == Top.from + PostIndex(Length)
  <2>1. phase = "length" /\ LengthInSlice /\ NextField(i) BY <1>5 DEF ReadBytes
  <2>2. i \in Int /\ at <= i BY <1>1, <2>1, PostInSlice
  <2> HIDE DEF i
  <2>3. i > pre BY <1>1, <1>3, <2>2
  <2>4. QED BY <2>1, <2>2, <2>3, NextFieldAdvances
<1>6. QED BY <1>4, <1>5

(* What the function that skips has read is part of what it returns.       *)
LEMMA SkipOneAdvances ==
  ASSUME AdvanceInv, CursorInv', SkipOne
  PROVE  AdvanceInv' /\ Advanced
<1> DEFINE n == SkipTo(SkipLen)
           d == SkipDepth
           m == at - pre + SkipLen
<1>1. /\ UNCHANGED stack /\ 0 <= n /\ 0 <= SkipLen /\ Skipped(n, d)
      /\ phase \in {"skipVarint", "skipLength", "skipTag"}
  BY DEF SkipOne
<1>2. num.done BY DEF SkipOne
<1>3. pre < at BY <1>2, Zenon DEF AdvanceInv
<1>4. /\ at \in Int /\ pre \in Int /\ 0 <= pre /\ at <= pre + Half /\ Half \in Nat
      /\ num.value \in Int
  BY AdvanceTypes DEF AdvanceInv, CursorInv
<1>5. SkipLen \in Int /\ SkipLen < Half
  <2>1. Length \in Int /\ Length < Half BY <1>4, Int64Range DEF Length
  <2>2. Half > 8 BY WireAssumption
  <2> HIDE DEF Length
  <2>3. QED BY <1>4, <2>1, <2>2 DEF SkipLen
<1>6. m \in Int /\ 0 <= m /\ m < 2 * Half /\ m >= at - pre BY <1>1, <1>3, <1>4, <1>5
<1>7. n = Int64(m) BY DEF SkipTo
<1> HIDE DEF n, d, m
<1>8. n \in Int /\ n < Half BY <1>6, <1>7, Int64Range
<1>9. n = m
  <2>1. IF m < Half THEN Int64(m) = m ELSE Int64(m) < 0 BY <1>6, Int64Sum
  <2>2. QED BY <1>1, <1>6, <1>7, <1>8, <2>1
<1>10. pre + n \in Int /\ pre + n >= at /\ pre + n > pre /\ pre + n <= pre + Half
  BY <1>3, <1>4, <1>6, <1>8, <1>9
<1>11. CASE d > 0
  <2>1. at' = pre + n /\ phase' = "skipTag" /\ num' = Zero /\ UNCHANGED pre
    BY <1>1, <1>11 DEF Skipped
  <2>2. num'.done = FALSE BY <2>1 DEF Zero
  <2>3. AdvanceInv'
    <3>1. ~(num'.done \/ phase' \in {"bool", "length", "skipVarint", "skipLength"})
      BY <2>1, <2>2
    <3>2. at' <= pre' + Half BY <1>10, <2>1, Zenon
    <3>3. num'.done \in BOOLEAN BY <2>2
    <3>4. QED BY <3>1, <3>2, <3>3 DEF AdvanceInv
  <2>4. Rank' = Rank BY <1>1, <2>1 DEF Rank, Varints
  <2>5. at' > at \/ at' = at
    <3>1. pre + n > at \/ pre + n = at BY <1>4, <1>10
    <3>2. QED BY <2>1, <3>1, Zenon
  <2>6. Advanced BY <1>1, <1>2, <2>1, <2>2, <2>4, <2>5, Zenon DEF Advanced
  <2>7. QED BY <2>3, <2>6
<1>12. CASE ~(d > 0)
  <2>1. NextField(pre + n) BY <1>1, <1>12 DEF Skipped
  <2>2. QED BY <1>10, <2>1, NextFieldAdvances
<1>13. QED BY <1>11, <1>12

LEMMA DecodeAdvances ==
  ASSUME AdvanceInv, Decode
  PROVE  AdvanceInv' /\ Advanced
<1>1. phase \in Varints /\ UNCHANGED input BY DEF Decode
<1>2. CursorInv' BY StepInv DEF AdvanceInv
<1>3. CASE Group BY <1>1, <1>2, <1>3, GroupAdvances
<1>4. CASE KnownTag BY <1>2, <1>4, KnownTagAdvances
<1>5. CASE UnknownTag BY <1>2, <1>5, UnknownTagAdvances
<1>6. CASE ReadBool \/ ReadBytes \/ EnterMessage BY <1>2, <1>6, ReadAdvances
<1>7. CASE LeaveMessage BY <1>2, <1>7, LeaveMessageAdvances
<1>8. CASE Finish \/ Fail BY <1>1, <1>2, <1>8, StopAdvances
<1>9. CASE SkipOne BY <1>2, <1>9, SkipOneAdvances
<1>10. CASE SkipValue BY <1>2, <1>10, SkipValueAdvances
<1>11. QED BY <1>3, <1>4, <1>5, <1>6, <1>7, <1>8, <1>9, <1>10 DEF Decode

LEMMA AdvanceInit == Init => AdvanceInv
<1> SUFFICES ASSUME Init PROVE AdvanceInv OBVIOUS
<1>1. at = 0 /\ pre = 0 /\ num = Zero /\ phase = "tag" BY DEF Init
<1>2. num.done = FALSE BY <1>1 DEF Zero
<1>3. at <= pre + Half BY <1>1, WireAssumption
<1>4. ~(num.done \/ phase \in {"bool", "length", "skipVarint", "skipLength"}) BY <1>1, <1>2
<1>5. num.done \in BOOLEAN BY <1>2
<1>6. QED BY <1>3, <1>4, <1>5, InitInv DEF AdvanceInv

LEMMA AdvanceStep == AdvanceInv /\ [Next]_vars => AdvanceInv'
<1> SUFFICES ASSUME AdvanceInv, [Next]_vars PROVE AdvanceInv' OBVIOUS
<1>1. CASE Decode BY <1>1, DecodeAdvances
<1>2. CASE UNCHANGED vars
  <2>1. CursorInv' BY <1>2, StepInv DEF AdvanceInv
  <2>2. UNCHANGED <<at, pre, num, phase>> BY <1>2 DEF vars, cursor
  <2>3. QED BY <2>1, <2>2 DEF AdvanceInv
<1>3. CASE ValidateBasic \/ GetSigners
  <2>1. CursorInv' BY CheckedInv DEF AdvanceInv
  <2>2. UNCHANGED <<at, pre, num>> BY <1>3 DEF ValidateBasic, GetSigners
  <2>3. phase' \notin {"bool", "length", "skipVarint", "skipLength"}
    BY <1>3 DEF ValidateBasic, GetSigners, Outcome
  <2>4. QED BY <2>1, <2>2, <2>3 DEF AdvanceInv
<1>4. QED BY <1>1, <1>2, <1>3 DEF Next

(* Whatever the bytes, the types and the width of the integers: each step   *)
(* of a decoder makes a tuple of five natural numbers smaller, so there can *)
(* be only finitely many of them.                                          *)
THEOREM AdvanceCorrect == MessagesSpec => EveryStepAdvances
<1> DEFINE Step == Decode => /\ Below(Variant', Variant)
                             /\ \A i \in DOMAIN Variant : Variant'[i] >= 0
<1>1. AdvanceInv /\ Decode => Step
  <2> SUFFICES ASSUME AdvanceInv, Decode PROVE Step OBVIOUS
  <2>1. AdvanceInv' /\ Advanced BY DecodeAdvances
  <2>2. UNCHANGED input BY DEF Decode
  <2>3. QED BY <2>1, <2>2, AdvancedIsBelow
<1>2. AdvanceInv /\ [Next]_vars => [Step]_vars BY <1>1
<1>3. Init => AdvanceInv BY AdvanceInit
<1>4. AdvanceInv /\ [Next]_vars => AdvanceInv' BY AdvanceStep
<1>5. QED BY <1>2, <1>3, <1>4, PTL DEF MessagesSpec, EveryStepAdvances

-----------------------------------------------------------------------------
(* A list of checks as the handlers rely on it: the first is that the      *)
(* sender is an address, and an amount is compared after it was looked for.*)
Sound(checks) ==
  /\ DOMAIN checks \subseteq Nat
  /\ 1 \in DOMAIN checks /\ checks[1] = IsAddress(1)
  /\ \A i \in DOMAIN checks :
       checks[i].what \in {"is not negative", "is not zero"} =>
         \E j \in DOMAIN checks : j < i /\ checks[j] = NotNil(checks[i].field)

(* Every coin among the fields is looked for and compared.                 *)
Covers(checks, fields) ==
  \A f \in DOMAIN fields :
    fields[f].of = "Coin" =>
      \E i, j \in DOMAIN checks : checks[i] = NotNil(f) /\ checks[j] = NotNegative(f)

(* What the elements of a list of checks are.                              *)
LEMMA Compared ==
  /\ \A f : IsAddress(f).what = "is an address" /\ NotEmpty(f).what = "is not empty"
  /\ \A f : NotNil(f).what = "is not nil" /\ NotNil(f).field = f
  /\ \A f : NotNegative(f).what = "is not negative" /\ NotNegative(f).field = f
  /\ \A f : NotZero(f).what = "is not zero" /\ NotZero(f).field = f
BY DEF Check, IsAddress, NotEmpty, NotNil, NotNegative, NotZero

LEMMA AddressElement == \A c, f : c = IsAddress(f) => c.what = "is an address"
BY Compared

LEMMA NotEmptyElement == \A c, f : c = NotEmpty(f) => c.what = "is not empty"
BY Compared

LEMMA NotNegativeElement == \A c, f : c = NotNegative(f) => c.field = f
BY Compared

LEMMA NotZeroElement == \A c, f : c = NotZero(f) => c.field = f
BY Compared

(* The shape of every list of checks: n of them, the first on the sender,   *)
(* then others on addresses, then, from number k on, those of the amount   *)
(* in field f; k is above n when there is none.                            *)
Shape(c, n, k, f) ==
  /\ DOMAIN c = 1..n /\ c[1] = IsAddress(1)
  /\ \A i \in 1..n : i < k => c[i].what \in {"is an address", "is not empty"}
  /\ k \in 1..n => c[k] = NotNil(f)
  /\ \A i \in 1..n : k < i => c[i].field = f

LEMMA SoundShape ==
  ASSUME NEW c, NEW n \in Nat \ {0}, NEW k \in Nat \ {0, 1}, NEW f, Shape(c, n, k, f)
  PROVE  Sound(c)
<1>1. 1 \in 1..n /\ 1..n \subseteq Nat OBVIOUS
<1>2. ASSUME NEW i \in 1..n, c[i].what \in {"is not negative", "is not zero"}
      PROVE  k \in 1..n /\ k < i /\ c[k] = NotNil(c[i].field)
  <2>1. ~(i < k) BY <1>2, Zenon DEF Shape
  <2>2. k \in 1..n BY <2>1
  <2>3. c[k] = NotNil(f) BY <2>2 DEF Shape
  <2>4. i # k BY <1>2, <2>3, Compared, Zenon
  <2>5. k < i BY <2>1, <2>4
  <2>6. QED BY <2>2, <2>3, <2>5, Zenon DEF Shape
<1>3. QED BY <1>1, <1>2, Zenon DEF Shape, Sound

(* The lists that occur.                                                   *)
LEMMA SoundOne == Sound(<<IsAddress(1)>>)
<1> DEFINE c == <<IsAddress(1)>>
<1>1. DOMAIN c = 1..1 /\ c[1] = IsAddress(1)
  OBVIOUS
<1> HIDE DEF c
<1>2. /\ \A i \in 1..1 : i = 1
      /\ \A i \in 1..1 : ~(2 < i)
      /\ 2 \notin 1..1
  OBVIOUS
<1>3. c[1].what = "is an address" BY <1>1, AddressElement, Zenon
<1>4. Shape(c, 1, 2, 0) BY <1>1, <1>2, <1>3, Zenon DEF Shape
<1>5. QED BY <1>4, SoundShape DEF c

LEMMA SoundTwo == Sound(<<IsAddress(1), IsAddress(2)>>)
<1> DEFINE c == <<IsAddress(1), IsAddress(2)>>
<1>1. DOMAIN c = 1..2 /\ c[1] = IsAddress(1) /\ c[2] = IsAddress(2)
  OBVIOUS
<1> HIDE DEF c
<1>2. /\ \A i \in 1..2 : i = 1 \/ i = 2
      /\ \A i \in 1..2 : ~(3 < i)
      /\ 3 \notin 1..2
  OBVIOUS
<1>3. c[1].what = "is an address" /\ c[2].what = "is an address"
  <2>1. c[1].what = "is an address" BY <1>1, AddressElement, Zenon
  <2>2. c[2].what = "is an address" BY <1>1, AddressElement, Zenon
  <2>3. QED BY <2>1, <2>2
<1>4. Shape(c, 2, 3, 0) BY <1>1, <1>2, <1>3, Zenon DEF Shape
<1>5. QED BY <1>4, SoundShape DEF c

LEMMA SoundThree == Sound(<<IsAddress(1), IsAddress(2), IsAddress(3)>>)
<1> DEFINE c == <<IsAddress(1), IsAddress(2), IsAddress(3)>>
<1>1. DOMAIN c = 1..3 /\ c[1] = IsAddress(1) /\ c[2] = IsAddress(2) /\ c[3] = IsAddress(3)
  OBVIOUS
<1> HIDE DEF c
<1>2. /\ \A i \in 1..3 : i = 1 \/ i = 2 \/ i = 3
      /\ \A i \in 1..3 : ~(4 < i)
      /\ 4 \notin 1..3
  OBVIOUS
<1>3. c[1].what = "is an address" /\ c[2].what = "is an address" /\ c[3].what = "is an address"
  <2>1. c[1].what = "is an address" BY <1>1, AddressElement, Zenon
  <2>2. c[2].what = "is an address" BY <1>1, AddressElement, Zenon
  <2>3. c[3].what = "is an address" BY <1>1, AddressElement, Zenon
  <2>4. QED BY <2>1, <2>2, <2>3
<1>4. Shape(c, 3, 4, 0) BY <1>1, <1>2, <1>3, Zenon DEF Shape
<1>5. QED BY <1>4, SoundShape DEF c

LEMMA SoundNotEmpty == Sound(<<IsAddress(1), NotEmpty(2)>>)
<1> DEFINE c == <<IsAddress(1), NotEmpty(2)>>
<1>1. DOMAIN c = 1..2 /\ c[1] = IsAddress(1) /\ c[2] = NotEmpty(2)
  OBVIOUS
<1> HIDE DEF c
<1>2. /\ \A i \in 1..2 : i = 1 \/ i = 2
      /\ \A i \in 1..2 : ~(3 < i)
      /\ 3 \notin 1..2
  OBVIOUS
<1>3. c[1].what = "is an address" /\ c[2].what = "is not empty"
  <2>1. c[1].what = "is an address" BY <1>1, AddressElement, Zenon
  <2>2. c[2].what = "is not empty" BY <1>1, NotEmptyElement, Zenon
  <2>3. QED BY <2>1, <2>2
<1>4. Shape(c, 2, 3, 0) BY <1>1, <1>2, <1>3, Zenon DEF Shape
<1>5. QED BY <1>4, SoundShape DEF c

LEMMA SoundConfigureMinter == Sound(<<IsAddress(1), IsAddress(2), NotNil(3), NotNegative(3)>>)
<1> DEFINE c == <<IsAddress(1), IsAddress(2), NotNil(3), NotNegative(3)>>
<1>1. /\ DOMAIN c = 1..4
      /\ c[1] = IsAddress(1) /\ c[2] = IsAddress(2) /\ c[3] = NotNil(3)
      /\ c[4] = NotNegative(3)
  OBVIOUS
<1> HIDE DEF c
<1>2. /\ \A i \in 1..4 : i < 3 => i = 1 \/ i = 2
      /\ \A i \in 1..4 : 3 < i => i = 4
  OBVIOUS
<1>3. c[1].what = "is an address" /\ c[2].what = "is an address"
  <2>1. c[1].what = "is an address" BY <1>1, AddressElement, Zenon
  <2>2. c[2].what = "is an address" BY <1>1, AddressElement, Zenon
  <2>3. QED BY <2>1, <2>2
<1>4. c[4].field = 3 BY <1>1, NotNegativeElement, Zenon
<1>5. Shape(c, 4, 3, 3) BY <1>1, <1>2, <1>3, <1>4, Zenon DEF Shape
<1>6. QED BY <1>5, SoundShape DEF c

LEMMA SoundMint == Sound(<<IsAddress(1), IsAddress(2), NotNil(3), NotNegative(3), NotZero(3)>>)
<1> DEFINE c == <<IsAddress(1), IsAddress(2), NotNil(3), NotNegative(3), NotZero(3)>>
<1>1. /\ DOMAIN c = 1..5
      /\ c[1] = IsAddress(1) /\ c[2] = IsAddress(2) /\ c[3] = NotNil(3)
      /\ c[4] = NotNegative(3) /\ c[5] = NotZero(3)
  OBVIOUS
<1> HIDE DEF c
<1>2. /\ \A i \in 1..5 : i < 3 => i = 1 \/ i = 2
      /\ \A i \in 1..5 : 3 < i => i = 4 \/ i = 5
  OBVIOUS
<1>3. c[1].what = "is an address" /\ c[2].what = "is an address"
  <2>1. c[1].what = "is an address" BY <1>1, AddressElement, Zenon
  <2>2. c[2].what = "is an address" BY <1>1, AddressElement, Zenon
  <2>3. QED BY <2>1, <2>2
<1>4. c[4].field = 3 /\ c[5].field = 3
  <2>1. c[4].field = 3 BY <1>1, NotNegativeElement, Zenon
  <2>2. c[5].field = 3 BY <1>1, NotZeroElement, Zenon
  <2>3. QED BY <2>1, <2>2
<1>5. Shape(c, 5, 3, 3) BY <1>1, <1>2, <1>3, <1>4, Zenon DEF Shape
<1>6. QED BY <1>5, SoundShape DEF c

LEMMA SoundBurn == Sound(<<IsAddress(1), NotNil(2), NotNegative(2), NotZero(2)>>)
<1> DEFINE c == <<IsAddress(1), NotNil(2), NotNegative(2), NotZero(2)>>
<1>1. /\ DOMAIN c = 1..4
      /\ c[1] = IsAddress(1) /\ c[2] = NotNil(2) /\ c[3] = NotNegative(2)
      /\ c[4] = NotZero(2)
  OBVIOUS
<1> HIDE DEF c
<1>2. /\ \A i \in 1..4 : i < 2 => i = 1
      /\ \A i \in 1..4 : 2 < i => i = 3 \/ i = 4
  OBVIOUS
<1>3. c[1].what = "is an address" BY <1>1, AddressElement, Zenon
<1>4. c[3].field = 2 /\ c[4].field = 2
  <2>1. c[3].field = 2 BY <1>1, NotNegativeElement, Zenon
  <2>2. c[4].field = 2 BY <1>1, NotZeroElement, Zenon
  <2>3. QED BY <2>1, <2>2
<1>5. Shape(c, 4, 2, 2) BY <1>1, <1>2, <1>3, <1>4, Zenon DEF Shape
<1>6. QED BY <1>5, SoundShape DEF c

LEMMA CheckedTypes ==
  DOMAIN Checks =
    {"MsgUpdateMasterMinter", "MsgUpdatePauser", "MsgUpdateBlacklister", "MsgUpdateOwner",
     "MsgAcceptOwner", "MsgConfigureMinter", "MsgRemoveMinter", "MsgMint", "MsgBurn",
     "MsgBlacklist", "MsgUnblacklist", "MsgPause", "MsgUnpause",
     "MsgConfigureMinterController", "MsgRemoveMinterController"}
BY DEF Checks

LEMMA SoundChecks == \A t \in DOMAIN Checks : Sound(Checks[t])
<1> SUFFICES ASSUME NEW t \in DOMAIN Checks PROVE Sound(Checks[t]) OBVIOUS
<1>1. CASE t \in {"MsgAcceptOwner", "MsgPause", "MsgUnpause"}
  <2>1. Checks[t] = <<IsAddress(1)>>
    BY <1>1 DEF Checks, ValidateMsgAcceptOwner, ValidateMsgPause, ValidateMsgUnpause
  <2>2. QED BY <2>1, SoundOne, Zenon
<1>2. CASE t \in {"MsgUpdateMasterMinter", "MsgUpdatePauser", "MsgUpdateBlacklister",
                  "MsgUpdateOwner", "MsgRemoveMinter", "MsgRemoveMinterController"}
  <2>1. Checks[t] = <<IsAddress(1), IsAddress(2)>>
    BY <1>2 DEF Checks, ValidateMsgUpdateMasterMinter, ValidateMsgUpdatePauser,
                ValidateMsgUpdateBlacklister, ValidateMsgUpdateOwner,
                ValidateMsgRemoveMinter, ValidateMsgRemoveMinterController
  <2>2. QED BY <2>1, SoundTwo, Zenon
<1>3. CASE t = "MsgConfigureMinterController"
  <2>1. Checks[t] = <<IsAddress(1), IsAddress(2), IsAddress(3)>>
    BY <1>3 DEF Checks, ValidateMsgConfigureMinterController
  <2>2. QED BY <2>1, SoundThree, Zenon
<1>4. CASE t \in {"MsgBlacklist", "MsgUnblacklist"}
  <2>1. Checks[t] = <<IsAddress(1), NotEmpty(2)>>
    BY <1>4 DEF Checks, ValidateMsgBlacklist, ValidateMsgUnblacklist
  <2>2. QED BY <2>1, SoundNotEmpty, Zenon
<1>5. CASE t \in {"MsgConfigureMinter", "MsgMint", "MsgBurn"}
  <2>1. /\ Checks["MsgConfigureMinter"] =
             <<IsAddress(1), IsAddress(2), NotNil(3), NotNegative(3)>>
        /\ Checks["MsgMint"] =
             <<IsAddress(1), IsAddress(2), NotNil(3), NotNegative(3), NotZero(3)>>
        /\ Checks["MsgBurn"] = <<IsAddress(1), NotNil(2), NotNegative(2), NotZero(2)>>
    BY DEF Checks, ValidateMsgConfigureMinter, ValidateMsgMint, ValidateMsgBurn
  <2>2. QED BY <1>5, <2>1, SoundConfigureMinter, SoundMint, SoundBurn, Zenon
<1>6. QED BY <1>1, <1>2, <1>3, <1>4, <1>5, CheckedTypes

LEMMA FieldTypes == String.of = "" /\ Embedded("Coin").of = "Coin"
BY DEF String, Embedded, Plain

(* Where the coin of a message of a transaction is, it is checked.         *)
LEMMA CoinsCovered == \A t \in DOMAIN Checks : Covers(Checks[t], MessageTypes[t])
<1> SUFFICES ASSUME NEW t \in DOMAIN Checks PROVE Covers(Checks[t], MessageTypes[t]) OBVIOUS
<1>1. CASE t \notin {"MsgConfigureMinter", "MsgMint", "MsgBurn"}
  <2>1. \/ MessageTypes[t] = <<String>>
        \/ MessageTypes[t] = <<String, String>>
        \/ MessageTypes[t] = <<String, String, String>>
    BY <1>1, CheckedTypes
    DEF MessageTypes, MsgUpdateMasterMinter, MsgUpdatePauser, MsgUpdateBlacklister,
        MsgUpdateOwner, MsgAcceptOwner, MsgRemoveMinter, MsgBlacklist, MsgUnblacklist,
        MsgPause, MsgUnpause, MsgConfigureMinterController, MsgRemoveMinterController
  <2>2. \A f \in DOMAIN MessageTypes[t] : MessageTypes[t][f] = String
    BY <2>1
  <2>3. QED BY <2>2, FieldTypes, Zenon DEF Covers
<1>2. CASE t \in {"MsgConfigureMinter", "MsgMint"}
  <2>1. MessageTypes[t] = <<String, String, Embedded("Coin")>>
    BY <1>2 DEF MessageTypes, MsgConfigureMinter, MsgMint
  <2>2. \A f \in DOMAIN MessageTypes[t] : f # 3 => MessageTypes[t][f] = String
    BY <2>1
  <2>3. /\ 3 \in DOMAIN Checks[t] /\ 4 \in DOMAIN Checks[t]
        /\ Checks[t][3] = NotNil(3) /\ Checks[t][4] = NotNegative(3)
    BY <1>2 DEF Checks, ValidateMsgConfigureMinter, ValidateMsgMint
  <2>4. QED BY <2>2, <2>3, FieldTypes, Zenon DEF Covers
<1>3. CASE t = "MsgBurn"
  <2>1. MessageTypes[t] = <<String, Embedded("Coin")>>
    BY <1>3 DEF MessageTypes, MsgBurn
  <2>2. \A f \in DOMAIN MessageTypes[t] : f # 2 => MessageTypes[t][f] = String
    BY <2>1
  <2>3. /\ 2 \in DOMAIN Checks[t] /\ 3 \in DOMAIN Checks[t]
        /\ Checks[t][2] = NotNil(2) /\ Checks[t][3] = NotNegative(2)
    BY <1>3 DEF Checks, ValidateMsgBurn
  <2>4. QED BY <2>2, <2>3, FieldTypes, Zenon DEF Covers
<1>4. QED BY <1>1, <1>2, <1>3, Zenon

-----------------------------------------------------------------------------
(* The outcome of the checks: the first that does not pass is never one    *)
(* that panics, because the one that looks for the amount comes before it. *)
AllPass(checks) == \A i \in DOMAIN checks : ~Panics(checks[i]) /\ Passes(checks[i])

LEMMA OutcomeCorrect ==
  ASSUME NEW checks, Sound(checks)
  PROVE  /\ Outcome(checks) # "panicked"
         /\ Outcome(checks) = "valid" => AllPass(checks)
<1> DEFINE stops == {i \in DOMAIN checks : Panics(checks[i]) \/ ~Passes(checks[i])}
<1>1. Outcome(checks) = IF stops = {} THEN "valid"
                        ELSE IF Panics(checks[Min(stops)]) THEN "panicked" ELSE "refused"
  BY Zenon DEF Outcome
<1>2. stops = {} => AllPass(checks) BY Zenon DEF AllPass
<1>3. ASSUME stops # {}, Panics(checks[Min(stops)])
      PROVE  FALSE
  <2>1. stops \in SUBSET Nat BY DEF Sound
  <2>2. Min(stops) \in stops /\ \A k \in stops : Min(stops) <= k
    <3> HIDE DEF stops
    <3>1. \E m \in stops : \A k \in stops : m <= k BY <1>3, <2>1, Least
    <3>2. QED BY <3>1, Zenon DEF Min
  <2> DEFINE m == Min(stops)
  <2>3. m \in DOMAIN checks /\ m \in Nat BY <2>1, <2>2
  <2>4. /\ checks[m].what \in {"is not negative", "is not zero"}
        /\ AmountOf(checks[m].field) = Nil
    BY <1>3, Zenon DEF Panics
  <2>5. PICK j \in DOMAIN checks : j < m /\ checks[j] = NotNil(checks[m].field)
    BY <2>3, <2>4, Zenon DEF Sound
  <2>6. checks[j].what = "is not nil" /\ checks[j].field = checks[m].field
    BY <2>5, Compared, Zenon
  <2>7. ~Passes(checks[j])
    BY <2>4, <2>6 DEF Passes
  <2>8. m <= j BY <2>2, <2>7, Zenon
  <2>9. j \in Nat BY DEF Sound
  <2>10. QED BY <2>3, <2>5, <2>8, <2>9
<1> HIDE DEF stops
<1>4. QED BY <1>1, <1>2, <1>3

(* Nothing has panicked, and a message that the checks let through is one  *)
(* that passes all of them.                                                *)
ChecksInv ==
  /\ phase # "panicked"
  /\ phase \in {"valid", "accepted"} => IsMsg /\ AllPass(Checks[Type])

LEMMA PassesMeans ==
  ASSUME NEW f
  PROVE  /\ Passes(IsAddress(f)) => Message[f] \in Bech32
         /\ Passes(NotNil(f)) => AmountOf(f) # Nil
         /\ Passes(NotNegative(f)) => AmountOf(f) >= 0
BY DEF Passes, IsAddress, NotNil, NotNegative, Check

LEMMA ChecksStep == ChecksInv /\ [Next]_vars => ChecksInv'
<1> SUFFICES ASSUME ChecksInv, [Next]_vars PROVE ChecksInv' OBVIOUS
<1>1. ASSUME stack' = stack
      PROVE  Type' = Type /\ IsMsg' = IsMsg /\ \A c : AllPass(c)' = AllPass(c)
  BY <1>1 DEF Type, Message, IsMsg, AllPass, Panics, Passes, AmountOf
<1>2. CASE UNCHANGED vars
  BY <1>1, <1>2 DEF ChecksInv, vars, cursor
<1>3. CASE Decode
  <2>1. phase' \notin {"valid", "accepted", "panicked"}
    BY <1>3 DEF Decode, Varints, Group, KnownTag, UnknownTag, ReadBool, ReadBytes,
                EnterMessage, LeaveMessage, Finish, SkipOne, SkipValue, Fail, NextField,
                Skipped
  <2>2. QED BY <2>1 DEF ChecksInv
<1>4. CASE ValidateBasic
  <2>1. IsMsg /\ stack' = stack /\ phase' = Outcome(Checks[Type])
    BY <1>4 DEF ValidateBasic
  <2>2. Sound(Checks[Type]) BY <2>1, SoundChecks DEF IsMsg
  <2>3. phase' # "panicked" /\ (phase' = "valid" => AllPass(Checks[Type]))
    BY <2>1, <2>2, OutcomeCorrect
  <2>4. phase' # "accepted" BY <2>1 DEF Outcome
  <2>5. QED BY <1>1, <2>1, <2>3, <2>4 DEF ChecksInv
<1>5. CASE GetSigners
  <2>1. /\ phase = "valid" /\ stack' = stack
        /\ phase' = IF Message[1] \in Bech32 THEN "accepted" ELSE "panicked"
    BY <1>5 DEF GetSigners
  <2>2. IsMsg /\ AllPass(Checks[Type]) BY <2>1 DEF ChecksInv
  <2>3. Sound(Checks[Type]) BY <2>2, SoundChecks DEF IsMsg
  <2>4. Passes(IsAddress(1)) BY <2>2, <2>3, Zenon DEF Sound, AllPass
  <2>5. phase' = "accepted" BY <2>1, <2>4, PassesMeans
  <2>6. QED BY <1>1, <2>1, <2>2, <2>5 DEF ChecksInv
<1>6. QED BY <1>2, <1>3, <1>4, <1>5 DEF Next

LEMMA ChecksMean == Schema = MessageTypes /\ ChecksInv => NothingPanics
<1> SUFFICES ASSUME Schema = MessageTypes, ChecksInv PROVE NothingPanics OBVIOUS
<1>1. ASSUME phase = "accepted", NEW f \in DOMAIN Schema[Type], Schema[Type][f].of = "Coin"
      PROVE  AmountOf(f) # Nil /\ AmountOf(f) >= 0
  <2> DEFINE checks == Checks[Type]
  <2>1. IsMsg /\ AllPass(checks) BY <1>1 DEF ChecksInv
  <2>2. Covers(checks, Schema[Type]) BY <2>1, CoinsCovered DEF IsMsg
  <2> HIDE DEF checks
  <2>3. PICK i, j \in DOMAIN checks : checks[i] = NotNil(f) /\ checks[j] = NotNegative(f)
    BY <1>1, <2>2, Zenon DEF Covers
  <2>4. Passes(NotNil(f)) /\ Passes(NotNegative(f)) BY <2>1, <2>3, Zenon DEF AllPass
  <2>5. QED BY <2>4, PassesMeans
<1>2. QED BY <1>1 DEF ChecksInv, NothingPanics

(* For every input: no transaction message of the chain, whatever fields it *)
(* lacks or repeats, makes ValidateBasic or GetSigners panic, and one that *)
(* is accepted has amounts its handler can compare and add.                *)
THEOREM PanicsCorrect == Schema = MessageTypes => (MessagesSpec => []NothingPanics)
<1>1. Init => ChecksInv BY DEF Init, ChecksInv
<1>2. ChecksInv /\ [Next]_vars => ChecksInv' BY ChecksStep
<1>3. SUFFICES ASSUME Schema = MessageTypes PROVE MessagesSpec => []NothingPanics OBVIOUS
<1>4. ChecksInv => NothingPanics BY <1>3, ChecksMean
<1>5. QED BY <1>1, <1>2, <1>4, PTL DEF MessagesSpec

-----------------------------------------------------------------------------
(* Varints: what a number is written in, and how many bytes that is.       *)
LEMMA Len64Defined ==
  /\ Len64 = [n \in Nat |-> IF n = 0 THEN 0 ELSE 1 + Len64[n \div 2]]
  /\ \A n \in Nat : Len64[n] \in Nat
<1> DEFINE p == [n \in Nat |-> n \div 2]
           step == [n \in Nat |-> [v \in Nat |-> IF n = 0 THEN 0 ELSE 1 + v]]
           IsIt(f) == f = [n \in Nat |-> IF n = 0 THEN 0 ELSE 1 + f[n \div 2]]
<1>1. p \in [Nat -> Nat] /\ step \in [Nat -> [Nat -> Nat]] OBVIOUS
<1>2. \A n \in Nat : p[n] < n \/ \A v, w \in Nat : step[n][v] = step[n][w] OBVIOUS
<1>3. \E f : IsSolution(f, Nat, Nat, p, step)
  <2> HIDE DEF p, step
  <2>1. Nat # {} /\ Nat \in SUBSET Nat OBVIOUS
  <2>2. IsRecursion(Nat, Nat, p, step) BY <1>1, <1>2, <2>1 DEF IsRecursion
  <2>3. QED BY <2>2, Recursion
<1>4. PICK f \in [Nat -> Nat] : \A n \in Nat : f[n] = step[n][f[p[n]]]
  BY <1>3 DEF IsSolution
<1>5. \A n \in Nat : f[n] = IF n = 0 THEN 0 ELSE 1 + f[n \div 2]
  <2>1. \A n, v \in Nat : step[n][v] = IF n = 0 THEN 0 ELSE 1 + v OBVIOUS
  <2>2. \A n \in Nat : p[n] = n \div 2 /\ p[n] \in Nat OBVIOUS
  <2> HIDE DEF p, step
  <2>3. ASSUME NEW n \in Nat PROVE f[n] = IF n = 0 THEN 0 ELSE 1 + f[n \div 2]
    <3>1. f[n] = step[n][f[p[n]]] BY <1>4
    <3>2. f[p[n]] \in Nat BY <1>4, <2>2
    <3>3. QED BY <2>1, <2>2, <3>1, <3>2
  <2>4. QED BY <2>3
<1>6. IsIt(f) BY <1>4, <1>5
<1> HIDE DEF IsIt
<1>7. Len64 = CHOOSE g : IsIt(g) BY DEF Len64, IsIt
<1>8. IsIt(Len64) BY <1>6, <1>7
<1>9. \A n \in Nat : Len64[n] \in Nat
  <2> DEFINE Bad == {n \in Nat : Len64[n] \notin Nat}
  <2>1. SUFFICES ASSUME Bad # {} PROVE FALSE OBVIOUS
  <2>2. PICK n \in Bad : \A m \in Bad : n <= m BY <2>1, Least
  <2>3. n # 0 BY <1>8, <2>2 DEF IsIt
  <2>4. n \div 2 \in Nat /\ ~(n <= n \div 2) BY <2>2, <2>3
  <2>5. Len64[n \div 2] \in Nat BY <2>2, <2>4
  <2>6. Len64[n] = 1 + Len64[n \div 2] BY <1>8, <2>2, <2>3 DEF IsIt
  <2>7. QED BY <2>2, <2>5, <2>6
<1>10. QED BY <1>8, <1>9 DEF IsIt

(* Half of a number has one bit less.                                      *)
LEMMA Bit == \A n \in Nat \ {0} : Len64[n] = 1 + Len64[n \div 2] /\ Len64[n] \in Nat
BY Len64Defined

(* Seven bits make a group.                                                *)
LEMMA BitsOfGroup ==
  /\ \A n \in 1..127 : Len64[n] \in 1..7
  /\ \A n \in Nat : n >= 128 => Len64[n] = 7 + Len64[n \div 128]
<1>0. Len64[0] = 0 /\ \A n \in Nat : Len64[n] \in Nat BY Len64Defined
<1> DEFINE B(n) == Len64[n]
<1>1. \A n \in 1..1 : B(n) \in 1..1
  <2>1. 1 \div 2 = 0 OBVIOUS
  <2>2. QED BY <1>0, <2>1, Bit
<1> HIDE DEF B
<1>2. \A n \in Nat \ {0} : B(n) = 1 + B(n \div 2) /\ B(n) \in Nat BY Bit DEF B
<1>3. \A n \in 1..3 : B(n) \in 1..2
  <2>1. \A n \in 1..3 : n = 1 \/ n \div 2 \in 1..1 OBVIOUS
  <2>2. QED BY <1>1, <1>2, <2>1
<1>4. \A n \in 1..7 : B(n) \in 1..3
  <2>1. \A n \in 1..7 : n = 1 \/ n \div 2 \in 1..3 OBVIOUS
  <2>2. QED BY <1>1, <1>2, <1>3, <2>1
<1>5. \A n \in 1..15 : B(n) \in 1..4
  <2>1. \A n \in 1..15 : n = 1 \/ n \div 2 \in 1..7 OBVIOUS
  <2>2. QED BY <1>1, <1>2, <1>4, <2>1
<1>6. \A n \in 1..31 : B(n) \in 1..5
  <2>1. \A n \in 1..31 : n = 1 \/ n \div 2 \in 1..15 OBVIOUS
  <2>2. QED BY <1>1, <1>2, <1>5, <2>1
<1>7. \A n \in 1..63 : B(n) \in 1..6
  <2>1. \A n \in 1..63 : n = 1 \/ n \div 2 \in 1..31 OBVIOUS
  <2>2. QED BY <1>1, <1>2, <1>6, <2>1
<1>8. \A n \in 1..127 : B(n) \in 1..7
  <2>1. \A n \in 1..127 : n = 1 \/ n \div 2 \in 1..63 OBVIOUS
  <2>2. QED BY <1>1, <1>2, <1>7, <2>1
<1>9. \A n \in Nat : n >= 128 => B(n) = 7 + B(n \div 128)
  <2>1. \A n \in Nat : n >= 4 => B(n) = 2 + B(n \div 4)
    <3>1. \A n \in Nat : n >= 4 => n \div 2 \in Nat \ {0} /\ (n \div 2) \div 2 = n \div 4
      OBVIOUS
    <3>2. QED BY <1>2, <3>1
  <2>2. \A n \in Nat : n >= 16 => B(n) = 4 + B(n \div 16)
    <3>1. \A n \in Nat : n >= 16 => n \div 4 \in Nat /\ n \div 4 >= 4
                                    /\ (n \div 4) \div 4 = n \div 16
      OBVIOUS
    <3>2. QED BY <2>1, <3>1, <1>2
  <2>3. \A n \in Nat : n >= 64 => B(n) = 6 + B(n \div 64)
    <3>1. \A n \in Nat : n >= 64 => n \div 16 \in Nat /\ n \div 16 >= 4
                                    /\ (n \div 16) \div 4 = n \div 64
                                    /\ n \div 64 \in Nat \ {0}
      OBVIOUS
    <3>2. \A n \in Nat : n >= 64 => B(n) = 4 + B(n \div 16) /\ B(n \div 16) = 2 + B(n \div 64)
      BY <2>1, <2>2, <3>1
    <3>3. QED BY <1>2, <3>1, <3>2
  <2>4. \A n \in Nat : n >= 128 => n \div 64 \in Nat \ {0} /\ (n \div 64) \div 2 = n \div 128
    OBVIOUS
  <2>5. QED BY <1>2, <2>3, <2>4
<1>10. QED BY <1>8, <1>9 DEF B

(* Setting the lowest bit changes no other.                                *)
LEMMA LowestBit ==
  \A n \in Nat : /\ n + 1 - (n % 2) \in Nat \ {0}
                 /\ n > 0 => Len64[n + 1 - (n % 2)] = Len64[n]
                 /\ n < 128 => n + 1 - (n % 2) \in 1..127
                 /\ n >= 128 => /\ n + 1 - (n % 2) >= 128
                                /\ (n + 1 - (n % 2)) \div 128 = n \div 128
<1>1. SUFFICES ASSUME NEW n \in Nat
               PROVE  /\ n + 1 - (n % 2) \in Nat \ {0}
                      /\ n > 0 => Len64[n + 1 - (n % 2)] = Len64[n]
                      /\ n < 128 => n + 1 - (n % 2) \in 1..127
                      /\ n >= 128 => /\ n + 1 - (n % 2) >= 128
                                     /\ (n + 1 - (n % 2)) \div 128 = n \div 128
  OBVIOUS
<1>2. PICK m \in Nat : m = n + 1 - (n % 2) OBVIOUS
<1>3. m # 0 /\ (n < 128 => m \in 1..127) /\ (n >= 128 => m >= 128) BY <1>2
<1>4. m \div 2 = n \div 2 BY <1>2
<1>5. n >= 128 => m \div 128 = n \div 128 BY <1>2
<1>6. n > 0 => Len64[m] = Len64[n] BY <1>3, <1>4, Bit
<1>7. QED BY <1>2, <1>3, <1>5, <1>6

(* encodeVarint is its recursion on smaller numbers, and gives bytes.      *)
LEMMA VarintDefined ==
  High > 1 =>
    /\ encodeVarint = [n \in Nat |-> IF n < High THEN <<n>>
                                     ELSE <<High + (n % High)>> \o encodeVarint[n \div High]]
    /\ \A n \in Nat : encodeVarint[n] \in Seq(Nat)
<1> SUFFICES ASSUME High > 1
             PROVE  /\ encodeVarint = [n \in Nat |-> IF n < High THEN <<n>>
                                         ELSE <<High + (n % High)>> \o encodeVarint[n \div High]]
                    /\ \A n \in Nat : encodeVarint[n] \in Seq(Nat)
  OBVIOUS
<1> DEFINE p == [n \in Nat |-> n \div High]
           step == [n \in Nat |-> [v \in Seq(Nat) |->
                      IF n < High THEN <<n>> ELSE <<High + (n % High)>> \o v]]
           IsIt(f) == f = [n \in Nat |-> IF n < High THEN <<n>>
                                         ELSE <<High + (n % High)>> \o f[n \div High]]
<1>0. High \in Nat BY WireAssumption
<1>1. \A n \in Nat : n \div High \in Nat /\ n % High \in Nat
                     /\ (n >= High => n \div High < n)
  <2>1. SUFFICES ASSUME NEW n \in Nat
                 PROVE  n \div High \in Nat /\ n % High \in Nat
                        /\ (n >= High => n \div High < n)
    OBVIOUS
  <2>2. n \div High \in Nat /\ n % High \in Nat BY <1>0
  <2>3. PICK q \in Nat : q = n \div High BY <2>2
  <2>4. q * High <= n BY <1>0, <2>3, QuotientBounds
  <2>5. n >= High => q < n
    <3>1. CASE q = 0 BY <1>0, <3>1
    <3>2. CASE q > 0
      <4>1. q * 2 <= q * High BY <1>0, TimesMonotone
      <4>2. q * High \in Nat BY <1>0
      <4>3. QED BY <2>4, <3>2, <4>1, <4>2
    <3>3. QED BY <3>1, <3>2
  <2>6. QED BY <2>2, <2>3, <2>5
<1>2. \A n, v : n \in Nat /\ v \in Seq(Nat) =>
        (IF n < High THEN <<n>> ELSE <<High + (n % High)>> \o v) \in Seq(Nat)
  BY <1>0, <1>1
<1>3. p \in [Nat -> Nat] /\ step \in [Nat -> [Seq(Nat) -> Seq(Nat)]] BY <1>1, <1>2
<1>4. \A n \in Nat : p[n] < n \/ \A v, w \in Seq(Nat) : step[n][v] = step[n][w]
  BY <1>0, <1>1
<1>5. \A n \in Nat : p[n] = n \div High OBVIOUS
<1>6. \A n \in Nat, v \in Seq(Nat) :
        step[n][v] = IF n < High THEN <<n>> ELSE <<High + (n % High)>> \o v
  OBVIOUS
<1> HIDE DEF p, step
<1>7. \E f : IsSolution(f, Nat, Seq(Nat), p, step)
  <2>0. <<>> \in Seq(Nat) OBVIOUS
  <2>1. Seq(Nat) # {} /\ Nat \in SUBSET Nat BY <2>0, Zenon
  <2>2. IsRecursion(Nat, Seq(Nat), p, step) BY <1>3, <1>4, <2>1 DEF IsRecursion
  <2>3. QED BY <2>2, Recursion
<1>8. PICK f \in [Nat -> Seq(Nat)] : \A n \in Nat : f[n] = step[n][f[p[n]]]
  BY <1>7 DEF IsSolution
<1>9. IsIt(f)
  <2>1. ASSUME NEW n \in Nat
        PROVE f[n] = IF n < High THEN <<n>> ELSE <<High + (n % High)>> \o f[n \div High]
    <3>1. f[n] = step[n][f[n \div High]] BY <1>5, <1>8
    <3>2. f[n \div High] \in Seq(Nat) BY <1>1, <1>8
    <3>3. QED BY <1>6, <3>1, <3>2
  <2>2. QED BY <1>8, <2>1
<1> HIDE DEF IsIt
<1>10. encodeVarint = CHOOSE g : IsIt(g) BY DEF encodeVarint, IsIt
<1>11. IsIt(encodeVarint) BY <1>9, <1>10
<1>12. ASSUME NEW n \in Nat PROVE encodeVarint[n] \in Seq(Nat)
  <2> DEFINE Bad == {k \in Nat : encodeVarint[k] \notin Seq(Nat)}
  <2>1. SUFFICES ASSUME Bad # {} PROVE FALSE OBVIOUS
  <2>2. PICK k \in Bad : \A j \in Bad : k <= j BY <2>1, Least
  <2>7. k \in Nat /\ encodeVarint[k] \notin Seq(Nat) BY <2>2
  <2>8. \A j \in Nat : ~(k <= j) => encodeVarint[j] \in Seq(Nat) BY <2>2
  <2> HIDE DEF Bad
  <2>3. encodeVarint[k] = IF k < High THEN <<k>>
                          ELSE <<High + (k % High)>> \o encodeVarint[k \div High]
    BY <1>11, <2>7 DEF IsIt
  <2>4. CASE k < High
    <3>1. encodeVarint[k] = <<k>> BY <2>3, <2>4
    <3>2. <<k>> \in Seq(Nat) BY <2>7
    <3>3. QED BY <2>7, <3>1, <3>2
  <2>5. CASE ~(k < High)
    <3>1. k >= High BY <1>0, <2>5, <2>7
    <3>2. PICK q \in Nat : q = k \div High /\ q < k BY <1>1, <2>7, <3>1
    <3>3. ~(k <= q) BY <2>7, <3>2
    <3>4. encodeVarint[q] \in Seq(Nat) BY <2>8, <3>3
    <3>5. QED BY <1>2, <2>3, <2>7, <3>2, <3>4
  <2>6. QED BY <2>4, <2>5
<1>13. QED BY <1>11, <1>12 DEF IsIt

(* The same for groups of seven bits.                                      *)
LEMMA Varint ==
  ASSUME High = 128, NEW n \in Nat
  PROVE  /\ encodeVarint[n] \in Seq(Nat)
         /\ n < 128 => encodeVarint[n] = <<n>>
         /\ n >= 128 => encodeVarint[n] = <<128 + (n % 128)>> \o encodeVarint[n \div 128]
<1>0. High > 1 OBVIOUS
<1>1. \A i \in Nat : encodeVarint[i] \in Seq(Nat) BY <1>0, VarintDefined
<1>2. encodeVarint = [i \in Nat |-> IF i < High THEN <<i>>
                                   ELSE <<High + (i % High)>> \o encodeVarint[i \div High]]
  BY <1>0, VarintDefined
<1>3. encodeVarint[n] = IF n < High THEN <<n>>
                        ELSE <<High + (n % High)>> \o encodeVarint[n \div High]
  BY <1>2, Zenon
<1>4. QED BY <1>1, <1>3

(* A varint has a byte for each group of seven bits, and one for zero.     *)
LEMMA SovCorrect ==
  ASSUME High = 128, NEW k \in Nat
  PROVE  sov(k) = Len(encodeVarint[k])
<1> DEFINE Bad == {n \in Nat : sov(n) # Len(encodeVarint[n])}
<1>1. SUFFICES ASSUME Bad # {} PROVE FALSE OBVIOUS
<1>2. PICK n \in Bad : \A m \in Bad : n <= m BY <1>1, Least
<1>3. n \in Nat /\ sov(n) # Len(encodeVarint[n]) BY <1>2
<1> HIDE DEF Bad
<1>4. PICK m \in Nat : m = n + 1 - (n % 2) BY <1>3
<1>5. sov(n) = (Len64[m] + 6) \div 7 BY <1>4 DEF sov
<1>6. CASE n < 128
  <2>1. Len64[m] \in 1..7 BY <1>3, <1>4, <1>6, LowestBit, BitsOfGroup
  <2>2. sov(n) = 1 BY <1>5, <2>1
  <2>3. encodeVarint[n] = <<n>> BY <1>3, <1>6, Varint
  <2>4. Len(encodeVarint[n]) = 1 BY <2>3
  <2>5. QED BY <1>3, <2>2, <2>4
<1>7. CASE n >= 128
  <2>1. PICK q \in Nat : q = n \div 128 BY <1>3
  <2>2. q > 0 /\ q < n BY <1>3, <1>7, <2>1
  <2>3. sov(q) = Len(encodeVarint[q])
    <3>1. ~(n <= q) BY <1>3, <2>2
    <3>2. q \notin Bad BY <1>2, <3>1
    <3>3. QED BY <3>2 DEF Bad
  <2>4. Len64[m] = 7 + Len64[q]
    <3>1. m >= 128 /\ m \div 128 = q BY <1>3, <1>4, <1>7, <2>1, LowestBit
    <3>2. Len64[m] = 7 + Len64[m \div 128] BY <3>1, BitsOfGroup
    <3>3. QED BY <3>1, <3>2
  <2>5. sov(q) = (Len64[q] + 6) \div 7 /\ Len64[q] \in Nat
    BY <2>2, LowestBit, Len64Defined DEF sov
  <2>6. sov(n) = 1 + sov(q) BY <1>5, <2>4, <2>5
  <2>7. Len(encodeVarint[n]) = 1 + Len(encodeVarint[q])
    <3>1. encodeVarint[q] \in Seq(Nat) BY Varint
    <3>2. encodeVarint[n] = <<128 + (n % 128)>> \o encodeVarint[q] BY <1>3, <1>7, <2>1, Varint
    <3>3. QED BY <3>1, <3>2
  <2>8. QED BY <1>3, <2>3, <2>6, <2>7
<1>8. QED BY <1>3, <1>6, <1>7

-----------------------------------------------------------------------------
(* What is joined of parts, and how long it is.                            *)
(* A sequence of sequences is joined from the left.                        *)
LEMMA FlattenSteps ==
  ASSUME NEW S, NEW ss \in Seq(Seq(S)), Len(ss) > 0
  PROVE  \E fl \in [1..Len(ss) -> Seq(S)] :
           /\ fl[1] = ss[1]
           /\ \A i \in 1..Len(ss) : i > 1 => fl[i] = fl[i-1] \o ss[i]
           /\ FlattenSeq(ss) = fl[Len(ss)]
<1> DEFINE D == 1..Len(ss)
           V == Seq(S)
           p == [i \in D |-> IF i = 1 THEN 1 ELSE i - 1]
           step == [i \in D |-> [v \in V |-> IF i = 1 THEN ss[i] ELSE v \o ss[i]]]
           IsIt(f) == f = [i \in D |-> IF i = 1 THEN ss[i] ELSE f[i-1] \o ss[i]]
<1>0. /\ Len(ss) \in Nat /\ \A i \in D : ss[i] \in V /\ i \in Nat /\ i >= 1
      /\ 1 \in D /\ Len(ss) \in D
  OBVIOUS
<1>1. \A v, w \in V : v \o w \in V OBVIOUS
<1>2. \A i \in D : i # 1 => i - 1 \in D /\ i - 1 < i BY <1>0
<1>3. p \in [D -> D] /\ \A i \in D : p[i] = IF i = 1 THEN 1 ELSE i - 1 BY <1>0, <1>2
<1>4. /\ \A i \in D, v \in V : step[i][v] = IF i = 1 THEN ss[i] ELSE v \o ss[i]
      /\ step \in [D -> [V -> V]]
  <2> HIDE DEF D, V
  <2>1. \A i \in D, v \in V : (IF i = 1 THEN ss[i] ELSE v \o ss[i]) \in V BY <1>0, <1>1
  <2>2. QED BY <2>1
<1>5. D \in SUBSET Nat /\ V # {}
  <2>1. D \in SUBSET Nat BY <1>0
  <2>2. ss[1] \in V BY <1>0
  <2> HIDE DEF V, D
  <2>3. QED BY <2>1, <2>2
<1>10. \A f : FlattenSeq(ss) = (CHOOSE g : IsIt(g))[Len(ss)] BY DEF FlattenSeq
<1> HIDE DEF p, step, D, V
<1>6. IsRecursion(D, V, p, step)
  <2>1. \A i \in D : p[i] < i \/ \A v, w \in V : step[i][v] = step[i][w]
    <3>1. SUFFICES ASSUME NEW i \in D PROVE p[i] < i \/ \A v, w \in V : step[i][v] = step[i][w]
      OBVIOUS
    <3>2. CASE i = 1 BY <1>4, <3>2
    <3>3. CASE i # 1 BY <1>2, <1>3, <3>3
    <3>4. QED BY <3>2, <3>3
  <2>2. QED BY <1>3, <1>4, <1>5, <2>1 DEF IsRecursion
<1>7. PICK f : IsSolution(f, D, V, p, step) BY <1>6, Recursion
<1>8. f \in [D -> V] /\ \A i \in D : f[i] = IF i = 1 THEN ss[i] ELSE f[i-1] \o ss[i]
  <2>1. f \in [D -> V] /\ \A i \in D : f[i] = step[i][f[p[i]]] BY <1>7 DEF IsSolution
  <2>2. ASSUME NEW i \in D PROVE f[i] = IF i = 1 THEN ss[i] ELSE f[i-1] \o ss[i]
    <3>1. p[i] \in D /\ f[p[i]] \in V BY <1>3, <2>1
    <3>2. f[i] = IF i = 1 THEN ss[i] ELSE f[p[i]] \o ss[i] BY <1>4, <2>1, <3>1
    <3>3. QED BY <1>3, <3>2
  <2>3. QED BY <2>1, <2>2
<1>9. IsIt(f) BY <1>8
<1>11. \A g : IsIt(g) => g = f
  <2>1. SUFFICES ASSUME NEW g, IsIt(g) PROVE g = f OBVIOUS
  <2> DEFINE Bad == {i \in D : g[i] # f[i]}
  <2>2. SUFFICES ASSUME Bad # {} PROVE FALSE
    <3>1. DOMAIN g = D /\ DOMAIN f = D /\ g = [i \in D |-> g[i]] /\ f = [i \in D |-> f[i]]
      BY <1>8, <2>1
    <3>2. \A i \in D : g[i] = f[i] BY <2>2
    <3>3. QED BY <3>1, <3>2
  <2>3. PICK i \in Bad : \A j \in Bad : i <= j BY <1>5, <2>2, Least
  <2>4. i \in D /\ g[i] # f[i] BY <2>3
  <2>5. g[i] = IF i = 1 THEN ss[i] ELSE g[i-1] \o ss[i] BY <2>1, <2>4
  <2>6. i # 1 /\ g[i-1] # f[i-1] BY <1>8, <2>4, <2>5
  <2>7. i - 1 \in Bad /\ ~(i <= i - 1) BY <1>0, <1>2, <2>4, <2>6
  <2>8. QED BY <2>3, <2>7
<1> HIDE DEF IsIt
<1>12. FlattenSeq(ss) = f[Len(ss)]
  <2>1. (CHOOSE g : IsIt(g)) = f BY <1>9, <1>11
  <2>2. QED BY <1>10, <2>1
<1>13. QED
  <2>1. f[1] = ss[1] /\ \A i \in D : i > 1 => f[i] = f[i-1] \o ss[i] 
    <3>1. \A i \in D : i > 1 => i # 1 BY <1>0
    <3>2. 1 \in D BY <1>0
    <3>3. QED BY <1>8, <3>1, <3>2
  <2>2. QED BY <1>8, <1>12, <2>1 DEF D, V

(* What is joined is as long as its parts together.                        *)
LEMMA FlattenLength ==
  ASSUME NEW S, NEW ss \in Seq(Seq(S)), NEW l, DOMAIN l = DOMAIN ss,
         \A k \in DOMAIN ss : l[k] = Len(ss[k])
  PROVE  FlattenSeq(ss) \in Seq(S) /\ Len(FlattenSeq(ss)) = SumFunction(l)
<1>0. Len(ss) \in Nat /\ DOMAIN ss = 1..Len(ss) /\ \A k \in 1..Len(ss) : ss[k] \in Seq(S)
  OBVIOUS
<1>1. SumFunction(l) = SumFunctionOnSet(l, 1..Len(ss)) BY <1>0 DEF SumFunction
<1>2. CASE Len(ss) = 0
  <2>1. FlattenSeq(ss) = ss BY <1>2 DEF FlattenSeq
  <2>2. ss = <<>> BY <1>2
  <2>3. SumFunction(l) = 0 BY <1>1, <1>2, SumEmpty
  <2>4. <<>> \in Seq(S) /\ Len(<<>>) = 0 OBVIOUS
  <2>5. QED BY <2>1, <2>2, <2>3, <2>4
<1>3. CASE Len(ss) > 0
  <2>1. PICK fl \in [1..Len(ss) -> Seq(S)] :
          /\ fl[1] = ss[1]
          /\ \A i \in 1..Len(ss) : i > 1 => fl[i] = fl[i-1] \o ss[i]
          /\ FlattenSeq(ss) = fl[Len(ss)]
    BY <1>3, FlattenSteps
  <2> DEFINE Ok(i) == Len(fl[i]) = SumFunctionOnSet(l, 1..i)
             Bad == {i \in 1..Len(ss) : ~Ok(i)}
  <2>2. Bad = {}
    <3>1. SUFFICES ASSUME Bad # {} PROVE FALSE OBVIOUS
    <3>2. Bad \in SUBSET Nat BY <1>0
    <3>3. PICK i \in Bad : \A j \in Bad : i <= j BY <3>1, <3>2, Least
    <3>4. i \in 1..Len(ss) /\ ~Ok(i) BY <3>3
    <3>5. \A j \in 1..Len(ss) : j < i => Ok(j) BY <3>3
    <3> HIDE DEF Bad
    <3>6. \A k \in 1..i : l[k] \in Int /\ l[k] = Len(ss[k])
      <4>1. \A k \in 1..i : k \in 1..Len(ss) BY <1>0, <3>4
      <4>2. \A k \in 1..Len(ss) : l[k] = Len(ss[k]) BY <1>0
      <4>3. \A k \in 1..Len(ss) : Len(ss[k]) \in Int BY <1>0
      <4>4. QED BY <4>1, <4>2, <4>3
    <3>7. i \in Nat \ {0} /\ i \in 1..i BY <3>4
    <3>8. SumFunctionOnSet(l, 1..i) = l[i] + SumFunctionOnSet(l, 1..i-1)
      BY <3>6, <3>7, SumLast
    <3>9. CASE i = 1
      <4>1. SumFunctionOnSet(l, 1..i-1) = 0
        <5>1. 1..i-1 = {} BY <3>9
        <5>2. QED BY <5>1, SumEmpty
      <4>2. SumFunctionOnSet(l, 1..i) = l[1] BY <3>6, <3>7, <3>8, <3>9, <4>1
      <4>3. QED BY <2>1, <3>4, <3>6, <3>7, <3>9, <4>2
    <3>10. CASE i # 1
      <4>1. i - 1 \in 1..Len(ss) /\ i - 1 < i /\ i > 1 BY <1>0, <3>4, <3>10
      <4>2. Len(fl[i-1]) = SumFunctionOnSet(l, 1..i-1) BY <3>5, <4>1
      <4>3. fl[i] = fl[i-1] \o ss[i] BY <2>1, <3>4, <4>1
      <4>4. fl[i-1] \in Seq(S) /\ ss[i] \in Seq(S) BY <1>0, <2>1, <3>4, <4>1
      <4>5. Len(fl[i]) = Len(fl[i-1]) + Len(ss[i]) BY <4>3, <4>4
      <4>6. Len(fl[i-1]) \in Int /\ Len(ss[i]) \in Int BY <4>4
      <4>7. QED BY <3>4, <3>6, <3>7, <3>8, <4>2, <4>5, <4>6
    <3>11. QED BY <3>9, <3>10
  <2>3. Len(ss) \in 1..Len(ss) BY <1>0, <1>3
  <2>4. Ok(Len(ss)) BY <2>2, <2>3
  <2>5. QED BY <1>1, <2>1, <2>3, <2>4
<1>4. QED BY <1>0, <1>2, <1>3

-----------------------------------------------------------------------------
(* The types nest in no more than two steps, so that the three levels of   *)
(* the encoder and of the size are their recursion.                        *)
(* The types that embed none, and those that embed only such types.        *)
IsFlat(t) == EmbeddedTypes(t) = {}
IsNested(t) == \A u \in EmbeddedTypes(t) : IsFlat(u)

(* Embedded types exist and nest one level less.                           *)
LEMMA Nesting ==
  ASSUME NEW t \in DOMAIN Schema
  PROVE  /\ \A u \in EmbeddedTypes(t) : u \in DOMAIN Schema /\ IsNested(u)
         /\ \A f \in DOMAIN Schema[t] :
              Schema[t][f].kind = "message" => Schema[t][f].of \in EmbeddedTypes(t)
BY NestingAssumption, WireAssumption DEF IsNested, IsFlat, EmbeddedTypes

-----------------------------------------------------------------------------
(* The encoder of a type calls the encoders of the types it embeds.        *)
LEMMA MarshalCalls ==
  ASSUME NEW t \in DOMAIN Schema, NEW m
  PROVE  MarshalToSizedBuffer(t, m) = Marshal(MarshalToSizedBuffer, t, m)
<1>1. ASSUME NEW u \in DOMAIN Schema, IsFlat(u), NEW n
      PROVE  /\ MarshalFlat(u, n) = MarshalNested(u, n)
             /\ MarshalFlat(u, n) = MarshalToSizedBuffer(u, n)
  <2>1. \A f \in DOMAIN Schema[u] : Schema[u][f].kind # "message"
    BY <1>1, Nesting DEF IsFlat
  <2>2. \A f \in DOMAIN Schema[u] : \A v :
          /\ Bytes(MarshalNothing, Schema[u][f], v) = Bytes(MarshalFlat, Schema[u][f], v)
          /\ Bytes(MarshalNothing, Schema[u][f], v) = Bytes(MarshalNested, Schema[u][f], v)
    BY <2>1 DEF Bytes
  <2>3. /\ Marshal(MarshalNothing, u, n) = Marshal(MarshalFlat, u, n)
        /\ Marshal(MarshalNothing, u, n) = Marshal(MarshalNested, u, n)
    BY <2>2 DEF Marshal
  <2>4. QED BY <2>3 DEF MarshalFlat, MarshalNested, MarshalToSizedBuffer
<1>2. ASSUME NEW u \in DOMAIN Schema, IsNested(u), NEW n
      PROVE  MarshalNested(u, n) = MarshalToSizedBuffer(u, n)
  <2>1. \A f \in DOMAIN Schema[u] : \A v :
          Schema[u][f].kind = "message" =>
            MarshalFlat(Schema[u][f].of, v) = MarshalNested(Schema[u][f].of, v)
    BY <1>1, <1>2, Nesting DEF IsNested
  <2>2. \A f \in DOMAIN Schema[u] : \A v :
          Bytes(MarshalFlat, Schema[u][f], v) = Bytes(MarshalNested, Schema[u][f], v)
    BY <2>1 DEF Bytes
  <2>3. Marshal(MarshalFlat, u, n) = Marshal(MarshalNested, u, n) BY <2>2 DEF Marshal
  <2>4. QED BY <2>3 DEF MarshalNested, MarshalToSizedBuffer
<1>3. \A f \in DOMAIN Schema[t] : \A v :
        Schema[t][f].kind = "message" =>
          MarshalNested(Schema[t][f].of, v) = MarshalToSizedBuffer(Schema[t][f].of, v)
  BY <1>2, Nesting
<1>4. \A f \in DOMAIN Schema[t] : \A v :
        Bytes(MarshalNested, Schema[t][f], v) = Bytes(MarshalToSizedBuffer, Schema[t][f], v)
  BY <1>3 DEF Bytes
<1>5. Marshal(MarshalNested, t, m) = Marshal(MarshalToSizedBuffer, t, m)
  BY <1>4 DEF Marshal
<1>6. QED BY <1>5 DEF MarshalToSizedBuffer

(* And so does the size.                                                   *)
LEMMA SizeCalls ==
  ASSUME NEW t \in DOMAIN Schema, NEW m
  PROVE  Size(t, m) = SizeOf(Size, t, m)
<1>1. ASSUME NEW u \in DOMAIN Schema, IsFlat(u), NEW n
      PROVE  SizeFlat(u, n) = SizeNested(u, n) /\ SizeFlat(u, n) = Size(u, n)
  <2>1. \A f \in DOMAIN Schema[u] : Schema[u][f].kind # "message"
    BY <1>1, Nesting DEF IsFlat
  <2>2. \A f \in DOMAIN Schema[u] : \A v :
          /\ Count(SizeNothing, Schema[u][f], v) = Count(SizeFlat, Schema[u][f], v)
          /\ Count(SizeNothing, Schema[u][f], v) = Count(SizeNested, Schema[u][f], v)
    BY <2>1 DEF Count
  <2>3. /\ SizeOf(SizeNothing, u, n) = SizeOf(SizeFlat, u, n)
        /\ SizeOf(SizeNothing, u, n) = SizeOf(SizeNested, u, n)
    BY <2>2 DEF SizeOf
  <2>4. QED BY <2>3 DEF SizeFlat, SizeNested, Size
<1>2. ASSUME NEW u \in DOMAIN Schema, IsNested(u), NEW n
      PROVE  SizeNested(u, n) = Size(u, n)
  <2>1. \A f \in DOMAIN Schema[u] : \A v :
          Schema[u][f].kind = "message" =>
            SizeFlat(Schema[u][f].of, v) = SizeNested(Schema[u][f].of, v)
    BY <1>1, <1>2, Nesting DEF IsNested
  <2>2. \A f \in DOMAIN Schema[u] : \A v :
          Count(SizeFlat, Schema[u][f], v) = Count(SizeNested, Schema[u][f], v)
    BY <2>1 DEF Count
  <2>3. SizeOf(SizeFlat, u, n) = SizeOf(SizeNested, u, n) BY <2>2 DEF SizeOf
  <2>4. QED BY <2>3 DEF SizeNested, Size
<1>3. \A f \in DOMAIN Schema[t] : \A v :
        Schema[t][f].kind = "message" =>
          SizeNested(Schema[t][f].of, v) = Size(Schema[t][f].of, v)
  BY <1>2, Nesting
<1>4. \A f \in DOMAIN Schema[t] : \A v :
        Count(SizeNested, Schema[t][f], v) = Count(Size, Schema[t][f], v)
  BY <1>3 DEF Count
<1>5. SizeOf(SizeNested, t, m) = SizeOf(Size, t, m) BY <1>4 DEF SizeOf
<1>6. QED BY <1>5 DEF Size

-----------------------------------------------------------------------------
(* The messages of a type, by the same three levels.                       *)
(* A value of a field, given which messages are of the types it embeds.    *)
IsValue(Inner(_, _), field, v) ==
  CASE field.kind = "bool" -> v \in BOOLEAN
    [] field.kind = "uint" -> v \in Nat
    [] field.kind = "bytes" -> v \in Seq(Nat)
    [] field.kind = "number" -> v = Nil \/ v \in Range(Decimal)
    [] field.kind = "message" -> Inner(field.of, v)

IsField(Inner(_, _), field, x) ==
  IF field.many
  THEN (\E S : x \in Seq(S)) /\ \A i \in DOMAIN x : IsValue(Inner, field, x[i])
  ELSE \/ IsValue(Inner, field, x)
       \/ field.kind = "message" /\ field.optional /\ x = Nil

HasFields(Inner(_, _), t, m) ==
  /\ m = [f \in DOMAIN Schema[t] |-> m[f]]
  /\ \A f \in DOMAIN Schema[t] : IsField(Inner, Schema[t][f], m[f])

IsAnything(t, m) == TRUE
IsFlatMessage(t, m) == HasFields(IsAnything, t, m)
IsNestedMessage(t, m) == HasFields(IsFlatMessage, t, m)

(* m is a message of type t: what its decoder makes.                       *)
IsMessage(t, m) == HasFields(IsNestedMessage, t, m)

(* A message is one whose fields have values, embedded messages included.  *)
LEMMA MessageFields ==
  ASSUME NEW t \in DOMAIN Schema, NEW m
  PROVE  IsMessage(t, m) <=> HasFields(IsMessage, t, m)
<1>1. ASSUME NEW u \in DOMAIN Schema, IsFlat(u), NEW n
      PROVE  /\ IsFlatMessage(u, n) <=> IsNestedMessage(u, n)
             /\ IsFlatMessage(u, n) <=> IsMessage(u, n)
  <2>1. \A f \in DOMAIN Schema[u] : Schema[u][f].kind # "message"
    BY <1>1, Nesting DEF IsFlat
  <2>2. \A f \in DOMAIN Schema[u] : \A v :
          /\ IsValue(IsAnything, Schema[u][f], v) <=> IsValue(IsFlatMessage, Schema[u][f], v)
          /\ IsValue(IsAnything, Schema[u][f], v) <=> IsValue(IsNestedMessage, Schema[u][f], v)
    BY <2>1 DEF IsValue
  <2>3. /\ HasFields(IsAnything, u, n) <=> HasFields(IsFlatMessage, u, n)
        /\ HasFields(IsAnything, u, n) <=> HasFields(IsNestedMessage, u, n)
    BY <2>2 DEF HasFields, IsField
  <2>4. QED BY <2>3 DEF IsFlatMessage, IsNestedMessage, IsMessage
<1>2. ASSUME NEW u \in DOMAIN Schema, IsNested(u), NEW n
      PROVE  IsNestedMessage(u, n) <=> IsMessage(u, n)
  <2>1. \A f \in DOMAIN Schema[u] : \A v :
          Schema[u][f].kind = "message" =>
            (IsFlatMessage(Schema[u][f].of, v) <=> IsNestedMessage(Schema[u][f].of, v))
    BY <1>1, <1>2, Nesting DEF IsNested
  <2>2. \A f \in DOMAIN Schema[u] : \A v :
          IsValue(IsFlatMessage, Schema[u][f], v) <=> IsValue(IsNestedMessage, Schema[u][f], v)
    BY <2>1 DEF IsValue
  <2>3. HasFields(IsFlatMessage, u, n) <=> HasFields(IsNestedMessage, u, n)
    BY <2>2 DEF HasFields, IsField
  <2>4. QED BY <2>3 DEF IsNestedMessage, IsMessage
<1>3. \A f \in DOMAIN Schema[t] : \A v :
        Schema[t][f].kind = "message" =>
          (IsNestedMessage(Schema[t][f].of, v) <=> IsMessage(Schema[t][f].of, v))
  BY <1>2, Nesting
<1>4. \A f \in DOMAIN Schema[t] : \A v :
        IsValue(IsNestedMessage, Schema[t][f], v) <=> IsValue(IsMessage, Schema[t][f], v)
  BY <1>3 DEF IsValue
<1>5. HasFields(IsNestedMessage, t, m) <=> HasFields(IsMessage, t, m)
  BY <1>4 DEF HasFields, IsField
<1>6. QED BY <1>5 DEF IsMessage

-----------------------------------------------------------------------------
(* The tables agree on field f: it is written and counted on the same      *)
(* condition, which is that of its kind, behind one byte of tag.           *)
FieldAgrees(f, field, writes, counts) ==
  /\ writes.tag = 8 * f + Wanted(field.kind) /\ writes.tag < 128 /\ counts.tag = 1
  /\ writes.when = counts.when
  /\ IF field.many THEN writes.when = "each" ELSE writes.when \in {"always", "set"}
  /\ field.kind = "message" /\ ~field.many => (field.optional <=> writes.when = "set")
  /\ field.kind = "bool" => ~field.many /\ writes.when = "set"
  /\ field.kind = "number" => ~field.many /\ writes.when = "always"

Agree(fields, writes, counts) ==
  /\ DOMAIN writes = DOMAIN fields /\ DOMAIN counts = DOMAIN fields
  /\ \A f \in DOMAIN fields : FieldAgrees(f, fields[f], writes[f], counts[f])

TablesAgree == \A t \in DOMAIN Schema : Agree(Schema[t], Writes[t], Counts[t])

(* The type of the field of a type.                                        *)
LEMMA FieldTypeOf ==
  ASSUME NEW t \in DOMAIN Schema, NEW f \in DOMAIN Schema[t]
  PROVE  /\ Schema[t][f].kind \in {"bytes", "bool", "uint", "number", "message"}
         /\ Schema[t][f].many \in BOOLEAN /\ Schema[t][f].optional \in BOOLEAN
         /\ f \in Nat \ {0} /\ Len(Schema[t]) \in Nat /\ DOMAIN Schema[t] = 1..Len(Schema[t])
<1>1. PICK fields \in Seq(FieldType) : fields = Schema[t] BY WireAssumption
<1>2. /\ DOMAIN fields = 1..Len(fields) /\ Len(fields) \in Nat
      /\ \A g \in 1..Len(fields) : fields[g] \in FieldType
  OBVIOUS
<1>3. fields[f] \in FieldType /\ f \in Nat \ {0} BY <1>1, <1>2
<1>4. QED BY <1>1, <1>2, <1>3 DEF FieldType

(* The values a field is written for are its values.                       *)
LEMMA ChosenValues ==
  ASSUME TablesAgree, NEW t \in DOMAIN Schema, NEW m, IsMessage(t, m),
         NEW f \in DOMAIN Schema[t]
  PROVE  LET w == Chosen(Writes[t][f].when, Schema[t][f], m[f]) IN
         /\ \E S : w \in Seq(S)
         /\ \A i \in DOMAIN w : IsValue(IsMessage, Schema[t][f], w[i])
<1> DEFINE field == Schema[t][f]
           when == Writes[t][f].when
           w == Chosen(when, field, m[f])
<1>1. FieldAgrees(f, field, Writes[t][f], Counts[t][f]) BY DEF TablesAgree, Agree
<1>2. IsField(IsMessage, field, m[f]) BY MessageFields DEF HasFields
<1>3. field.many \in BOOLEAN BY FieldTypeOf
<1> HIDE DEF field
<1>4. CASE field.many
  <2>1. w = m[f] BY <1>1, <1>4 DEF FieldAgrees, Chosen
  <2>2. QED BY <1>2, <1>4, <2>1 DEF IsField, field
<1>5. CASE ~field.many
  <2>1. when = "always" \/ when = "set" BY <1>1, <1>5 DEF FieldAgrees
  <2>2. w = <<>> \/ (w = <<m[f]>> /\ (when = "set" => m[f] # ZeroOf(field)))
    BY <2>1 DEF Chosen
  <2>3. CASE w = <<>> BY <2>3 DEF field
  <2>4. CASE w = <<m[f]>> /\ (when = "set" => m[f] # ZeroOf(field))
    <3>1. IsValue(IsMessage, field, m[f])
      <4>1. SUFFICES ASSUME field.kind = "message" /\ field.optional /\ m[f] = Nil PROVE FALSE
        BY <1>2, <1>5 DEF IsField
      <4>2. when = "set" BY <1>1, <1>5, <4>1 DEF FieldAgrees
      <4>3. ZeroOf(field) = Nil BY <1>5, <4>1 DEF ZeroOf
      <4>4. QED BY <2>4, <4>1, <4>2, <4>3
    <3>2. w \in Seq({m[f]}) /\ \A i \in DOMAIN w : w[i] = m[f] BY <2>4
    <3>3. QED BY <3>1, <3>2 DEF field
  <2>5. QED BY <2>2, <2>3, <2>4
<1>6. QED BY <1>3, <1>4, <1>5

-----------------------------------------------------------------------------
(* What Size returns is what MarshalToSizedBuffer writes.                  *)
IsFilled(t, m) ==
  /\ MarshalToSizedBuffer(t, m) \in Seq(Nat)
  /\ Size(t, m) = Len(MarshalToSizedBuffer(t, m))

LEMMA DigitBytes == \A v : v = Nil \/ v \in Range(Decimal) => DigitsOf(v) \in Seq(Nat)
BY DigitsAssumption DEF DigitsOf

(* A value with its length in front is as long as it is counted.           *)
LEMMA PrefixCounted ==
  ASSUME High = 128, NEW t \in DOMAIN Schema, NEW f \in DOMAIN Schema[t], NEW b \in Seq(Nat)
  PROVE  /\ Prefixed(Schema[t][f], b) \in Seq(Nat)
         /\ Len(Prefixed(Schema[t][f], b)) = WithPrefix(Schema[t][f], Len(b))
<1>1. Len(b) \in Nat OBVIOUS
<1>2. encodeVarint[Len(b)] \in Seq(Nat) /\ sov(Len(b)) = Len(encodeVarint[Len(b)])
  BY <1>1, Varint, SovCorrect
<1> DEFINE e == encodeVarint[Len(b)]
<1> HIDE DEF e
<1>3. e \in Seq(Nat) /\ sov(Len(b)) = Len(e) BY <1>2 DEF e
<1>4. e \o b \in Seq(Nat) /\ Len(e \o b) = Len(b) + Len(e) BY <1>3
<1>5. /\ Prefixed(Schema[t][f], b) = IF Wanted(Schema[t][f].kind) = 0 THEN b ELSE e \o b
      /\ WithPrefix(Schema[t][f], Len(b)) =
           IF Wanted(Schema[t][f].kind) = 0 THEN Len(b) ELSE Len(b) + sov(Len(b))
  BY DEF Prefixed, WithPrefix, e
<1>6. QED BY <1>3, <1>4, <1>5

(* If embedded messages are counted as they are written, so is a message.  *)
LEMMA FilledIfInner ==
  ASSUME High = 128, TablesAgree, NEW t \in DOMAIN Schema, NEW m, IsMessage(t, m),
         \A u \in EmbeddedTypes(t) : \A v : IsMessage(u, v) => IsFilled(u, v)
  PROVE  IsFilled(t, m)
<1> DEFINE fields == Schema[t]
           w == Values(Writes, t, m)
           b(f) == [i \in DOMAIN w[f] |-> Bytes(MarshalToSizedBuffer, fields[f], w[f][i])]
           c(f) == [i \in DOMAIN w[f] |-> Count(Size, fields[f], w[f][i])]
<1>1. Values(Counts, t, m) = w
  BY DEF Values, TablesAgree, Agree, FieldAgrees
<1>2. \A f \in DOMAIN fields :
        /\ \E S : w[f] \in Seq(S)
        /\ \A i \in DOMAIN w[f] : IsValue(IsMessage, fields[f], w[f][i])
  BY ChosenValues DEF Values
<1>3. \A f \in DOMAIN fields : \A v : IsValue(IsMessage, fields[f], v) =>
        /\ Bytes(MarshalToSizedBuffer, fields[f], v) \in Seq(Nat)
        /\ Count(Size, fields[f], v) = Len(Bytes(MarshalToSizedBuffer, fields[f], v))
  <2>1. SUFFICES ASSUME NEW f \in DOMAIN fields, NEW v, IsValue(IsMessage, fields[f], v)
                 PROVE  /\ Bytes(MarshalToSizedBuffer, fields[f], v) \in Seq(Nat)
                        /\ Count(Size, fields[f], v)
                             = Len(Bytes(MarshalToSizedBuffer, fields[f], v))
    OBVIOUS
  <2>2. CASE fields[f].kind = "bool"
    <3>1. <<1>> \in Seq(Nat) /\ Len(<<1>>) = 1 OBVIOUS
    <3>2. QED BY <2>2, <3>1 DEF Bytes, Count
  <2>3. CASE fields[f].kind = "uint"
    <3>1. v \in Nat BY <2>1, <2>3 DEF IsValue
    <3>2. encodeVarint[v] \in Seq(Nat) /\ sov(v) = Len(encodeVarint[v])
      BY <3>1, Varint, SovCorrect
    <3>3. QED BY <2>3, <3>2 DEF Bytes, Count
  <2>4. CASE fields[f].kind = "bytes" BY <2>1, <2>4 DEF IsValue, Bytes, Count
  <2>5. CASE fields[f].kind = "number" BY <2>1, <2>5, DigitBytes DEF IsValue, Bytes, Count
  <2>6. CASE fields[f].kind = "message"
    <3>1. IsFilled(fields[f].of, v) BY <2>1, <2>6, Nesting DEF IsValue
    <3>2. QED BY <2>6, <3>1 DEF IsFilled, Bytes, Count
  <2>7. QED BY <2>2, <2>3, <2>4, <2>5, <2>6, FieldTypeOf
<1>4. \A f \in DOMAIN fields :
        Written(t, f, b(f)) \in Seq(Nat) /\ Len(Written(t, f, b(f))) = Counted(t, f, c(f))
  <2>1. SUFFICES ASSUME NEW f \in DOMAIN fields
                 PROVE  /\ Written(t, f, b(f)) \in Seq(Nat)
                        /\ Len(Written(t, f, b(f))) = Counted(t, f, c(f))
    OBVIOUS
  <2>2. PICK n \in Nat : DOMAIN w[f] = 1..n BY <1>2
  <2>3. PICK tag \in Nat : tag = Writes[t][f].tag /\ Counts[t][f].tag = 1
    <3>1. FieldAgrees(f, fields[f], Writes[t][f], Counts[t][f]) BY DEF TablesAgree, Agree
    <3>2. QED BY <3>1, FieldTypeOf DEF FieldAgrees, Wanted
  <2> DEFINE ss == [i \in 1..n |-> <<tag>> \o Prefixed(fields[f], b(f)[i])]
             l == [i \in 1..n |-> 1 + WithPrefix(fields[f], c(f)[i])]
  <2>4. ASSUME NEW i \in 1..n
        PROVE  /\ <<tag>> \o Prefixed(fields[f], b(f)[i]) \in Seq(Nat)
               /\ Len(<<tag>> \o Prefixed(fields[f], b(f)[i]))
                    = 1 + WithPrefix(fields[f], c(f)[i])
    <3>1. b(f)[i] \in Seq(Nat) /\ c(f)[i] = Len(b(f)[i]) BY <1>2, <1>3, <2>2
    <3> HIDE DEF b, c
    <3>2. PICK q \in Seq(Nat) : /\ q = Prefixed(fields[f], b(f)[i])
                                /\ Len(q) = WithPrefix(fields[f], c(f)[i])
      BY <3>1, PrefixCounted
    <3>3. <<tag>> \o q \in Seq(Nat) /\ Len(<<tag>> \o q) = 1 + Len(q) OBVIOUS
    <3>4. QED BY <3>2, <3>3
  <2>5. Written(t, f, b(f)) = FlattenSeq(ss) /\ Counted(t, f, c(f)) = SumFunction(l)
    <3>1. DOMAIN b(f) = 1..n /\ DOMAIN c(f) = 1..n BY <2>2
    <3> HIDE DEF b, c
    <3>2. QED BY <2>3, <3>1 DEF Written, Counted
  <2>6. ss \in Seq(Seq(Nat)) /\ DOMAIN l = DOMAIN ss /\ \A k \in DOMAIN ss : l[k] = Len(ss[k])
    <3> HIDE DEF b, c
    <3>1. ss \in [1..n -> Seq(Nat)] BY <2>4
    <3>2. DOMAIN l = 1..n /\ \A k \in 1..n : l[k] = Len(ss[k]) BY <2>4
    <3> HIDE DEF ss, l
    <3>3. ss \in Seq(Seq(Nat)) /\ DOMAIN ss = 1..n BY <3>1
    <3>4. QED BY <3>2, <3>3
  <2> HIDE DEF ss, l
  <2>7. QED BY <2>5, <2>6, FlattenLength
<1> DEFINE ss == [f \in DOMAIN fields |-> Written(t, f, b(f))]
           l == [f \in DOMAIN fields |-> Counted(t, f, c(f))]
<1>5. MarshalToSizedBuffer(t, m) = FlattenSeq(ss) /\ Size(t, m) = SumFunction(l)
  <2>1. MarshalToSizedBuffer(t, m) = FlattenSeq(ss) BY MarshalCalls DEF Marshal
  <2>2. Size(t, m) = SumFunction(l) BY <1>1, SizeCalls DEF SizeOf
  <2>3. QED BY <2>1, <2>2
<1> HIDE DEF b, c
<1>6. ss \in Seq(Seq(Nat)) /\ DOMAIN l = DOMAIN ss /\ \A k \in DOMAIN ss : l[k] = Len(ss[k])
  <2>1. PICK n \in Nat : DOMAIN fields = 1..n BY WireAssumption
  <2>2. ss = [f \in 1..n |-> Written(t, f, b(f))] /\ l = [f \in 1..n |-> Counted(t, f, c(f))]
    BY <2>1
  <2>3. ss \in [1..n -> Seq(Nat)] /\ \A k \in 1..n : ss[k] = Written(t, k, b(k))
    BY <1>4, <2>1, <2>2
  <2>4. DOMAIN l = 1..n /\ \A k \in 1..n : l[k] = Counted(t, k, c(k)) BY <2>2
  <2> HIDE DEF ss, l
  <2>5. ss \in Seq(Seq(Nat)) /\ DOMAIN ss = 1..n BY <2>3
  <2>6. QED BY <1>4, <2>1, <2>3, <2>4, <2>5
<1> HIDE DEF ss, l
<1>7. QED BY <1>5, <1>6, FlattenLength DEF IsFilled

(* So are all messages, by the three levels.                               *)
LEMMA MessagesAreFilled ==
  High = 128 /\ TablesAgree =>
    \A t \in DOMAIN Schema : \A m : IsMessage(t, m) => IsFilled(t, m)
<1> SUFFICES ASSUME High = 128, TablesAgree
             PROVE  \A t \in DOMAIN Schema : \A m : IsMessage(t, m) => IsFilled(t, m)
  OBVIOUS
<1>1. \A t \in DOMAIN Schema : \A m : IsFlat(t) /\ IsMessage(t, m) => IsFilled(t, m)
  BY FilledIfInner DEF IsFlat
<1>2. \A t \in DOMAIN Schema : \A m : IsNested(t) /\ IsMessage(t, m) => IsFilled(t, m)
  BY <1>1, Nesting, FilledIfInner DEF IsNested
<1>3. QED BY <1>2, Nesting, FilledIfInner

-----------------------------------------------------------------------------
(* How fields of every kind are written and counted.                       *)
LEMMA FieldKinds ==
  \A f \in 1..15 :
    /\ FieldAgrees(f, String, IfSet(8 * f + 2), IfSet(1))
    /\ FieldAgrees(f, Strings, Each(8 * f + 2), Each(1))
    /\ FieldAgrees(f, Bool, IfSet(8 * f), IfSet(1))
    /\ FieldAgrees(f, Uint, IfSet(8 * f), IfSet(1))
    /\ FieldAgrees(f, Number, Always(8 * f + 2), Always(1))
    /\ \A u : /\ FieldAgrees(f, Embedded(u), Always(8 * f + 2), Always(1))
              /\ FieldAgrees(f, Pointer(u), IfSet(8 * f + 2), IfSet(1))
              /\ FieldAgrees(f, List(u), Each(8 * f + 2), Each(1))
BY DEF FieldAgrees, IfSet, Each, Always, String, Strings, Bool, Uint, Number,
       Embedded, Pointer, List, Plain, Wanted

-----------------------------------------------------------------------------
(* The types of the chain, by the fields they have.                        *)
StringAndNumber ==
  {"Coin", "DecCoin", "TariffDistributionEntity"}
OneMessage ==
  {"GlobalFeeGenesisState", "GlobalFeeQueryParamsResponse", "TariffGenesisState",
  "TariffQueryParamsResponse", "QueryParamsResponse", "QueryGetBlacklistedResponse",
  "QueryGetPausedResponse", "QueryGetMasterMinterResponse",
  "QueryGetMintersResponse", "QueryGetPauserResponse",
  "QueryGetBlacklisterResponse", "QueryGetOwnerResponse",
  "QueryGetMinterControllerResponse", "QueryGetMintingDenomResponse"}
NoFields ==
  {"GlobalFeeQueryParamsRequest", "TariffQueryParamsRequest", "Params",
  "QueryParamsRequest", "QueryGetPausedRequest", "QueryGetMasterMinterRequest",
  "QueryGetPauserRequest", "QueryGetBlacklisterRequest", "QueryGetOwnerRequest",
  "QueryGetMintingDenomRequest", "MsgUpdateMasterMinterResponse",
  "MsgUpdatePauserResponse", "MsgUpdateBlacklisterResponse",
  "MsgUpdateOwnerResponse", "MsgAcceptOwnerResponse", "MsgConfigureMinterResponse",
  "MsgRemoveMinterResponse", "MsgMintResponse", "MsgBurnResponse",
  "MsgBlacklistResponse", "MsgUnblacklistResponse", "MsgPauseResponse",
  "MsgUnpauseResponse", "MsgConfigureMinterControllerResponse",
  "MsgRemoveMinterControllerResponse"}
OneString ==
  {"Blacklisted", "Blacklister", "MasterMinter", "MintingDenom", "Owner", "Pauser",
  "QueryGetBlacklistedRequest", "QueryGetMintersRequest",
  "QueryGetMinterControllerRequest", "MsgAcceptOwner", "MsgPause", "MsgUnpause"}
TwoStrings ==
  {"MinterController", "MsgUpdateMasterMinter", "MsgUpdatePauser",
  "MsgUpdateBlacklister", "MsgUpdateOwner", "MsgRemoveMinter", "MsgBlacklist",
  "MsgUnblacklist", "MsgRemoveMinterController"}
StringAndCoin ==
  {"Minters", "MsgBurn"}
OnePointer ==
  {"QueryAllBlacklistedRequest", "QueryAllMintersRequest",
  "QueryAllMinterControllerRequest"}
PageOfMessages ==
  {"QueryAllBlacklistedResponse", "QueryAllMintersResponse",
  "QueryAllMinterControllerResponse"}
StringsAndCoin ==
  {"MsgConfigureMinter", "MsgMint"}
OtherTypes ==
  {"PageRequest", "PageResponse", "GlobalFeeParams", "TariffParams", "GenesisState",
  "Paused", "MsgConfigureMinterController"}

LEMMA EveryType ==
  DOMAIN MessageTypes =
    StringAndNumber \cup OneMessage \cup NoFields \cup OneString \cup TwoStrings
    \cup StringAndCoin \cup OnePointer \cup PageOfMessages \cup StringsAndCoin \cup
    OtherTypes
BY DEF MessageTypes, StringAndNumber, OneMessage, NoFields, OneString, TwoStrings,
       StringAndCoin, OnePointer, PageOfMessages, StringsAndCoin, OtherTypes

(* The tables agree on every field of every type.                          *)
LEMMA FieldsOfTypes ==
  \A t \in DOMAIN MessageTypes : Agree(MessageTypes[t], MessageWrites[t], MessageCounts[t])
<1>1. ASSUME NEW t \in StringAndNumber
      PROVE  Agree(MessageTypes[t], MessageWrites[t], MessageCounts[t])
  <2>1. /\ MessageTypes[t] = <<String, Number>>
        /\ MessageWrites[t] = <<IfSet(10), Always(18)>>
        /\ MessageCounts[t] = <<IfSet(1), Always(1)>>
    BY DEF MessageTypes, MessageWrites, MessageCounts, StringAndNumber, Coin,
           CoinWrites, CoinCounts, DecCoin, DecCoinWrites, DecCoinCounts,
           TariffDistributionEntity, TariffDistributionEntityWrites,
           TariffDistributionEntityCounts
  <2>2. QED BY <2>1, FieldKinds DEF Agree
<1>2. ASSUME NEW t \in OneMessage
      PROVE  Agree(MessageTypes[t], MessageWrites[t], MessageCounts[t])
  <2>1. /\ MessageWrites[t] = <<Always(10)>>
        /\ MessageCounts[t] = <<Always(1)>>
    BY DEF MessageWrites, MessageCounts, OneMessage,
           GlobalFeeGenesisState, GlobalFeeGenesisStateWrites,
           GlobalFeeGenesisStateCounts, GlobalFeeQueryParamsResponse,
           GlobalFeeQueryParamsResponseWrites, GlobalFeeQueryParamsResponseCounts,
           TariffGenesisState, TariffGenesisStateWrites, TariffGenesisStateCounts,
           TariffQueryParamsResponse, TariffQueryParamsResponseWrites,
           TariffQueryParamsResponseCounts, QueryParamsResponse,
           QueryParamsResponseWrites, QueryParamsResponseCounts,
           QueryGetBlacklistedResponse, QueryGetBlacklistedResponseWrites,
           QueryGetBlacklistedResponseCounts, QueryGetPausedResponse,
           QueryGetPausedResponseWrites, QueryGetPausedResponseCounts,
           QueryGetMasterMinterResponse, QueryGetMasterMinterResponseWrites,
           QueryGetMasterMinterResponseCounts, QueryGetMintersResponse,
           QueryGetMintersResponseWrites, QueryGetMintersResponseCounts,
           QueryGetPauserResponse, QueryGetPauserResponseWrites,
           QueryGetPauserResponseCounts, QueryGetBlacklisterResponse,
           QueryGetBlacklisterResponseWrites, QueryGetBlacklisterResponseCounts,
           QueryGetOwnerResponse, QueryGetOwnerResponseWrites,
           QueryGetOwnerResponseCounts, QueryGetMinterControllerResponse,
           QueryGetMinterControllerResponseWrites,
           QueryGetMinterControllerResponseCounts, QueryGetMintingDenomResponse,
           QueryGetMintingDenomResponseWrites, QueryGetMintingDenomResponseCounts
  <2>2. MessageTypes[t] \in
          {<<Embedded("GlobalFeeParams")>>, <<Embedded("TariffParams")>>, <<Embedded("Params")>>,
           <<Embedded("Blacklisted")>>, <<Embedded("Paused")>>, <<Embedded("MasterMinter")>>,
           <<Embedded("Minters")>>, <<Embedded("Pauser")>>, <<Embedded("Blacklister")>>,
           <<Embedded("Owner")>>, <<Embedded("MinterController")>>, <<Embedded("MintingDenom")>>}
    BY DEF MessageTypes, OneMessage, GlobalFeeGenesisState, GlobalFeeQueryParamsResponse,
           TariffGenesisState,
           TariffQueryParamsResponse, QueryParamsResponse, QueryGetBlacklistedResponse,
           QueryGetPausedResponse, QueryGetMasterMinterResponse, QueryGetMintersResponse,
           QueryGetPauserResponse, QueryGetBlacklisterResponse, QueryGetOwnerResponse,
           QueryGetMinterControllerResponse, QueryGetMintingDenomResponse
  <2>3. \E u : MessageTypes[t] = <<Embedded(u)>> BY <2>2
  <2>4. QED BY <2>1, <2>3, FieldKinds DEF Agree
<1>3. ASSUME NEW t \in NoFields
      PROVE  Agree(MessageTypes[t], MessageWrites[t], MessageCounts[t])
  <2>1. /\ MessageTypes[t] = <<>>
        /\ MessageWrites[t] = <<>>
        /\ MessageCounts[t] = <<>>
    BY DEF MessageTypes, MessageWrites, MessageCounts, NoFields,
           GlobalFeeQueryParamsRequest, GlobalFeeQueryParamsRequestWrites,
           GlobalFeeQueryParamsRequestCounts, TariffQueryParamsRequest,
           TariffQueryParamsRequestWrites, TariffQueryParamsRequestCounts, Params,
           ParamsWrites, ParamsCounts, QueryParamsRequest, QueryParamsRequestWrites,
           QueryParamsRequestCounts, QueryGetPausedRequest,
           QueryGetPausedRequestWrites, QueryGetPausedRequestCounts,
           QueryGetMasterMinterRequest, QueryGetMasterMinterRequestWrites,
           QueryGetMasterMinterRequestCounts, QueryGetPauserRequest,
           QueryGetPauserRequestWrites, QueryGetPauserRequestCounts,
           QueryGetBlacklisterRequest, QueryGetBlacklisterRequestWrites,
           QueryGetBlacklisterRequestCounts, QueryGetOwnerRequest,
           QueryGetOwnerRequestWrites, QueryGetOwnerRequestCounts,
           QueryGetMintingDenomRequest, QueryGetMintingDenomRequestWrites,
           QueryGetMintingDenomRequestCounts, MsgUpdateMasterMinterResponse,
           MsgUpdateMasterMinterResponseWrites, MsgUpdateMasterMinterResponseCounts,
           MsgUpdatePauserResponse, MsgUpdatePauserResponseWrites,
           MsgUpdatePauserResponseCounts, MsgUpdateBlacklisterResponse,
           MsgUpdateBlacklisterResponseWrites, MsgUpdateBlacklisterResponseCounts,
           MsgUpdateOwnerResponse, MsgUpdateOwnerResponseWrites,
           MsgUpdateOwnerResponseCounts, MsgAcceptOwnerResponse,
           MsgAcceptOwnerResponseWrites, MsgAcceptOwnerResponseCounts,
           MsgConfigureMinterResponse, MsgConfigureMinterResponseWrites,
           MsgConfigureMinterResponseCounts, MsgRemoveMinterResponse,
           MsgRemoveMinterResponseWrites, MsgRemoveMinterResponseCounts,
           MsgMintResponse, MsgMintResponseWrites, MsgMintResponseCounts,
           MsgBurnResponse, MsgBurnResponseWrites, MsgBurnResponseCounts,
           MsgBlacklistResponse, MsgBlacklistResponseWrites,
           MsgBlacklistResponseCounts, MsgUnblacklistResponse,
           MsgUnblacklistResponseWrites, MsgUnblacklistResponseCounts,
           MsgPauseResponse, MsgPauseResponseWrites, MsgPauseResponseCounts,
           MsgUnpauseResponse, MsgUnpauseResponseWrites, MsgUnpauseResponseCounts,
           MsgConfigureMinterControllerResponse,
           MsgConfigureMinterControllerResponseWrites,
           MsgConfigureMinterControllerResponseCounts,
           MsgRemoveMinterControllerResponse,
           MsgRemoveMinterControllerResponseWrites,
           MsgRemoveMinterControllerResponseCounts
  <2>2. QED BY <2>1 DEF Agree
<1>4. ASSUME NEW t \in OneString
      PROVE  Agree(MessageTypes[t], MessageWrites[t], MessageCounts[t])
  <2>1. /\ MessageTypes[t] = <<String>>
        /\ MessageWrites[t] = <<IfSet(10)>>
        /\ MessageCounts[t] = <<IfSet(1)>>
    BY DEF MessageTypes, MessageWrites, MessageCounts, OneString, Blacklisted,
           BlacklistedWrites, BlacklistedCounts, Blacklister, BlacklisterWrites,
           BlacklisterCounts, MasterMinter, MasterMinterWrites, MasterMinterCounts,
           MintingDenom, MintingDenomWrites, MintingDenomCounts, Owner, OwnerWrites,
           OwnerCounts, Pauser, PauserWrites, PauserCounts,
           QueryGetBlacklistedRequest, QueryGetBlacklistedRequestWrites,
           QueryGetBlacklistedRequestCounts, QueryGetMintersRequest,
           QueryGetMintersRequestWrites, QueryGetMintersRequestCounts,
           QueryGetMinterControllerRequest, QueryGetMinterControllerRequestWrites,
           QueryGetMinterControllerRequestCounts, MsgAcceptOwner,
           MsgAcceptOwnerWrites, MsgAcceptOwnerCounts, MsgPause, MsgPauseWrites,
           MsgPauseCounts, MsgUnpause, MsgUnpauseWrites, MsgUnpauseCounts
  <2>2. QED BY <2>1, FieldKinds DEF Agree
<1>5. ASSUME NEW t \in TwoStrings
      PROVE  Agree(MessageTypes[t], MessageWrites[t], MessageCounts[t])
  <2>1. /\ MessageTypes[t] = <<String, String>>
        /\ MessageWrites[t] = <<IfSet(10), IfSet(18)>>
        /\ MessageCounts[t] = <<IfSet(1), IfSet(1)>>
    BY DEF MessageTypes, MessageWrites, MessageCounts, TwoStrings, MinterController,
           MinterControllerWrites, MinterControllerCounts, MsgUpdateMasterMinter,
           MsgUpdateMasterMinterWrites, MsgUpdateMasterMinterCounts,
           MsgUpdatePauser, MsgUpdatePauserWrites, MsgUpdatePauserCounts,
           MsgUpdateBlacklister, MsgUpdateBlacklisterWrites,
           MsgUpdateBlacklisterCounts, MsgUpdateOwner, MsgUpdateOwnerWrites,
           MsgUpdateOwnerCounts, MsgRemoveMinter, MsgRemoveMinterWrites,
           MsgRemoveMinterCounts, MsgBlacklist, MsgBlacklistWrites,
           MsgBlacklistCounts, MsgUnblacklist, MsgUnblacklistWrites,
           MsgUnblacklistCounts, MsgRemoveMinterController,
           MsgRemoveMinterControllerWrites, MsgRemoveMinterControllerCounts
  <2>2. QED BY <2>1, FieldKinds DEF Agree
<1>6. ASSUME NEW t \in StringAndCoin
      PROVE  Agree(MessageTypes[t], MessageWrites[t], MessageCounts[t])
  <2>1. /\ MessageTypes[t] = <<String, Embedded("Coin")>>
        /\ MessageWrites[t] = <<IfSet(10), Always(18)>>
        /\ MessageCounts[t] = <<IfSet(1), Always(1)>>
    BY DEF MessageTypes, MessageWrites, MessageCounts, StringAndCoin, Minters,
           MintersWrites, MintersCounts, MsgBurn, MsgBurnWrites, MsgBurnCounts
  <2>2. QED BY <2>1, FieldKinds DEF Agree
<1>7. ASSUME NEW t \in OnePointer
      PROVE  Agree(MessageTypes[t], MessageWrites[t], MessageCounts[t])
  <2>1. /\ \E u : MessageTypes[t] = <<Pointer(u)>>
        /\ MessageWrites[t] = <<IfSet(10)>>
        /\ MessageCounts[t] = <<IfSet(1)>>
    BY DEF MessageTypes, MessageWrites, MessageCounts, OnePointer,
           QueryAllBlacklistedRequest, QueryAllBlacklistedRequestWrites,
           QueryAllBlacklistedRequestCounts, QueryAllMintersRequest,
           QueryAllMintersRequestWrites, QueryAllMintersRequestCounts,
           QueryAllMinterControllerRequest, QueryAllMinterControllerRequestWrites,
           QueryAllMinterControllerRequestCounts
  <2>2. QED BY <2>1, FieldKinds DEF Agree
<1>8. ASSUME NEW t \in PageOfMessages
      PROVE  Agree(MessageTypes[t], MessageWrites[t], MessageCounts[t])
  <2>1. /\ \E u : MessageTypes[t] = <<List(u), Pointer("PageResponse")>>
        /\ MessageWrites[t] = <<Each(10), IfSet(18)>>
        /\ MessageCounts[t] = <<Each(1), IfSet(1)>>
    BY DEF MessageTypes, MessageWrites, MessageCounts, PageOfMessages,
           QueryAllBlacklistedResponse, QueryAllBlacklistedResponseWrites,
           QueryAllBlacklistedResponseCounts, QueryAllMintersResponse,
           QueryAllMintersResponseWrites, QueryAllMintersResponseCounts,
           QueryAllMinterControllerResponse, QueryAllMinterControllerResponseWrites,
           QueryAllMinterControllerResponseCounts
  <2>2. QED BY <2>1, FieldKinds DEF Agree
<1>9. ASSUME NEW t \in StringsAndCoin
      PROVE  Agree(MessageTypes[t], MessageWrites[t], MessageCounts[t])
  <2>1. /\ MessageTypes[t] = <<String, String, Embedded("Coin")>>
        /\ MessageWrites[t] = <<IfSet(10), IfSet(18), Always(26)>>
        /\ MessageCounts[t] = <<IfSet(1), IfSet(1), Always(1)>>
    BY DEF MessageTypes, MessageWrites, MessageCounts, StringsAndCoin,
           MsgConfigureMinter, MsgConfigureMinterWrites, MsgConfigureMinterCounts,
           MsgMint, MsgMintWrites, MsgMintCounts
  <2>2. QED BY <2>1, FieldKinds DEF Agree
<1>10. ASSUME NEW t \in OtherTypes
      PROVE  Agree(MessageTypes[t], MessageWrites[t], MessageCounts[t])
  <2>1. CASE t = "PageRequest"
    <3>1. /\ MessageTypes[t] =
               <<String, Uint, Uint, Bool, Bool>>
          /\ MessageWrites[t] =
               <<IfSet(10), IfSet(16), IfSet(24), IfSet(32), IfSet(40)>>
          /\ MessageCounts[t] =
               <<IfSet(1), IfSet(1), IfSet(1), IfSet(1), IfSet(1)>>
      BY <2>1 DEF MessageTypes, MessageWrites, MessageCounts,
                    PageRequest, PageRequestWrites, PageRequestCounts
    <3>2. QED BY <3>1, FieldKinds DEF Agree
  <2>2. CASE t = "PageResponse"
    <3>1. /\ MessageTypes[t] =
               <<String, Uint>>
          /\ MessageWrites[t] =
               <<IfSet(10), IfSet(16)>>
          /\ MessageCounts[t] =
               <<IfSet(1), IfSet(1)>>
      BY <2>2 DEF MessageTypes, MessageWrites, MessageCounts,
                    PageResponse, PageResponseWrites, PageResponseCounts
    <3>2. QED BY <3>1, FieldKinds DEF Agree
  <2>3. CASE t = "GlobalFeeParams"
    <3>1. /\ MessageTypes[t] =
               <<List("DecCoin"), Strings>>
          /\ MessageWrites[t] =
               <<Each(10), Each(18)>>
          /\ MessageCounts[t] =
               <<Each(1), Each(1)>>
      BY <2>3 DEF MessageTypes, MessageWrites, MessageCounts,
                    GlobalFeeParams, GlobalFeeParamsWrites, GlobalFeeParamsCounts
    <3>2. QED BY <3>1, FieldKinds DEF Agree
  <2>4. CASE t = "TariffParams"
    <3>1. /\ MessageTypes[t] =
               <<Number, List("TariffDistributionEntity"), Number, Number, String>>
          /\ MessageWrites[t] =
               <<Always(10), Each(18), Always(26), Always(34), IfSet(42)>>
          /\ MessageCounts[t] =
               <<Always(1), Each(1), Always(1), Always(1), IfSet(1)>>
      BY <2>4 DEF MessageTypes, MessageWrites, MessageCounts,
                    TariffParams, TariffParamsWrites, TariffParamsCounts
    <3>2. QED BY <3>1, FieldKinds DEF Agree
  <2>5. CASE t = "GenesisState"
    <3>1. /\ MessageTypes[t] =
               <<Embedded("Params"), List("Blacklisted"), Pointer("Paused"),
               Pointer("MasterMinter"), List("Minters"), Pointer("Pauser"),
               Pointer("Blacklister"), Pointer("Owner"), List("MinterController"),
               Pointer("MintingDenom")>>
          /\ MessageWrites[t] =
               <<Always(10), Each(18), IfSet(26), IfSet(34), Each(42), IfSet(50),
               IfSet(58), IfSet(66), Each(74), IfSet(82)>>
          /\ MessageCounts[t] =
               <<Always(1), Each(1), IfSet(1), IfSet(1), Each(1), IfSet(1),
               IfSet(1), IfSet(1), Each(1), IfSet(1)>>
      BY <2>5 DEF MessageTypes, MessageWrites, MessageCounts,
                    GenesisState, GenesisStateWrites, GenesisStateCounts
    <3>2. QED BY <3>1, FieldKinds DEF Agree
  <2>6. CASE t = "Paused"
    <3>1. /\ MessageTypes[t] =
               <<Bool>>
          /\ MessageWrites[t] =
               <<IfSet(8)>>
          /\ MessageCounts[t] =
               <<IfSet(1)>>
      BY <2>6 DEF MessageTypes, MessageWrites, MessageCounts,
                    Paused, PausedWrites, PausedCounts
    <3>2. QED BY <3>1, FieldKinds DEF Agree
  <2>7. CASE t = "MsgConfigureMinterController"
    <3>1. /\ MessageTypes[t] =
               <<String, String, String>>
          /\ MessageWrites[t] =
               <<IfSet(10), IfSet(18), IfSet(26)>>
          /\ MessageCounts[t] =
               <<IfSet(1), IfSet(1), IfSet(1)>>
      BY <2>7 DEF MessageTypes, MessageWrites, MessageCounts,
                    MsgConfigureMinterController, MsgConfigureMinterControllerWrites,
                    MsgConfigureMinterControllerCounts
    <3>2. QED BY <3>1, FieldKinds DEF Agree
  <2>8. QED BY <2>1, <2>2, <2>3, <2>4, <2>5, <2>6, <2>7 DEF OtherTypes
<1>11. QED BY <1>1, <1>2, <1>3, <1>4, <1>5, <1>6, <1>7, <1>8, <1>9, <1>10, EveryType

-----------------------------------------------------------------------------
(* The decoder: a new message, and an assignment to a field, are messages. *)
IsEmbedded(field) == field.kind = "message" /\ ~field.many /\ ~field.optional

(* New messages, given those that they embed.                              *)
NewFields(inner, t) ==
  [f \in DOMAIN Schema[t] |->
     IF IsEmbedded(Schema[t][f]) THEN inner[Schema[t][f].of] ELSE ZeroOf(Schema[t][f])]
NewMessages(inner) == [t \in DOMAIN Schema |-> NewFields(inner, t)]

(* A new message has new messages embedded in it.                          *)
LEMMA EmptyDefined == \A t \in DOMAIN Schema : Empty[t] = NewFields(Empty, t)
<1> DEFINE IsIt(g) ==
      g = [t \in DOMAIN Schema |->
             [f \in DOMAIN Schema[t] |->
                LET field == Schema[t][f] IN
                IF field.kind = "message" /\ ~field.many /\ ~field.optional
                THEN g[field.of] ELSE ZeroOf(field)]]
           flat == NewMessages(<<>>)
           nested == NewMessages(flat)
           all == NewMessages(nested)
           again == NewMessages(all)
<1>1. \A g : IsIt(g) <=> g = NewMessages(g) BY DEF NewMessages, NewFields, IsEmbedded
<1>2. \A g, t : t \in DOMAIN Schema => NewMessages(g)[t] = NewFields(g, t) BY DEF NewMessages
<1>3. \A g, h, t : t \in DOMAIN Schema /\ (\A u \in EmbeddedTypes(t) : g[u] = h[u]) =>
        NewFields(g, t) = NewFields(h, t)
  BY Nesting DEF NewFields, IsEmbedded
<1> HIDE DEF IsIt, flat, nested, all, again
<1>4. ASSUME NEW t \in DOMAIN Schema, IsFlat(t)
      PROVE  flat[t] = nested[t] /\ nested[t] = all[t] /\ all[t] = again[t]
  <2>1. \A g, h : NewFields(g, t) = NewFields(h, t) BY <1>3, <1>4 DEF IsFlat
  <2>2. QED BY <1>2, <2>1 DEF flat, nested, all, again
<1>5. ASSUME NEW t \in DOMAIN Schema, IsNested(t)
      PROVE  nested[t] = all[t] /\ all[t] = again[t]
  <2>1. \A u \in EmbeddedTypes(t) : flat[u] = nested[u] /\ nested[u] = all[u]
    BY <1>4, <1>5, Nesting DEF IsNested
  <2>2. NewFields(flat, t) = NewFields(nested, t) /\ NewFields(nested, t) = NewFields(all, t)
    BY <1>3, <2>1
  <2>3. QED BY <1>2, <2>2 DEF nested, all, again
<1>6. ASSUME NEW t \in DOMAIN Schema PROVE NewFields(all, t) = NewFields(nested, t)
  <2>1. \A u \in EmbeddedTypes(t) : nested[u] = all[u] BY <1>5, Nesting
  <2>2. QED BY <1>3, <2>1
<1>7. NewMessages(all) = NewMessages(nested) BY <1>6 DEF NewMessages
<1>8. IsIt(all) BY <1>1, <1>7 DEF all
<1>9. Empty = CHOOSE g : IsIt(g) BY DEF Empty, IsIt
<1>10. IsIt(Empty) BY <1>8, <1>9
<1>11. Empty = NewMessages(Empty) BY <1>1, <1>10
<1>12. QED BY <1>2, <1>11

(* A new message is a message of its type.                                 *)
LEMMA EmptyIsMessage == \A t \in DOMAIN Schema : IsMessage(t, Empty[t])
<1>1. ASSUME NEW t \in DOMAIN Schema, \A u \in EmbeddedTypes(t) : IsMessage(u, Empty[u])
      PROVE  IsMessage(t, Empty[t])
  <2> DEFINE m == NewFields(Empty, t)
  <2>1. ASSUME NEW f \in DOMAIN Schema[t] PROVE IsField(IsMessage, Schema[t][f], m[f])
    <3> DEFINE field == Schema[t][f]
    <3>1. /\ field.kind \in {"bytes", "bool", "uint", "number", "message"}
          /\ field.many \in BOOLEAN /\ field.optional \in BOOLEAN
      BY FieldTypeOf
    <3>2. m[f] = IF IsEmbedded(field) THEN Empty[field.of] ELSE ZeroOf(field)
      BY DEF NewFields
    <3>3. CASE IsEmbedded(field)
      <4>1. IsMessage(field.of, m[f]) BY <1>1, <3>2, <3>3, Nesting DEF IsEmbedded
      <4>2. QED BY <3>3, <4>1 DEF IsEmbedded, IsField, IsValue
    <3>4. CASE ~IsEmbedded(field)
      <4>1. m[f] = ZeroOf(field) BY <3>2, <3>4
      <4>2. CASE field.many
        <5>1. m[f] = <<>> BY <4>1, <4>2 DEF ZeroOf
        <5>2. m[f] \in Seq(Nat) /\ DOMAIN m[f] = {} BY <5>1
        <5>3. QED BY <4>2, <5>2 DEF IsField
      <4>3. CASE ~field.many
        <5>1. <<>> \in Seq(Nat) OBVIOUS
        <5>2. \/ field.kind = "bytes" /\ m[f] = <<>>
              \/ field.kind = "bool" /\ m[f] = FALSE
              \/ field.kind = "uint" /\ m[f] = 0
              \/ field.kind \in {"number", "message"} /\ m[f] = Nil
          BY <3>1, <4>1, <4>3 DEF ZeroOf
        <5> HIDE DEF field, m
        <5>3. field.kind = "message" => field.optional BY <3>1, <3>4, <4>3 DEF IsEmbedded
        <5>4. field.kind = "message" \/ IsValue(IsMessage, field, m[f])
          <6>1. CASE field.kind = "bytes" /\ m[f] = <<>> BY <5>1, <6>1 DEF IsValue
          <6>2. CASE field.kind = "bool" /\ m[f] = FALSE
            <7>1. m[f] \in BOOLEAN BY <6>2
            <7>2. QED BY <6>2, <7>1 DEF IsValue
          <6>3. CASE field.kind = "uint" /\ m[f] = 0 BY <6>3 DEF IsValue
          <6>4. CASE field.kind \in {"number", "message"} /\ m[f] = Nil BY <6>4 DEF IsValue
          <6>5. QED BY <5>2, <6>1, <6>2, <6>3, <6>4
        <5>5. IsField(IsMessage, field, m[f])
          BY <4>3, <5>2, <5>3, <5>4 DEF IsField
        <5>6. QED BY <5>5 DEF field
      <4>4. QED BY <3>1, <4>2, <4>3
    <3>5. QED BY <3>3, <3>4
  <2>2. m = [f \in DOMAIN Schema[t] |-> m[f]] BY DEF NewFields
  <2> HIDE DEF m
  <2>3. HasFields(IsMessage, t, m) BY <2>1, <2>2 DEF HasFields
  <2>4. IsMessage(t, m) BY <2>3, MessageFields
  <2>5. QED BY <2>4, EmptyDefined DEF m
<1>2. \A t \in DOMAIN Schema : IsFlat(t) => IsMessage(t, Empty[t]) BY <1>1 DEF IsFlat
<1>3. \A t \in DOMAIN Schema : IsNested(t) => IsMessage(t, Empty[t])
  BY <1>1, <1>2, Nesting DEF IsNested
<1>4. QED BY <1>1, <1>3, Nesting

(* A value assigned to a field, or appended to it.                         *)
LEMMA FieldAssigned ==
  ASSUME NEW t \in DOMAIN Schema, NEW f \in DOMAIN Schema[t], NEW m, IsMessage(t, m),
         NEW v, IsValue(IsMessage, Schema[t][f], v)
  PROVE  IsMessage(t, [m EXCEPT ![f] = IF Schema[t][f].many THEN Append(@, v) ELSE v])
<1> DEFINE w == IF Schema[t][f].many THEN Append(m[f], v) ELSE v
           n == [m EXCEPT ![f] = w]
<1>1. m = [g \in DOMAIN Schema[t] |-> m[g]]
      /\ \A g \in DOMAIN Schema[t] : IsField(IsMessage, Schema[t][g], m[g])
  BY MessageFields DEF HasFields
<1>2. IsField(IsMessage, Schema[t][f], w)
  <2>1. CASE Schema[t][f].many
    <3>1. PICK S : m[f] \in Seq(S) BY <1>1, <2>1 DEF IsField
    <3>2. \A i \in DOMAIN m[f] : IsValue(IsMessage, Schema[t][f], m[f][i])
      BY <1>1, <2>1 DEF IsField
    <3>3. PICK s \in Seq(S) : s = m[f] BY <3>1
    <3>4. /\ Append(s, v) \in Seq(S \cup {v})
          /\ \A i \in DOMAIN Append(s, v) :
               (i \in DOMAIN s /\ Append(s, v)[i] = s[i]) \/ Append(s, v)[i] = v
      OBVIOUS
    <3>5. \A i \in DOMAIN Append(s, v) : IsValue(IsMessage, Schema[t][f], Append(s, v)[i])
      BY <3>2, <3>3, <3>4
    <3>6. QED BY <2>1, <3>3, <3>4, <3>5 DEF IsField
  <2>2. CASE ~Schema[t][f].many BY <2>2 DEF IsField
  <2>3. QED BY <2>1, <2>2
<1> HIDE DEF w
<1>3. /\ n = [g \in DOMAIN Schema[t] |-> n[g]]
      /\ n[f] = w /\ \A g \in DOMAIN Schema[t] : g # f => n[g] = m[g]
  BY <1>1
<1> HIDE DEF n
<1>4. HasFields(IsMessage, t, n) BY <1>1, <1>2, <1>3 DEF HasFields
<1>5. IsMessage(t, n) BY <1>4, MessageFields
<1>6. QED BY <1>5 DEF n, w

-----------------------------------------------------------------------------
(* The calls of Unmarshal: a call fills a message of its type.             *)
IsTyped(c) == IsCall(c) /\ c.type \in DOMAIN Schema /\ IsMessage(c.type, c.message)

FieldOf(c) == Schema[c.type][c.field]

(* Call c has made call d for the field that it is at.                     *)
Makes(c, d) ==
  c.field \in DOMAIN Schema[c.type] /\ FieldOf(c).kind = "message" /\ FieldOf(c).of = d.type

TypedCalls(st) ==
  /\ \E S : st \in Seq(S)
  /\ Len(st) > 0
  /\ \A i \in 1..Len(st) : IsTyped(st[i])
  /\ \A i \in 1..Len(st)-1 : Makes(st[i], st[i + 1])

(* A value is read for a field of the last call, in the way of its kind.   *)
Reads(c, ph) ==
  c.field \in DOMAIN Schema[c.type] /\ (FieldOf(c).kind \in {"bool", "uint"} <=> ph = "bool")

(* The inductive invariant: every call fills a message of its type, which  *)
(* is that of the field its caller is at.                                  *)
TypedInv ==
  /\ CursorInv
  /\ num.value \in Nat /\ num.scale \in Nat
  /\ TypedCalls(stack)
  /\ phase \in {"bool", "length"} => Reads(Top, phase)

(* Changing the message of the last call, entering a call, leaving one.    *)
LEMMA LastTyped ==
  ASSUME NEW st, TypedCalls(st)
  PROVE  Len(st) \in Nat \ {0} /\ Len(st) \in 1..Len(st) /\ IsTyped(st[Len(st)])
<1>1. PICK S : st \in Seq(S) BY DEF TypedCalls
<1>2. Len(st) \in Nat \ {0} /\ Len(st) \in 1..Len(st) BY <1>1 DEF TypedCalls
<1>3. QED BY <1>2 DEF TypedCalls

LEMMA TypedReplaced ==
  ASSUME NEW st, TypedCalls(st), NEW c, IsTyped(c), c.type = st[Len(st)].type
  PROVE  LET s == [st EXCEPT ![Len(st)] = c] IN
         TypedCalls(s) /\ Len(s) = Len(st) /\ s[Len(st)] = c
<1>1. PICK S : st \in Seq(S) BY DEF TypedCalls
<1> DEFINE s == [st EXCEPT ![Len(st)] = c]
<1>2. s \in Seq(S \cup {c}) /\ Len(s) = Len(st) /\ Len(st) \in Nat \ {0}
  BY <1>1 DEF TypedCalls
<1>3. \A i \in 1..Len(st) : s[i] = IF i = Len(st) THEN c ELSE st[i] BY <1>1, <1>2
<1> HIDE DEF s
<1>4. \A i \in 1..Len(s) : IsTyped(s[i]) BY <1>2, <1>3 DEF TypedCalls
<1>5. ASSUME NEW i \in 1..Len(s)-1 PROVE Makes(s[i], s[i + 1])
  <2>1. i \in 1..Len(st)-1 /\ i \in 1..Len(st) /\ i + 1 \in 1..Len(st) /\ i # Len(st)
    BY <1>2
  <2>2. Makes(st[i], st[i + 1]) /\ s[i] = st[i] BY <1>3, <2>1 DEF TypedCalls
  <2>3. s[i + 1].type = st[i + 1].type BY <1>3, <2>1
  <2>4. QED BY <2>2, <2>3 DEF Makes
<1>6. Len(s) \in 1..Len(st) /\ s[Len(st)] = c BY <1>2, <1>3
<1>7. QED BY <1>2, <1>4, <1>5, <1>6 DEF TypedCalls, s

LEMMA TypedPushed ==
  ASSUME NEW st, TypedCalls(st), NEW c, IsTyped(c), Makes(st[Len(st)], c)
  PROVE  TypedCalls(Append(st, c))
<1>1. PICK S : st \in Seq(S) BY DEF TypedCalls
<1> DEFINE s == Append(st, c)
<1>2. s \in Seq(S \cup {c}) /\ Len(s) = Len(st) + 1 /\ Len(st) \in Nat \ {0}
  BY <1>1 DEF TypedCalls
<1>3. \A i \in 1..Len(s) : s[i] = IF i = Len(s) THEN c ELSE st[i] BY <1>1, <1>2
<1> HIDE DEF s
<1>4. \A i \in 1..Len(s) : i = Len(s) \/ i \in 1..Len(st) BY <1>2
<1>5. \A i \in 1..Len(s) : IsTyped(s[i]) BY <1>3, <1>4 DEF TypedCalls
<1>6. ASSUME NEW i \in 1..Len(s)-1 PROVE Makes(s[i], s[i + 1])
  <2>1. i \in 1..Len(st) /\ i \in 1..Len(s) /\ i + 1 \in 1..Len(s) /\ i # Len(s) BY <1>2
  <2>2. s[i] = st[i] BY <1>3, <2>1
  <2>3. CASE i = Len(st)
    <3>1. s[i + 1] = c BY <1>2, <1>3, <2>1, <2>3
    <3>2. QED BY <2>2, <2>3, <3>1
  <2>4. CASE i # Len(st)
    <3>1. i \in 1..Len(st)-1 /\ i + 1 # Len(s) BY <1>2, <2>1, <2>4
    <3>2. s[i + 1] = st[i + 1] BY <1>3, <2>1, <3>1
    <3>3. QED BY <2>2, <3>1, <3>2 DEF TypedCalls
  <2>5. QED BY <2>3, <2>4
<1>7. QED BY <1>2, <1>5, <1>6 DEF TypedCalls, s

LEMMA TypedPopped ==
  ASSUME NEW st, TypedCalls(st), Len(st) > 1
  PROVE  LET s == SubSeq(st, 1, Len(st) - 1) IN
         TypedCalls(s) /\ Makes(s[Len(s)], st[Len(st)])
<1>1. PICK S : st \in Seq(S) BY DEF TypedCalls
<1> DEFINE s == SubSeq(st, 1, Len(st) - 1)
<1>2. s \in Seq(S) /\ Len(s) = Len(st) - 1 /\ Len(st) \in Nat BY <1>1
<1>3. \A i \in 1..Len(s) : s[i] = st[i] BY <1>1, <1>2
<1> HIDE DEF s
<1>4. \A i \in 1..Len(s) : i \in 1..Len(st) /\ i \in 1..Len(st)-1 BY <1>2
<1>5. \A i \in 1..Len(s) : IsTyped(s[i]) BY <1>3, <1>4 DEF TypedCalls
<1>6. \A i \in 1..Len(s)-1 : Makes(s[i], s[i + 1])
  <2>1. \A i \in 1..Len(s)-1 : i \in 1..Len(s) /\ i + 1 \in 1..Len(s) BY <1>2
  <2>2. QED BY <1>3, <1>4, <2>1 DEF TypedCalls
<1>7. Makes(s[Len(s)], st[Len(st)])
  <2>1. Len(s) \in 1..Len(s) /\ Len(s) + 1 = Len(st) BY <1>2
  <2>2. QED BY <1>3, <1>4, <2>1 DEF TypedCalls
<1>8. Len(s) > 0 BY <1>2
<1>9. QED BY <1>2, <1>5, <1>6, <1>7, <1>8 DEF TypedCalls, s

-----------------------------------------------------------------------------
LEMMA TypedInit == Init => TypedInv
<1> SUFFICES ASSUME Init PROVE TypedInv OBVIOUS
<1>1. PICK m \in Input : stack = <<Call(m.type, 0, 0, Len(m.bytes), Empty[m.type])>>
  BY DEF Init
<1>2. m.type \in DOMAIN Schema BY WireAssumption
<1> DEFINE c == Call(m.type, 0, 0, Len(m.bytes), Empty[m.type])
<1>3. IsCall(c) /\ c.type = m.type /\ c.message = Empty[m.type] BY DEF IsCall, Call
<1>4. IsTyped(c) BY <1>2, <1>3, EmptyIsMessage DEF IsTyped
<1> HIDE DEF c
<1>5. /\ stack \in Seq({c}) /\ Len(stack) = 1
      /\ \A i \in 1..Len(stack) : stack[i] = c
      /\ ~\E i \in 1..Len(stack)-1 : TRUE
  BY <1>1 DEF c
<1>6. TypedCalls(stack) BY <1>4, <1>5 DEF TypedCalls
<1>7. phase = "tag" /\ num.value = 0 /\ num.scale = 1 BY DEF Init, Zero
<1>8. QED BY <1>6, <1>7, InitInv DEF TypedInv

(* A value is assigned to the field that was read.                         *)
LEMMA TypedAssign ==
  ASSUME TypedInv, phase \in {"bool", "length"}, NEW v, IsValue(IsMessage, Field, v), Assign(v)
  PROVE  TypedCalls(stack')
<1> DEFINE msg == [Top.message EXCEPT ![Top.field] = IF Field.many THEN Append(@, v) ELSE v]
           c == Call(Top.type, Top.field, Top.from, Top.to, msg)
<1>1. IsTyped(Top) /\ TypedCalls(stack) BY LastTyped DEF TypedInv, Top
<1>2. [Top EXCEPT !.message = msg] = c
  <2> DEFINE old == Call(Top.type, Top.field, Top.from, Top.to, Top.message)
  <2>1. Top = old BY <1>1 DEF IsTyped, IsCall
  <2>2. [old EXCEPT !.message = msg] = c BY DEF Call
  <2> HIDE DEF old, msg, c
  <2>3. QED BY <2>1, <2>2
<1>3. stack' = [stack EXCEPT ![Len(stack)] = c] BY <1>2 DEF Assign, Top
<1>4. Top.field \in DOMAIN Schema[Top.type] /\ Field = Schema[Top.type][Top.field]
  BY DEF TypedInv, Reads, Field, Fields
<1>5. IsMessage(Top.type, msg) BY <1>1, <1>4, FieldAssigned DEF IsTyped
<1>6. IsCall(c) /\ c.type = Top.type /\ c.message = msg BY DEF IsCall, Call
<1> HIDE DEF c, msg
<1>7. IsTyped(c) BY <1>1, <1>5, <1>6 DEF IsTyped
<1>8. QED BY <1>1, <1>3, <1>6, <1>7, TypedReplaced DEF Top

LEMMA TypedKnownTag == TypedInv /\ KnownTag => TypedCalls(stack') /\ Reads(Top', phase')
<1> SUFFICES ASSUME TypedInv, KnownTag PROVE TypedCalls(stack') /\ Reads(Top', phase')
  OBVIOUS
<1> DEFINE c == Call(Top.type, FieldNumber, Top.from, Top.to, Top.message)
<1>1. IsTyped(Top) /\ TypedCalls(stack) BY LastTyped DEF TypedInv, Top
<1>2. [Top EXCEPT !.field = FieldNumber] = c BY <1>1 DEF IsTyped, IsCall, Call
<1>3. stack' = [stack EXCEPT ![Len(stack)] = c] BY <1>2 DEF KnownTag, Top
<1>4. /\ IsCall(c) /\ c.type = Top.type /\ c.message = Top.message /\ c.field = FieldNumber
  BY DEF IsCall, Call
<1> HIDE DEF c
<1>5. IsTyped(c) BY <1>1, <1>4 DEF IsTyped
<1>6. TypedCalls(stack') /\ Len(stack') = Len(stack) /\ stack'[Len(stack)] = c
  BY <1>1, <1>3, <1>4, <1>5, TypedReplaced DEF Top
<1>7. Top' = c BY <1>6 DEF Top
<1>8. /\ FieldNumber \in DOMAIN Schema[Top.type]
      /\ WireType = Wanted(Schema[Top.type][FieldNumber].kind)
      /\ phase' = IF WireType = 0 THEN "bool" ELSE "length"
  BY DEF KnownTag, Known, Fields
<1>9. Reads(c, phase') BY <1>4, <1>8 DEF Reads, FieldOf, Wanted
<1>10. QED BY <1>6, <1>7, <1>9

LEMMA TypedReadBool == TypedInv /\ ReadBool => TypedCalls(stack')
<1> SUFFICES ASSUME TypedInv, ReadBool PROVE TypedCalls(stack') OBVIOUS
<1>1. phase = "bool" /\ Field.kind \in {"bool", "uint"}
  BY DEF ReadBool, TypedInv, Reads, Field, Fields, FieldOf
<1> DEFINE v == IF Field.kind = "uint" THEN num.value ELSE num.value # 0
<1>2. Assign(v) BY DEF ReadBool
<1>3. IsValue(IsMessage, Field, v)
  <2>1. CASE Field.kind = "uint"
    <3>1. v \in Nat BY <2>1 DEF TypedInv
    <3>2. QED BY <2>1, <3>1 DEF IsValue
  <2>2. CASE Field.kind = "bool"
    <3>1. v \in BOOLEAN BY <2>2
    <3>2. QED BY <2>2, <3>1 DEF IsValue
  <2>3. QED BY <1>1, <2>1, <2>2
<1> HIDE DEF v
<1>4. QED BY <1>1, <1>2, <1>3, TypedAssign

LEMMA TypedReadBytes == TypedInv /\ ReadBytes => TypedCalls(stack')
<1> SUFFICES ASSUME TypedInv, ReadBytes PROVE TypedCalls(stack') OBVIOUS
<1>1. phase = "length" /\ LengthInSlice BY DEF ReadBytes
<1>2. CASE Field.kind = "bytes" /\ Assign(Slice)
  <2>1. Slice \in Seq(Nat)
    <3> DEFINE i == Top.from + PostIndex(Length)
    <3>1. i \in Int /\ i <= Top.to /\ at \in Int /\ Top.from <= at
      BY <1>1, PostInSlice DEF TypedInv
    <3>2. CursorInv BY DEF TypedInv
    <3>3. 0 <= at /\ i <= Len(input) /\ Len(input) \in Int
      BY <3>1, <3>2, LastCall
    <3> HIDE DEF i
    <3>4. SubSeq(input, at + 1, i) \in Seq(Nat) BY <3>1, <3>2, <3>3 DEF CursorInv
    <3>5. QED BY <3>4 DEF Slice, i
  <2>2. IsValue(IsMessage, Field, Slice) BY <1>2, <2>1 DEF IsValue
  <2>3. QED BY <1>1, <1>2, <2>2, TypedAssign
<1>3. CASE Field.kind = "number" /\ Slice \in DOMAIN Decimal /\ Assign(Decimal[Slice])
  <2>1. Decimal[Slice] \in Range(Decimal) BY <1>3 DEF Range
  <2>2. IsValue(IsMessage, Field, Decimal[Slice]) BY <1>3, <2>1 DEF IsValue
  <2>3. QED BY <1>1, <1>3, <2>2, TypedAssign
<1>4. CASE UNCHANGED stack BY <1>4 DEF TypedInv
<1>5. QED BY <1>2, <1>3, <1>4 DEF ReadBytes

LEMMA TypedEnterMessage == TypedInv /\ EnterMessage => TypedCalls(stack')
<1> SUFFICES ASSUME TypedInv, EnterMessage PROVE TypedCalls(stack') OBVIOUS
<1> DEFINE old == Top.message[Top.field]
           c == Call(Field.of, 0, at, Top.from + PostIndex(Length), EmbeddedIn(old))
<1>1. phase = "length" /\ Field.kind = "message" /\ stack' = Append(stack, c)
  BY DEF EnterMessage
<1>2. IsTyped(Top) /\ TypedCalls(stack) BY LastTyped DEF TypedInv, Top
<1>3. Top.field \in DOMAIN Schema[Top.type] /\ Field = Schema[Top.type][Top.field]
  BY <1>1 DEF TypedInv, Reads, Field, Fields
<1>4. Field.of \in DOMAIN Schema BY <1>1, <1>2, <1>3, WireAssumption DEF IsTyped
<1>5. IsField(IsMessage, Field, old)
  BY <1>2, <1>3, MessageFields DEF IsTyped, HasFields
<1> HIDE DEF old
<1>6. IsMessage(Field.of, EmbeddedIn(old))
  <2>1. CASE Field.many \/ old = Nil BY <1>4, <2>1, EmptyIsMessage DEF EmbeddedIn
  <2>2. CASE ~(Field.many \/ old = Nil)
    BY <1>1, <1>5, <2>2 DEF EmbeddedIn, IsField, IsValue
  <2>3. QED BY <2>1, <2>2
<1>7. IsCall(c) /\ c.type = Field.of /\ c.message = EmbeddedIn(old) BY DEF IsCall, Call
<1> HIDE DEF c
<1>8. IsTyped(c) BY <1>4, <1>6, <1>7 DEF IsTyped
<1>9. Makes(Top, c) BY <1>1, <1>3, <1>7 DEF Makes, FieldOf
<1>10. QED BY <1>1, <1>2, <1>8, <1>9, TypedPushed DEF Top

LEMMA TypedLeaveMessage == TypedInv /\ LeaveMessage => TypedCalls(stack')
<1> SUFFICES ASSUME TypedInv, LeaveMessage PROVE TypedCalls(stack') OBVIOUS
<1> DEFINE caller == SubSeq(stack, 1, Len(stack) - 1)
           last == caller[Len(caller)]
           msg == [last.message EXCEPT ![last.field] =
                     IF Schema[last.type][last.field].many
                     THEN Append(@, Top.message) ELSE Top.message]
           c == Call(last.type, last.field, last.from, last.to, msg)
<1>1. IsTyped(Top) /\ TypedCalls(stack) /\ Len(stack) > 1
  BY LastTyped DEF TypedInv, Top, LeaveMessage
<1>2. TypedCalls(caller) /\ Makes(last, Top) BY <1>1, TypedPopped DEF Top
<1>3. stack' = [caller EXCEPT ![Len(caller)] = [last EXCEPT !.message = msg]]
  BY DEF LeaveMessage
<1> HIDE DEF caller
<1>4. IsTyped(last) BY <1>2, LastTyped
<1>5. IsMessage(last.type, msg)
  <2>1. /\ last.field \in DOMAIN Schema[last.type]
        /\ IsValue(IsMessage, Schema[last.type][last.field], Top.message)
    BY <1>1, <1>2 DEF Makes, FieldOf, IsTyped, IsValue
  <2>2. QED BY <1>4, <2>1, FieldAssigned DEF IsTyped
<1> HIDE DEF msg
<1>6. [last EXCEPT !.message = msg] = c BY <1>4 DEF IsTyped, IsCall, Call
<1>7. IsCall(c) /\ c.type = last.type /\ c.message = msg BY DEF IsCall, Call
<1> HIDE DEF c
<1>8. IsTyped(c) BY <1>4, <1>5, <1>7 DEF IsTyped
<1>9. QED BY <1>2, <1>3, <1>6, <1>7, <1>8, TypedReplaced DEF last

LEMMA TypedGroup == TypedInv /\ Group => num'.value \in Nat /\ num'.scale \in Nat
<1> SUFFICES ASSUME TypedInv, Group PROVE num'.value \in Nat /\ num'.scale \in Nat OBVIOUS
<1>1. CursorInv BY DEF TypedInv
<1> DEFINE b == input[at + 1]
           x == num.value + (b % High) * num.scale
<1>2. b \in Nat
  <2>1. at \in Int /\ Top.to \in Int /\ at < Top.to /\ 0 <= at /\ Top.to <= Len(input)
    BY <1>1, LastCall DEF Group, CursorInv, CursorInBounds
  <2>2. Len(input) \in Nat /\ \A i \in 1..Len(input) : input[i] \in Nat
    BY <1>1 DEF CursorInv
  <2>3. at + 1 \in 1..Len(input) BY <2>1, <2>2
  <2>4. QED BY <2>2, <2>3
<1>3. High \in Nat \ {0} /\ Half \in Nat \ {0} BY WireAssumption
<1>4. num.value \in Nat /\ num.scale \in Nat BY DEF TypedInv
<1>5. b % High \in Nat BY <1>2, <1>3
<1> HIDE DEF b
<1>6. (b % High) * num.scale \in Nat /\ num.scale * High \in Nat BY <1>3, <1>4, <1>5
<1>7. x \in Nat BY <1>4, <1>6
<1>8. num'.value = x % (2 * Half) /\ num'.scale = num.scale * High BY DEF Group, b
<1> HIDE DEF x
<1>9. x % (2 * Half) \in Nat BY <1>3, <1>7
<1>10. QED BY <1>6, <1>8, <1>9

(* Every step keeps the messages of all calls what their types say.        *)
LEMMA TypedStep == TypedInv /\ [Next]_vars => TypedInv'
<1> SUFFICES ASSUME TypedInv, [Next]_vars PROVE TypedInv' OBVIOUS
<1>1. CursorInv' BY CheckedInv DEF TypedInv
<1>2. CASE UNCHANGED <<stack, num>> /\ phase' \notin {"bool", "length"}
  BY <1>1, <1>2 DEF TypedInv
<1>3. CASE TypedCalls(stack') /\ phase' = "tag" /\ num' = Zero
  BY <1>1, <1>3 DEF TypedInv, Zero
<1>4. CASE UNCHANGED vars
  BY <1>1, <1>4 DEF TypedInv, vars, cursor, Top
<1>5. CASE ValidateBasic \/ GetSigners
  <2>1. UNCHANGED <<stack, num>> BY <1>5 DEF ValidateBasic, GetSigners
  <2>2. phase' \in {"valid", "refused", "panicked", "accepted"}
    BY <1>5 DEF ValidateBasic, GetSigners, Outcome
  <2>3. QED BY <1>2, <2>1, <2>2
<1>6. CASE Group
  <2>1. UNCHANGED <<stack, phase>> BY <1>6 DEF Group
  <2>2. QED BY <1>1, <1>6, <2>1, TypedGroup DEF TypedInv, Top
<1>7. CASE KnownTag
  <2>1. num' = Zero BY <1>7 DEF KnownTag
  <2>2. QED BY <1>1, <1>7, <2>1, TypedKnownTag DEF TypedInv, Zero
<1>8. CASE UnknownTag \/ SkipValue
  <2>1. UNCHANGED stack /\ num' = Zero /\ phase' \in {"skipTag", "skipVarint", "skipLength"}
    BY <1>8 DEF UnknownTag, SkipValue
  <2>2. QED BY <1>1, <2>1 DEF TypedInv, Zero
<1>9. CASE ReadBool BY <1>3, <1>9, TypedReadBool DEF ReadBool, NextField
<1>10. CASE ReadBytes BY <1>3, <1>10, TypedReadBytes DEF ReadBytes, NextField
<1>11. CASE EnterMessage BY <1>3, <1>11, TypedEnterMessage DEF EnterMessage, NextField
<1>12. CASE LeaveMessage BY <1>3, <1>12, TypedLeaveMessage DEF LeaveMessage, NextField
<1>13. CASE Finish \/ Fail BY <1>2, <1>13 DEF Finish, Fail
<1>14. CASE SkipOne
  <2>1. UNCHANGED stack /\ num' = Zero /\ phase' \in {"tag", "skipTag"}
    BY <1>14 DEF SkipOne, Skipped, NextField
  <2>2. QED BY <1>1, <2>1 DEF TypedInv, Zero
<1>15. QED BY <1>4, <1>5, <1>6, <1>7, <1>8, <1>9, <1>10, <1>11, <1>12, <1>13, <1>14
  DEF Next, Decode

-----------------------------------------------------------------------------
(* What the decoder, the encoder and the size of the chain's types know of *)
(* their fields is the same.                                               *)
LEMMA ChainTablesAgree ==
  Schema = MessageTypes /\ Writes = MessageWrites /\ Counts = MessageCounts => TablesAgree
BY FieldsOfTypes DEF TablesAgree

(* What is decoded is a message of its type, which the encoder can write.  *)
LEMMA TypedMeans == High = 128 /\ TablesAgree /\ TypedInv => BufferIsFilled
<1> SUFFICES ASSUME High = 128, TablesAgree, TypedInv PROVE BufferIsFilled OBVIOUS
<1>1. TypedCalls(stack) BY DEF TypedInv
<1>2. 1 \in 1..Len(stack) BY <1>1, LastTyped
<1>3. IsTyped(stack[1]) BY <1>1, <1>2 DEF TypedCalls
<1>4. Type \in DOMAIN Schema /\ IsMessage(Type, Message) BY <1>3 DEF IsTyped, Type, Message
<1>5. IsFilled(Type, Message) BY <1>4, MessagesAreFilled
<1>6. QED BY <1>5 DEF IsFilled, BufferIsFilled

(* For every input, at every word size: whatever was decoded, Size returns *)
(* the number of bytes that MarshalToSizedBuffer writes, so that Marshal   *)
(* neither writes out of its buffer nor returns bytes it never wrote.      *)
THEOREM BufferCorrect ==
  High = 128 /\ Schema = MessageTypes /\ Writes = MessageWrites /\ Counts = MessageCounts =>
    (MessagesSpec => []BufferIsFilled)
<1>1. Init => TypedInv BY TypedInit
<1>2. TypedInv /\ [Next]_vars => TypedInv' BY TypedStep
<1>3. SUFFICES ASSUME High = 128, Schema = MessageTypes, Writes = MessageWrites,
                      Counts = MessageCounts
               PROVE  MessagesSpec => []BufferIsFilled
  OBVIOUS
<1>4. TypedInv => BufferIsFilled BY <1>3, ChainTablesAgree, TypedMeans
<1>5. QED BY <1>1, <1>2, <1>4, PTL DEF MessagesSpec
=============================================================================
