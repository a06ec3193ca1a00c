---------------------------- MODULE Decoder_proofs ----------------------------
(***************************************************************************)
(* The decoder decodes what was sent.  First a grammar: what the bytes of  *)
(* a message mean, said without the decoder, and that the decoder agrees   *)
(* with it.  Then the encoder: the bytes it writes have, in this grammar,  *)
(* the message as their meaning, alone, joined or among unknown fields.    *)
(***************************************************************************)
EXTENDS Messages_proofs

-----------------------------------------------------------------------------
(* What the bytes of a message mean, said without the decoder.             *)
(* Bytes e stand in s from a to b.                                         *)
Holds(s, a, b, e) == b = a + Len(e) /\ \A i \in 1..Len(e) : s[a + i] = e[i]

(* A number stands there, as encodeVarint writes it.                       *)
HoldsVarint(s, a, b, n) == n \in Nat /\ n < 2 * Half /\ Holds(s, a, b, encodeVarint[n])

(* The bytes from start to end, decoded into message, give result.         *)
Task(t, start, end, message, result) ==
  [type |-> t, start |-> start, end |-> end, message |-> message, result |-> result]

(* Message m of type t with v assigned to field f, or appended to it.      *)
With(t, m, f, v) == [m EXCEPT ![f] = IF Schema[t][f].many THEN Append(@, v) ELSE v]

(* What an embedded message is decoded into.                               *)
EmbeddedInto(field, old) == IF field.many \/ old = Nil THEN Empty[field.of] ELSE old

(* The bytes from d to e are value v of field f, which m has already.      *)
HoldsValue(s, R, t, m, f, d, e, v) ==
  LET field == Schema[t][f] IN
  \/ field.kind = "bytes" /\ v = SubSeq(s, d + 1, e)
  \/ /\ field.kind = "number"
     /\ SubSeq(s, d + 1, e) \in DOMAIN Decimal /\ v = Decimal[SubSeq(s, d + 1, e)]
  \/ /\ field.kind = "message"
     /\ Task(field.of, d, e, EmbeddedInto(field, m[f]), v) \in R

(* What remains of task x after value v of field f, which ends at e.       *)
Remains(R, x, f, e, v) ==
  e <= x.end /\ Task(x.type, e, x.end, With(x.type, x.message, f, v), x.result) \in R

(* What number k means as the value of a field.                            *)
NumberIn(field, k) == IF field.kind = "uint" THEN k ELSE k # 0

(* Number k is the value of field f, or the length of its value.           *)
NumberFollows(R, x, f, d, k) ==
  LET field == Schema[x.type][f] IN
  /\ Wanted(field.kind) = 0
  /\ Remains(R, x, f, d, NumberIn(field, k))

(* Number k is the length of the value of field f, which begins at d.      *)
SliceFollows(s, R, x, f, d, k) ==
  /\ Wanted(Schema[x.type][f].kind) = 2
  /\ \E v : HoldsValue(s, R, x.type, x.message, f, d, d + k, v) /\ Remains(R, x, f, d + k, v)

(* A field of the message follows tag n, which ends at c.                  *)
KnownFollows(s, R, x, c, n) ==
  LET f == n \div 8 IN
  /\ f \in DOMAIN Schema[x.type] /\ f < NumHalf
  /\ n % 8 = Wanted(Schema[x.type][f].kind)
  /\ \E k, d : /\ HoldsVarint(s, c, d, k)
               /\ NumberFollows(R, x, f, d, k) \/ SliceFollows(s, R, x, f, d, k)

(* At depth k of groups, what is skipped from q on ends at e.              *)
SkipsOn(S, q, k, e) == q <= e /\ IF k = 0 THEN q = e ELSE <<q, k, e>> \in S

(* So does what is skipped with tag n, which ends at c.                    *)
SkipFollows(s, S, c, n, k, e) ==
  \/ n % 8 = 0 /\ \E v, d : HoldsVarint(s, c, d, v) /\ SkipsOn(S, d, k, e)
  \/ n % 8 = 1 /\ SkipsOn(S, c + 8, k, e)
  \/ n % 8 = 2 /\ \E v, d : HoldsVarint(s, c, d, v) /\ SkipsOn(S, d + v, k, e)
  \/ n % 8 = 3 /\ SkipsOn(S, c, k + 1, e)
  \/ n % 8 = 4 /\ k > 0 /\ SkipsOn(S, c, k - 1, e)
  \/ n % 8 = 5 /\ SkipsOn(S, c + 4, k, e)

(* S is a set of places in groups, <<index, depth, end>>, and at each the  *)
(* bytes s have a tag that leads to another, or to the end.                *)
Skips(s, S) ==
  \A x \in S : /\ x[1] \in Nat /\ x[2] \in Nat /\ x[3] \in Nat
              /\ \E n, c : HoldsVarint(s, x[1], c, n) /\ SkipFollows(s, S, c, n, x[2], x[3])

(* Tag n is of a field that messages of type t do not have, up to e.       *)
SkipsField(s, t, c, n, e) ==
  /\ n \div 8 > 0 /\ n \div 8 < NumHalf /\ n \div 8 \notin DOMAIN Schema[t]
  /\ \E S : Skips(s, S) /\ SkipFollows(s, S, c, n, 0, e)

(* Such a field follows: the message stays as it is.                       *)
UnknownFollows(s, R, x, c, n) ==
  /\ HoldsVarint(s, x.start, c, n)
  /\ \E e : /\ SkipsField(s, x.type, c, n, e) /\ e <= x.end
           /\ Task(x.type, e, x.end, x.message, x.result) \in R

(* The field that tag n begins, known or not, and what comes after it.     *)
FieldFollows(s, R, x, c, n) == KnownFollows(s, R, x, c, n) \/ UnknownFollows(s, R, x, c, n)

(* R is a set of tasks that the bytes s explain: a task is done, or begins *)
(* with a field that leads to another, and to one for an embedded message. *)
Explains(s, R) ==
  \A x \in R : \/ x.start = x.end /\ x.message = x.result
               \/ \E n, c : HoldsVarint(s, x.start, c, n) /\ FieldFollows(s, R, x, c, n)

(* Words are wide enough for a byte of tag, and the loops for all groups.  *)
WordsFit ==
  /\ High = 128 /\ Half >= 64 /\ NumHalf >= 16
  /\ \A n \in Nat : n < 2 * Half => Len(encodeVarint[n]) <= MaxGroups

-----------------------------------------------------------------------------
(* Number n is being read from s, is v so far at index i, and ends at d.   *)
BeingRead(s, i, v, n, d) ==
  /\ n \in Nat /\ n < 2 * Half
  /\ IF v.done THEN v.value = n /\ i = d
     ELSE \E k \in Nat : /\ Holds(s, i, d, encodeVarint[k])
                         /\ v.value + k * v.scale = n
                         /\ v.groups + Len(encodeVarint[k]) <= MaxGroups

(* A number that does not fit one group: its lowest group, marked, before  *)
(* the groups of the rest.                                                 *)
LEMMA MoreGroups ==
  ASSUME High = 128, NEW n \in Nat, n >= 128, NEW q \in Nat, q = n \div 128
  PROVE  /\ encodeVarint[n] \in Seq(Nat)
         /\ encodeVarint[n][1] = 128 + (n % 128)
         /\ Len(encodeVarint[n]) = Len(encodeVarint[q]) + 1 /\ Len(encodeVarint[q]) \in Nat
         /\ \A i \in 1..Len(encodeVarint[q]) : encodeVarint[n][i + 1] = encodeVarint[q][i]
<1>1. PICK r \in Nat : r = 128 + (n % 128) OBVIOUS
<1>2. PICK e \in Seq(Nat) : e = encodeVarint[q] BY Varint
<1>3. encodeVarint[n] = <<r>> \o e BY <1>1, <1>2, Varint
<1>4. /\ <<r>> \o e \in Seq(Nat) /\ Len(<<r>> \o e) = Len(e) + 1 /\ (<<r>> \o e)[1] = r
      /\ \A i \in 1..Len(e) : (<<r>> \o e)[i + 1] = e[i]
      /\ Len(e) \in Nat
  OBVIOUS
<1>5. QED BY <1>1, <1>2, <1>3, <1>4

(* Every number has at least one byte, and a small one is its own byte.    *)
LEMMA VarintBytes ==
  ASSUME High = 128, NEW n \in Nat
  PROVE  /\ encodeVarint[n] \in Seq(Nat) /\ Len(encodeVarint[n]) \in Nat \ {0}
         /\ n < 128 => encodeVarint[n][1] = n /\ Len(encodeVarint[n]) = 1
<1>1. CASE n < 128
  <2>1. encodeVarint[n] = <<n>> BY <1>1, Varint
  <2>2. QED BY <1>1, <2>1
<1>2. CASE n >= 128
  <2>1. PICK q \in Nat : q = n \div 128 OBVIOUS
  <2>2. QED BY <1>2, <2>1, MoreGroups
<1>3. QED BY <1>1, <1>2

(* A number that is being read ends behind the index.                      *)
LEMMA ReadEnds ==
  ASSUME High = 128, NEW s, NEW i \in Int, NEW v, NEW n, NEW d, BeingRead(s, i, v, n, d)
  PROVE  d \in Int /\ i <= d
<1>1. CASE v.done BY <1>1 DEF BeingRead
<1>2. CASE ~v.done
  <2>1. PICK k \in Nat : Holds(s, i, d, encodeVarint[k]) BY <1>2 DEF BeingRead
  <2>2. Len(encodeVarint[k]) \in Nat BY VarintBytes
  <2>3. d = i + Len(encodeVarint[k]) BY <2>1 DEF Holds
  <2>4. QED BY <2>2, <2>3
<1>3. QED BY <1>1, <1>2

(* There is a group left to read, and room for it.                         *)
LEMMA NotStuck ==
  ASSUME High = 128, NEW s, NEW i \in Int, NEW v, ~v.done, v.groups \in Nat,
         NEW n, NEW d \in Int, BeingRead(s, i, v, n, d)
  PROVE  v.groups < MaxGroups /\ i < d
<1>1. PICK k \in Nat : /\ Holds(s, i, d, encodeVarint[k])
                       /\ v.groups + Len(encodeVarint[k]) <= MaxGroups
  BY DEF BeingRead
<1>2. Len(encodeVarint[k]) \in Nat \ {0} BY VarintBytes
<1>3. d = i + Len(encodeVarint[k]) BY <1>1 DEF Holds
<1>4. MaxGroups \in Nat BY WireAssumption
<1>5. QED BY <1>1, <1>2, <1>3, <1>4

(* An iteration reads the lowest group of what is left of the number.      *)
LEMMA GroupReads ==
  ASSUME High = 128, Group, num.value \in Nat, num.scale \in Nat,
         num.groups \in Nat, at \in Int, NEW n, NEW d, BeingRead(input, at, num, n, d)
  PROVE  BeingRead(input, at', num', n, d)
<1>0. Half \in Nat /\ MaxGroups \in Nat BY WireAssumption
<1>1. PICK k \in Nat : /\ Holds(input, at, d, encodeVarint[k])
                       /\ num.value + k * num.scale = n
                       /\ num.groups + Len(encodeVarint[k]) <= MaxGroups
  BY DEF BeingRead, Group
<1>2. n \in Nat /\ n < 2 * Half BY DEF BeingRead
<1> DEFINE b == input[at + 1]
<1>3. /\ num'.value = (num.value + (b % 128) * num.scale) % (2 * Half)
      /\ num'.scale = num.scale * 128 /\ num'.groups = num.groups + 1 /\ num'.done = (b < 128)
      /\ at' = at + 1
  BY DEF Group
<1>4. PICK value \in Nat, scale \in Nat, groups \in Nat, i \in Int :
        value = num.value /\ scale = num.scale /\ groups = num.groups /\ i = at
  OBVIOUS
<1>5. Len(encodeVarint[k]) \in Nat \ {0} BY VarintBytes
<1>6. b = encodeVarint[k][1] BY <1>1, <1>5 DEF Holds
<1> HIDE DEF b
<1>7. CASE k < 128
  <2>1. b = k /\ Len(encodeVarint[k]) = 1 BY <1>6, <1>7, VarintBytes
  <2>2. d = i + 1 BY <1>1, <1>4, <2>1 DEF Holds
  <2>3. b % 128 = k BY <1>7, <2>1
  <2>4. (value + k * scale) % (2 * Half) = n
    <3>1. value + k * scale = n BY <1>1, <1>4
    <3>2. QED BY <1>0, <1>2, <3>1
  <2>5. num'.value = n /\ num'.done /\ at' = d BY <1>3, <1>4, <1>7, <2>1, <2>2, <2>3, <2>4
  <2>6. QED BY <1>2, <2>5 DEF BeingRead
<1>8. CASE k >= 128
  <2>1. PICK q \in Nat, r \in 0..127 : q = k \div 128 /\ r = k % 128 /\ k = 128 * q + r
    <3>1. k \div 128 \in Nat /\ k % 128 \in 0..127 /\ k = 128 * (k \div 128) + (k % 128)
      OBVIOUS
    <3>2. QED BY <3>1
  <2>2. /\ b = 128 + r /\ Len(encodeVarint[k]) = Len(encodeVarint[q]) + 1
        /\ \A j \in 1..Len(encodeVarint[q]) : encodeVarint[k][j + 1] = encodeVarint[q][j]
    BY <1>6, <1>8, <2>1, MoreGroups
  <2>3. Len(encodeVarint[q]) \in Nat BY VarintBytes
  <2>4. b % 128 = r /\ ~(b < 128) BY <2>1, <2>2
  <2>5. Holds(input, at', d, encodeVarint[q])
    <3>1. d = i + 1 + Len(encodeVarint[q])
      <4>1. d = i + Len(encodeVarint[k]) BY <1>1, <1>4 DEF Holds
      <4>2. PICK l \in Nat : l = Len(encodeVarint[q]) BY <2>3
      <4>3. d = i + (l + 1) BY <2>2, <4>1, <4>2
      <4>4. d = i + 1 + l BY <4>3
      <4>5. QED BY <4>2, <4>4, Zenon
    <3>2. ASSUME NEW j \in 1..Len(encodeVarint[q])
          PROVE  input[i + 1 + j] = encodeVarint[q][j]
      <4>1. j + 1 \in 1..Len(encodeVarint[k]) /\ i + (j + 1) = i + 1 + j BY <2>2, <2>3
      <4>2. input[i + (j + 1)] = encodeVarint[k][j + 1] BY <1>1, <1>4, <4>1 DEF Holds
      <4>3. QED BY <2>2, <4>1, <4>2
    <3>3. at' = i + 1 BY <1>3, <1>4
    <3>4. QED BY <3>1, <3>2, <3>3 DEF Holds
  <2>6. value + r * scale \in Nat /\ value + r * scale + q * (scale * 128) = n
    <3>1. k * scale = q * (scale * 128) + r * scale BY <2>1
    <3>2. value + k * scale = n BY <1>1, <1>4
    <3>3. r * scale \in Nat /\ q * (scale * 128) \in Nat BY <2>1
    <3>4. QED BY <3>1, <3>2, <3>3
  <2>7. (value + r * scale) % (2 * Half) = value + r * scale
    <3>1. q * (scale * 128) \in Nat OBVIOUS
    <3>2. PICK y \in Nat : y = value + r * scale BY <2>6
    <3>3. y < 2 * Half BY <1>0, <1>2, <2>6, <3>1, <3>2
    <3>4. QED BY <1>0, <3>2, <3>3
  <2>8. num'.value + q * num'.scale = n BY <1>3, <1>4, <2>4, <2>6, <2>7
  <2>9. num'.groups + Len(encodeVarint[q]) <= MaxGroups
    <3>1. PICK l \in Nat : l = Len(encodeVarint[q]) BY <2>3
    <3>2. groups + (l + 1) <= MaxGroups BY <1>1, <1>4, <2>2, <3>1
    <3>3. num'.groups = groups + 1 BY <1>3, <1>4
    <3>4. groups + 1 + l <= MaxGroups BY <1>0, <3>2
    <3>5. QED BY <3>1, <3>3, <3>4, Zenon
  <2>10. ~num'.done BY <1>3, <2>4
  <2>11. QED BY <1>2, <2>5, <2>8, <2>9, <2>10 DEF BeingRead
<1>9. QED BY <1>7, <1>8

(* Nothing is read yet of a number that stands at the index.               *)
LEMMA ReadFromHere ==
  ASSUME WordsFit, NEW s, NEW i, NEW n, NEW d, HoldsVarint(s, i, d, n)
  PROVE  BeingRead(s, i, Zero, n, d)
<1>1. n \in Nat /\ n < 2 * Half /\ Holds(s, i, d, encodeVarint[n]) BY DEF HoldsVarint
<1>2. Len(encodeVarint[n]) \in Nat /\ Len(encodeVarint[n]) <= MaxGroups
  BY <1>1, VarintBytes DEF WordsFit
<1>3. ~Zero.done /\ Zero.value = 0 /\ Zero.scale = 1 /\ Zero.groups = 0 BY DEF Zero
<1>4. Zero.value + n * Zero.scale = n BY <1>1, <1>3
<1>5. Zero.groups + Len(encodeVarint[n]) <= MaxGroups BY <1>2, <1>3
<1>6. QED BY <1>1, <1>3, <1>4, <1>5 DEF BeingRead

(* What the last call has to do from the beginning of the field on.        *)
TopTask(g) == Task(Top.type, pre, Top.to, Top.message, g)

(* It is in the middle of a field.                                         *)
Started(R, g) ==
  \E n, d : /\ BeingRead(input, at, num, n, d)
            /\ \/ phase = "tag" /\ FieldFollows(input, R, TopTask(g), d, n)
               \/ phase = "bool" /\ NumberFollows(R, TopTask(g), Top.field, d, n)
               \/ phase = "length" /\ SliceFollows(input, R, TopTask(g), Top.field, d, n)

(* It is in the middle of a field that it skips, up to e.                  *)
Skipping(S, e) ==
  \E n, d : /\ BeingRead(input, at, num, n, d)
            /\ \/ phase = "skipTag" /\ SkipFollows(input, S, d, n, depth, e)
               \/ phase = "skipVarint" /\ SkipsOn(S, d, depth, e)
               \/ phase = "skipLength" /\ SkipsOn(S, d + n, depth, e)

(* Behind that field, the rest of the slice makes message g.               *)
SkipStarted(R, g) ==
  /\ depth \in Nat
  /\ \E S, e : /\ Skips(input, S) /\ Skipping(S, e)
              /\ e \in Int /\ e <= Top.to /\ Task(Top.type, e, Top.to, Top.message, g) \in R

(* What is left for it to read makes its message g.                        *)
Expects(R, g) ==
  \/ phase = "tag" /\ num = Zero /\ at = pre /\ TopTask(g) \in R
  \/ Started(R, g)
  \/ SkipStarted(R, g)

(* Call c, which is to make g, goes on after call d has made h.            *)
Waits(R, c, d, g, h) ==
  Task(c.type, d.to, c.to, With(c.type, c.message, c.field, h), g) \in R

(* The bytes explain that call i makes goals[i].                           *)
Promised(R, goals) ==
  /\ Explains(input, R)
  /\ goals[1] = sent
  /\ \A i \in 1..Len(stack)-1 : Waits(R, stack[i], stack[i + 1], goals[i], goals[i + 1])
  /\ Expects(R, goals[Len(stack)])

(* The inductive invariant: what is sent is what will be decoded.          *)
DecodeInv ==
  /\ TypedInv
  /\ num.groups \in Nat
  /\ sent # Nil =>
       /\ phase # "failed"
       /\ phase = "decoded" => Message = sent
       /\ phase \in Varints => \E R, goals : Promised(R, goals)

(* What is assumed of words and of numbers: none is written with no bytes, *)
(* which the decoder takes for no number at all.                           *)
Fit == WordsFit /\ <<>> \notin DOMAIN Decimal

-----------------------------------------------------------------------------
(* What a task is made of.                                                 *)
LEMMA TaskFields ==
  ASSUME NEW t, NEW start, NEW end, NEW m, NEW g
  PROVE  LET x == Task(t, start, end, m, g) IN
         x.type = t /\ x.start = start /\ x.end = end /\ x.message = m /\ x.result = g
BY DEF Task

(* What is skipped does not end before it begins.                          *)
LEMMA SkipInside ==
  ASSUME High = 128, NEW s, NEW S, NEW c \in Int, NEW n, NEW k, NEW e \in Int,
         SkipFollows(s, S, c, n, k, e)
  PROVE  c <= e
<1>1. ASSUME NEW v, NEW d, HoldsVarint(s, c, d, v) PROVE d \in Int /\ c < d /\ v \in Nat
  <2>1. v \in Nat /\ Len(encodeVarint[v]) \in Nat \ {0} BY <1>1, VarintBytes DEF HoldsVarint
  <2>2. d = c + Len(encodeVarint[v]) BY <1>1 DEF HoldsVarint, Holds
  <2>3. QED BY <2>1, <2>2
<1>2. CASE \E v, d : HoldsVarint(s, c, d, v) /\ SkipsOn(S, d, k, e)
  <2>1. PICK v, d : HoldsVarint(s, c, d, v) /\ d <= e BY <1>2 DEF SkipsOn
  <2>2. d \in Int /\ c < d BY <1>1, <2>1
  <2>3. QED BY <2>1, <2>2
<1>3. CASE \E v, d : HoldsVarint(s, c, d, v) /\ SkipsOn(S, d + v, k, e)
  <2>1. PICK v, d : HoldsVarint(s, c, d, v) /\ d + v <= e BY <1>3 DEF SkipsOn
  <2>2. d \in Int /\ c < d /\ v \in Nat BY <1>1, <2>1
  <2>3. QED BY <2>1, <2>2
<1>4. CASE c + 8 <= e \/ c + 4 <= e \/ c <= e BY <1>4
<1>5. QED BY <1>2, <1>3, <1>4 DEF SkipFollows, SkipsOn

(* The field that begins with a tag ends behind it.                        *)
LEMMA SkipBehind ==
  ASSUME High = 128, NEW s, NEW S, Skips(s, S), NEW c \in Int, NEW n, NEW e,
         SkipFollows(s, S, c, n, 0, e)
  PROVE  c < e /\ e \in Int
<1>1. ASSUME NEW v, NEW d, HoldsVarint(s, c, d, v) PROVE d \in Int /\ c < d /\ v \in Nat
  <2>1. v \in Nat /\ Len(encodeVarint[v]) \in Nat \ {0} BY <1>1, VarintBytes DEF HoldsVarint
  <2>2. d = c + Len(encodeVarint[v]) BY <1>1 DEF HoldsVarint, Holds
  <2>3. QED BY <2>1, <2>2
<1>2. CASE \E v, d : HoldsVarint(s, c, d, v) /\ SkipsOn(S, d, 0, e)
  <2>1. PICK v, d : HoldsVarint(s, c, d, v) /\ d = e BY <1>2 DEF SkipsOn
  <2>2. QED BY <1>1, <2>1
<1>3. CASE \E v, d : HoldsVarint(s, c, d, v) /\ SkipsOn(S, d + v, 0, e)
  <2>1. PICK v, d : HoldsVarint(s, c, d, v) /\ d + v = e BY <1>3 DEF SkipsOn
  <2>2. d \in Int /\ c < d /\ v \in Nat BY <1>1, <2>1
  <2>3. QED BY <2>1, <2>2
<1>4. CASE c + 8 = e \/ c + 4 = e BY <1>4
<1>5. CASE SkipsOn(S, c, 1, e)
  <2>1. PICK x : x \in S /\ x = <<c, 1, e>> BY <1>5 DEF SkipsOn
  <2>2. x[1] = c /\ x[2] = 1 /\ x[3] = e BY <2>1
  <2>3. PICK m, d : HoldsVarint(s, c, d, m) /\ SkipFollows(s, S, d, m, 1, e)
    BY <2>1, <2>2 DEF Skips
  <2>4. e \in Nat BY <2>1, <2>2 DEF Skips
  <2>5. d \in Int /\ c < d BY <1>1, <2>3
  <2>6. d <= e BY <2>3, <2>4, <2>5, SkipInside
  <2>7. QED BY <2>4, <2>5, <2>6
<1>6. QED
  <2>1. \/ \E v, d : HoldsVarint(s, c, d, v) /\ SkipsOn(S, d, 0, e)
        \/ \E v, d : HoldsVarint(s, c, d, v) /\ SkipsOn(S, d + v, 0, e)
        \/ SkipsOn(S, c + 8, 0, e) \/ SkipsOn(S, c + 4, 0, e)
        \/ SkipsOn(S, c, 0 + 1, e)
    BY DEF SkipFollows
  <2>2. \A q : SkipsOn(S, q, 0, e) => q = e BY DEF SkipsOn
  <2>3. 0 + 1 = 1 OBVIOUS
  <2>4. QED BY <1>2, <1>3, <1>4, <1>5, <2>1, <2>2, <2>3

(* The field that follows a tag ends inside the slice of its call.         *)
LEMMA FieldInside ==
  ASSUME High = 128, NEW s, NEW R, NEW x, x.end \in Int, NEW c \in Int, NEW n,
         FieldFollows(s, R, x, c, n)
  PROVE  c < x.end
<1>1. CASE KnownFollows(s, R, x, c, n)
  <2>1. PICK k, d : /\ HoldsVarint(s, c, d, k)
                    /\ NumberFollows(R, x, n \div 8, d, k) \/ SliceFollows(s, R, x, n \div 8, d, k)
    BY <1>1 DEF KnownFollows
  <2>2. k \in Nat /\ Len(encodeVarint[k]) \in Nat \ {0} BY <2>1, VarintBytes DEF HoldsVarint
  <2>3. d = c + Len(encodeVarint[k]) BY <2>1 DEF HoldsVarint, Holds
  <2>4. d <= x.end \/ d + k <= x.end BY <2>1 DEF NumberFollows, SliceFollows, Remains
  <2>5. QED BY <2>2, <2>3, <2>4
<1>2. CASE UnknownFollows(s, R, x, c, n)
  <2>1. PICK S, e : Skips(s, S) /\ SkipFollows(s, S, c, n, 0, e) /\ e <= x.end
    BY <1>2 DEF UnknownFollows, SkipsField
  <2>2. c < e /\ e \in Int BY <2>1, SkipBehind
  <2>3. QED BY <2>1, <2>2
<1>3. QED BY <1>1, <1>2 DEF FieldFollows

(* A varint ends inside the slice too, whatever it is.                     *)
LEMMA StartedInside ==
  ASSUME High = 128, CursorInv, NEW R, NEW g,
         NEW n, NEW d, BeingRead(input, at, num, n, d),
         \/ phase = "tag" /\ FieldFollows(input, R, TopTask(g), d, n)
         \/ phase = "bool" /\ NumberFollows(R, TopTask(g), Top.field, d, n)
         \/ phase = "length" /\ SliceFollows(input, R, TopTask(g), Top.field, d, n)
  PROVE  d \in Int /\ at \in Int /\ at <= d /\ d <= Top.to /\ n \in Nat
<1>1. at \in Int /\ Top.to \in Int BY LastCall DEF CursorInv
<1>2. d \in Int /\ at <= d /\ n \in Nat BY <1>1, ReadEnds DEF BeingRead
<1>3. TopTask(g).end = Top.to BY TaskFields DEF TopTask
<1>4. CASE FieldFollows(input, R, TopTask(g), d, n) BY <1>1, <1>2, <1>3, <1>4, FieldInside
<1>5. CASE NumberFollows(R, TopTask(g), Top.field, d, n)
  BY <1>1, <1>2, <1>3, <1>5 DEF NumberFollows, Remains
<1>6. CASE SliceFollows(input, R, TopTask(g), Top.field, d, n)
  <2>1. d + n <= Top.to BY <1>3, <1>6 DEF SliceFollows, Remains
  <2>2. QED BY <1>1, <1>2, <2>1
<1>7. QED BY <1>1, <1>2, <1>4, <1>5, <1>6

(* A call that is not done begins with a field.                            *)
LEMMA FieldBegins ==
  ASSUME Fit, NEW R, NEW g, Explains(input, R), Expects(R, g),
         phase \in {"tag", "bool", "length"}, num.done \/ at # Top.to
  PROVE  Started(R, g)
<1>1. CASE phase = "tag" /\ num = Zero /\ at = pre /\ TopTask(g) \in R
  <2>1. ~num.done BY <1>1 DEF Zero
  <2>2. TopTask(g).start = pre /\ TopTask(g).end = Top.to BY TaskFields DEF TopTask
  <2>3. PICK n, c : HoldsVarint(input, at, c, n) /\ FieldFollows(input, R, TopTask(g), c, n)
    BY <1>1, <2>1, <2>2 DEF Explains
  <2>4. BeingRead(input, at, num, n, c) BY <1>1, <2>3, ReadFromHere DEF Fit
  <2>5. QED BY <1>1, <2>3, <2>4 DEF Started
<1>2. QED BY <1>1 DEF Expects, SkipStarted, Skipping

(* What is done at the end is what it should be.                           *)
LEMMA ResultAtEnd ==
  ASSUME Fit, CursorInv, NEW R, NEW g, Explains(input, R), Expects(R, g),
         phase = "tag", at = Top.to
  PROVE  Top.message = g
<1>0. High = 128 BY DEF Fit, WordsFit
<1>1. at \in Int /\ Top.to \in Int BY LastCall DEF CursorInv
<1>2. TopTask(g).start = pre /\ TopTask(g).end = Top.to /\ TopTask(g).message = Top.message
      /\ TopTask(g).result = g
  BY TaskFields DEF TopTask
<1>3. CASE Started(R, g)
  <2>1. PICK n, d : /\ BeingRead(input, at, num, n, d)
                    /\ FieldFollows(input, R, TopTask(g), d, n)
    BY <1>3 DEF Started
  <2>2. d \in Int /\ at <= d BY <1>0, <1>1, <2>1, ReadEnds
  <2>3. d < Top.to BY <1>0, <1>1, <1>2, <2>1, <2>2, FieldInside
  <2>4. QED BY <1>1, <2>2, <2>3
<1>4. CASE at = pre /\ TopTask(g) \in R
  <2>1. SUFFICES ASSUME NEW n, NEW c, HoldsVarint(input, at, c, n),
                        FieldFollows(input, R, TopTask(g), c, n)
                 PROVE  FALSE
    BY <1>2, <1>4 DEF Explains
  <2>2. n \in Nat /\ c = at + Len(encodeVarint[n]) BY <2>1 DEF HoldsVarint, Holds
  <2>3. Len(encodeVarint[n]) \in Nat BY <1>0, <2>2, VarintBytes
  <2>4. c \in Int /\ at <= c BY <1>1, <2>2, <2>3
  <2>5. c < Top.to BY <1>0, <1>1, <1>2, <2>1, <2>4, FieldInside
  <2>6. QED BY <1>1, <2>4, <2>5
<1>5. QED BY <1>3, <1>4 DEF Expects, SkipStarted, Skipping

-----------------------------------------------------------------------------
(* An iteration of a loop that reads a varint leaves the same to be done:  *)
(* the rest of the number is still there.                                  *)
LEMMA ExpectsGroup ==
  ASSUME Fit, TypedInv, num.groups \in Nat, Group, UNCHANGED input,
         NEW R, NEW g, Explains(input, R), Expects(R, g)
  PROVE  Expects(R, g)'
<1>1. CursorInv /\ at \in Int /\ Top.to \in Int /\ num.value \in Nat /\ num.scale \in Nat
  BY LastCall DEF TypedInv, CursorInv
<1>2. at # Top.to /\ UNCHANGED <<stack, pre, phase>> BY <1>1 DEF Group
<1>3. Top' = Top /\ TopTask(g)' = TopTask(g) /\ depth' = depth BY <1>2 DEF Top, TopTask, Group
<1>4. \A n, d : BeingRead(input, at, num, n, d) => BeingRead(input, at', num', n, d)
  BY <1>1, GroupReads DEF Fit, WordsFit
<1>5. CASE SkipStarted(R, g)
  <2>1. PICK S, e : /\ Skips(input, S) /\ Skipping(S, e) /\ e \in Int /\ e <= Top.to
                    /\ Task(Top.type, e, Top.to, Top.message, g) \in R
    BY <1>5 DEF SkipStarted
  <2>2. Skipping(S, e)' BY <1>2, <1>3, <1>4, <2>1 DEF Skipping
  <2>3. Skips(input', S) /\ depth' \in Nat BY <1>3, <1>5, <2>1 DEF SkipStarted
  <2>4. SkipStarted(R, g)' BY <1>3, <2>1, <2>2, <2>3 DEF SkipStarted
  <2>5. QED BY <2>4 DEF Expects
<1>6. CASE Started(R, g)
  <2>1. Started(R, g)' BY <1>2, <1>3, <1>4, <1>6 DEF Started
  <2>2. QED BY <2>1 DEF Expects
<1>7. CASE phase = "tag"
  <2>1. Started(R, g) BY <1>2, <1>7, FieldBegins
  <2>2. QED BY <1>6, <2>1
<1>8. QED BY <1>5, <1>6, <1>7 DEF Expects

(* The tag of a field of the message leaves the field's value to be read.  *)
LEMMA ExpectsKnownTag ==
  ASSUME Fit, TypedInv, KnownTag, UNCHANGED input,
         NEW R, NEW g, Explains(input, R), Expects(R, g)
  PROVE  /\ Expects(R, g)'
         /\ \E c : c.to = Top.to /\ stack' = [stack EXCEPT ![Len(stack)] = c]
<1> DEFINE c == Call(Top.type, FieldNumber, Top.from, Top.to, Top.message)
<1>1. IsTyped(Top) /\ TypedCalls(stack) BY LastTyped DEF TypedInv, Top
<1>2. [Top EXCEPT !.field = FieldNumber] = c BY <1>1 DEF IsTyped, IsCall, Call
<1>3. stack' = [stack EXCEPT ![Len(stack)] = c] BY <1>2 DEF KnownTag, Top
<1>4. /\ c.type = Top.type /\ c.to = Top.to /\ c.message = Top.message /\ c.field = FieldNumber
      /\ IsCall(c)
  BY DEF IsCall, Call
<1> HIDE DEF c
<1>5. IsTyped(c) BY <1>1, <1>4 DEF IsTyped
<1>6. Top' = c
  <2>1. Len(stack') = Len(stack) /\ stack'[Len(stack)] = c
    BY <1>1, <1>3, <1>4, <1>5, TypedReplaced DEF Top
  <2>2. QED BY <2>1 DEF Top
<1>7. PICK n, d : /\ BeingRead(input, at, num, n, d)
                  /\ FieldFollows(input, R, TopTask(g), d, n)
  <2>1. num.done /\ phase = "tag" BY DEF KnownTag
  <2>2. Started(R, g) BY <2>1, FieldBegins
  <2>3. QED BY <2>1, <2>2 DEF Started
<1>8. num.value = n /\ at = d /\ n \in Nat /\ n < 2 * Half BY <1>7 DEF BeingRead, KnownTag
<1>9. FieldNumber = n \div 8 /\ WireType = n % 8
  <2>1. n \div 8 < NumHalf /\ NumHalf \in Nat
    BY <1>7, WireAssumption DEF FieldFollows, KnownFollows, UnknownFollows, SkipsField
  <2>2. n \div 8 \in Nat BY <1>8
  <2>3. (n \div 8) % (2 * NumHalf) = n \div 8 BY <2>1, <2>2
  <2>4. QED BY <1>8, <2>1, <2>3 DEF FieldNumber, WireType
<1>10. PICK k, e : /\ HoldsVarint(input, d, e, k)
                   /\ \/ NumberFollows(R, TopTask(g), FieldNumber, e, k)
                      \/ SliceFollows(input, R, TopTask(g), FieldNumber, e, k)
  <2>1. ~UnknownFollows(input, R, TopTask(g), d, n)
    BY <1>9, TaskFields DEF UnknownFollows, SkipsField, TopTask, KnownTag, Known, Fields
  <2>2. KnownFollows(input, R, TopTask(g), d, n) BY <1>7, <2>1 DEF FieldFollows
  <2>3. QED BY <1>9, <2>2 DEF KnownFollows
<1>11. TopTask(g)' = TopTask(g) /\ Top'.field = FieldNumber
  BY <1>4, <1>6 DEF TopTask, KnownTag
<1>12. BeingRead(input, at', num', k, e)
  <2>1. at' = d /\ num' = Zero BY <1>8 DEF KnownTag
  <2>2. QED BY <1>10, <2>1, ReadFromHere DEF Fit
<1>13. /\ phase' = IF n % 8 = 0 THEN "bool" ELSE "length"
       /\ n % 8 = Wanted(Schema[Top.type][FieldNumber].kind)
  BY <1>9 DEF KnownTag, Fields
<1>14. TopTask(g).type = Top.type BY TaskFields DEF TopTask
<1>15. CASE NumberFollows(R, TopTask(g), FieldNumber, e, k)
  <2>1. phase' = "bool" BY <1>13, <1>14, <1>15 DEF NumberFollows
  <2>2. QED BY <1>3, <1>4, <1>11, <1>12, <1>15, <2>1 DEF Expects, Started
<1>16. CASE SliceFollows(input, R, TopTask(g), FieldNumber, e, k)
  <2>1. phase' = "length" BY <1>13, <1>14, <1>16 DEF SliceFollows
  <2>2. QED BY <1>3, <1>4, <1>11, <1>12, <1>16, <2>1 DEF Expects, Started
<1>17. QED BY <1>10, <1>15, <1>16

(* A value is assigned, and the next field begins behind it.               *)
LEMMA ExpectsAssigned ==
  ASSUME TypedInv, UNCHANGED input, NEW R, NEW g, NEW v, NEW e,
         Remains(R, TopTask(g), Top.field, e, v), Assign(v), NextField(e)
  PROVE  /\ Expects(R, g)'
         /\ \E c : c.to = Top.to /\ stack' = [stack EXCEPT ![Len(stack)] = c]
<1> DEFINE msg == With(Top.type, Top.message, Top.field, v)
           c == Call(Top.type, Top.field, Top.from, Top.to, msg)
<1>1. IsCall(Top) /\ Nested(stack, Len(input)) /\ Len(input) \in Int
  BY LastCall DEF TypedInv, CursorInv
<1>2. [Top EXCEPT !.message = msg] = c
  <2> DEFINE old == Call(Top.type, Top.field, Top.from, Top.to, Top.message)
  <2>1. Top = old BY <1>1 DEF IsCall
  <2>2. [old EXCEPT !.message = msg] = c BY DEF Call
  <2> HIDE DEF old, msg, c
  <2>3. QED BY <2>1, <2>2
<1>3. stack' = [stack EXCEPT ![Len(stack)] = c]
  BY <1>2 DEF Assign, Top, With, Field, Fields
<1>4. IsCall(c) /\ c.type = Top.type /\ c.from = Top.from /\ c.to = Top.to /\ c.message = msg
  BY DEF IsCall, Call
<1> HIDE DEF c, msg
<1>5. Len(stack') = Len(stack) /\ stack'[Len(stack)] = c BY <1>1, <1>3, <1>4, SameSlice DEF Top
<1>6. Top' = c BY <1>5 DEF Top
<1>7. Task(Top.type, e, Top.to, msg, g) \in R
  BY TaskFields DEF Remains, TopTask, msg
<1>8. TopTask(g)' = Task(Top.type, e, Top.to, msg, g)
  BY <1>4, <1>6 DEF TopTask, NextField
<1>9. phase' = "tag" /\ num' = Zero /\ at' = pre' BY DEF NextField
<1>10. Expects(R, g)' BY <1>7, <1>8, <1>9 DEF Expects
<1>11. QED BY <1>3, <1>4, <1>10

(* A number is read: the one the bytes hold.                               *)
LEMMA ExpectsReadBool ==
  ASSUME Fit, TypedInv, ReadBool, UNCHANGED input, NEW R, NEW g, Explains(input, R), Expects(R, g)
  PROVE  /\ Expects(R, g)'
         /\ \E c : c.to = Top.to /\ stack' = [stack EXCEPT ![Len(stack)] = c]
<1>1. phase = "bool" /\ num.done BY DEF ReadBool
<1>2. PICK n, d : /\ BeingRead(input, at, num, n, d)
                  /\ NumberFollows(R, TopTask(g), Top.field, d, n)
  BY <1>1, FieldBegins DEF Started
<1>3. num.value = n /\ at = d BY <1>1, <1>2 DEF BeingRead
<1>4. TopTask(g).type = Top.type BY TaskFields DEF TopTask
<1> DEFINE v == NumberIn(Field, n)
<1>5. Remains(R, TopTask(g), Top.field, d, v)
  BY <1>2, <1>4 DEF NumberFollows, Field, Fields
<1>6. Assign(v) /\ NextField(d) BY <1>3 DEF ReadBool, NumberIn
<1> HIDE DEF v
<1>7. QED BY <1>5, <1>6, ExpectsAssigned

(* A slice that follows its length is the one that is read.                *)
LEMMA SliceRead ==
  ASSUME Fit, TypedInv, phase = "length", num.done, NEW R, NEW g, Explains(input, R), Expects(R, g)
  PROVE  /\ Top.from + PostIndex(Length) = at + num.value /\ LengthInSlice
         /\ SliceFollows(input, R, TopTask(g), Top.field, at, num.value)
<1>1. PICK n, d : /\ BeingRead(input, at, num, n, d)
                  /\ SliceFollows(input, R, TopTask(g), Top.field, d, n)
  BY FieldBegins DEF Started
<1>2. num.value = n /\ at = d /\ n \in Nat BY <1>1 DEF BeingRead
<1>3. CursorInv BY DEF TypedInv
<1>4. /\ Top.from \in Int /\ Top.to \in Int /\ 0 <= Top.from /\ Top.to < Half /\ Half \in Nat
      /\ at \in Int /\ Top.from <= at
  BY <1>3, LastCall DEF CursorInv, CursorInBounds
<1>5. at + n <= Top.to
  BY <1>1, <1>2, TaskFields DEF SliceFollows, Remains, TopTask
<1>6. Length = n
  <2>1. 0 <= n /\ n < Half /\ n < 2 * Half /\ n \in Int BY <1>2, <1>4, <1>5
  <2>2. Int64(n) = n BY <2>1, Int64Sum
  <2>3. QED BY <1>2, <2>2 DEF Length
<1>7. PICK i \in Int : i = at - Top.from + n BY <1>2, <1>4
<1>8. Int64(i) = i
  <2>1. 0 <= i /\ i < Half /\ i < 2 * Half BY <1>2, <1>4, <1>5, <1>7
  <2>2. QED BY <2>1, Int64Sum
<1>9. PostIndex(Length) = i BY <1>6, <1>7, <1>8 DEF PostIndex, Index
<1>10. Top.from + PostIndex(Length) = at + n BY <1>2, <1>4, <1>7, <1>9
<1>11. LengthInSlice
  <2>1. Index(Top.to) = Top.to - Top.from BY DEF Index
  <2>2. i >= 0 /\ i <= Top.to - Top.from /\ n >= 0 BY <1>2, <1>4, <1>5, <1>7
  <2>3. QED BY <1>6, <1>9, <2>1, <2>2 DEF LengthInSlice, InSlice
<1>12. QED BY <1>1, <1>2, <1>10, <1>11

(* Bytes or an amount are read: those the bytes hold.                      *)
LEMMA ExpectsReadBytes ==
  ASSUME Fit, TypedInv, ReadBytes, UNCHANGED input, NEW R, NEW g, Explains(input, R), Expects(R, g)
  PROVE  /\ Expects(R, g)'
         /\ \E c : c.to = Top.to /\ stack' = [stack EXCEPT ![Len(stack)] = c]
<1>1. phase = "length" /\ num.done BY DEF ReadBytes
<1>2. /\ Top.from + PostIndex(Length) = at + num.value
      /\ SliceFollows(input, R, TopTask(g), Top.field, at, num.value)
  BY <1>1, SliceRead
<1>3. NextField(at + num.value) /\ Slice = SubSeq(input, at + 1, at + num.value)
  BY <1>2 DEF ReadBytes, Slice
<1>4. TopTask(g).type = Top.type /\ TopTask(g).message = Top.message BY TaskFields DEF TopTask
<1>5. PICK v : /\ HoldsValue(input, R, Top.type, Top.message, Top.field, at, at + num.value, v)
               /\ Remains(R, TopTask(g), Top.field, at + num.value, v)
  BY <1>2, <1>4 DEF SliceFollows
<1>6. Assign(v)
  <2>1. \/ Field.kind = "bytes" /\ v = Slice
        \/ Field.kind = "number" /\ Slice \in DOMAIN Decimal /\ v = Decimal[Slice]
        \/ Field.kind = "message"
    BY <1>3, <1>5 DEF HoldsValue, Field, Fields
  <2>2. \/ Field.kind = "bytes" /\ Assign(Slice)
        \/ Field.kind = "number" /\ Slice \in DOMAIN Decimal /\ Assign(Decimal[Slice])
        \/ Field.kind = "number" /\ Slice = <<>>
    BY DEF ReadBytes
  <2>3. QED BY <2>1, <2>2 DEF Fit
<1>7. QED BY <1>3, <1>5, <1>6, ExpectsAssigned

-----------------------------------------------------------------------------
(* The tag of a field that the message does not have, and the first thing  *)
(* the function that skips reads again.                                    *)
LEMMA ExpectsUnknownTag ==
  ASSUME Fit, TypedInv, UnknownTag, UNCHANGED input,
         NEW R, NEW g, Explains(input, R), Expects(R, g)
  PROVE  Expects(R, g)'
<1>0. High = 128 BY DEF Fit, WordsFit
<1>1. phase = "tag" /\ num.done BY DEF UnknownTag
<1>2. PICK n, d : BeingRead(input, at, num, n, d) /\ FieldFollows(input, R, TopTask(g), d, n)
  <2>1. Started(R, g) BY <1>1, FieldBegins
  <2>2. QED BY <1>1, <2>1 DEF Started
<1>3. num.value = n /\ at = d /\ n \in Nat BY <1>1, <1>2 DEF BeingRead
<1>4. TopTask(g).type = Top.type /\ TopTask(g).start = pre /\ TopTask(g).end = Top.to
      /\ TopTask(g).message = Top.message /\ TopTask(g).result = g
  BY TaskFields DEF TopTask
<1>5. UnknownFollows(input, R, TopTask(g), d, n)
  <2>1. SUFFICES ASSUME KnownFollows(input, R, TopTask(g), d, n) PROVE FALSE
    BY <1>2 DEF FieldFollows
  <2>2. n \div 8 < NumHalf /\ NumHalf \in Nat /\ n \div 8 \in DOMAIN Schema[Top.type]
    BY <1>4, <2>1, WireAssumption DEF KnownFollows
  <2>3. n \div 8 \in Nat BY <1>3
  <2>4. (n \div 8) % (2 * NumHalf) = n \div 8 BY <2>2, <2>3
  <2>5. FieldNumber = n \div 8 BY <1>3, <2>2, <2>4 DEF FieldNumber
  <2>6. QED BY <2>2, <2>5 DEF UnknownTag, Known, Fields
<1>6. PICK S, e :
        /\ HoldsVarint(input, pre, d, n) /\ Skips(input, S) /\ SkipFollows(input, S, d, n, 0, e)
        /\ e <= Top.to /\ Task(Top.type, e, Top.to, Top.message, g) \in R
  BY <1>4, <1>5 DEF UnknownFollows, SkipsField
<1>7. e \in Int
  <2>1. d \in Int BY <1>3 DEF TypedInv, CursorInv
  <2>2. QED BY <1>0, <1>6, <2>1, SkipBehind
<1>8. at' = pre /\ num' = Zero /\ phase' = "skipTag" /\ depth' = 0 /\ Top' = Top
  BY DEF UnknownTag, Top
<1>9. BeingRead(input, at', num', n, d) BY <1>6, <1>8, ReadFromHere DEF Fit
<1>10. Skipping(S, e)' BY <1>6, <1>8, <1>9 DEF Skipping
<1>11. SkipStarted(R, g)' BY <1>6, <1>7, <1>8, <1>10 DEF SkipStarted
<1>12. QED BY <1>11 DEF Expects

(* What is skipped after a varint that has been read.                      *)
LEMMA SkipRead ==
  ASSUME num.done, NEW S, NEW e, Skipping(S, e)
  PROVE  /\ num.value \in Nat /\ num.value < 2 * Half
         /\ \/ phase = "skipTag" /\ SkipFollows(input, S, at, num.value, depth, e)
            \/ phase = "skipVarint" /\ SkipsOn(S, at, depth, e)
            \/ phase = "skipLength" /\ SkipsOn(S, at + num.value, depth, e)
BY DEF Skipping, BeingRead

(* The tag has been read of a field whose value begins with a varint.      *)
LEMMA ExpectsSkipValue ==
  ASSUME Fit, SkipValue, UNCHANGED input, NEW R, NEW g, Expects(R, g)
  PROVE  Expects(R, g)'
<1>1. phase = "skipTag" /\ num.done /\ WireType = num.value % 8 /\ WireType \in {0, 2}
  BY DEF SkipValue, WireType
<1>2. depth \in Nat BY <1>1 DEF Expects, Started, SkipStarted
<1>3. PICK S, e : /\ Skips(input, S) /\ Skipping(S, e) /\ e \in Int /\ e <= Top.to
                  /\ Task(Top.type, e, Top.to, Top.message, g) \in R
  BY <1>1 DEF Expects, Started, SkipStarted
<1>4. SkipFollows(input, S, at, num.value, depth, e) BY <1>1, <1>3, SkipRead
<1>5. at' = at /\ num' = Zero /\ depth' = depth /\ Top' = Top BY DEF SkipValue, Top
<1>6. \A v, d : HoldsVarint(input, at, d, v) => BeingRead(input', at', num', v, d)
  BY <1>5, ReadFromHere DEF Fit
<1>7. Skipping(S, e)'
  <2>1. CASE WireType = 0
    <3>1. PICK v, d : HoldsVarint(input, at, d, v) /\ SkipsOn(S, d, depth, e)
      BY <1>1, <1>4, <2>1 DEF SkipFollows
    <3>2. phase' = "skipVarint" BY <2>1 DEF SkipValue
    <3>3. BeingRead(input, at, num, v, d)' /\ SkipsOn(S, d, depth', e) BY <1>5, <1>6, <3>1
    <3>4. QED BY <3>2, <3>3 DEF Skipping
  <2>2. CASE WireType = 2
    <3>1. PICK v, d : HoldsVarint(input, at, d, v) /\ SkipsOn(S, d + v, depth, e)
      BY <1>1, <1>4, <2>2 DEF SkipFollows
    <3>2. phase' = "skipLength" BY <2>2 DEF SkipValue
    <3>3. BeingRead(input, at, num, v, d)' /\ SkipsOn(S, d + v, depth', e) BY <1>5, <1>6, <3>1
    <3>4. QED BY <3>2, <3>3 DEF Skipping
  <2>3. QED BY <1>1, <2>1, <2>2
<1>8. Skips(input', S) BY <1>3
<1>9. SkipStarted(R, g)' BY <1>2, <1>3, <1>5, <1>7, <1>8 DEF SkipStarted
<1>10. QED BY <1>9 DEF Expects

(* A value is skipped where the bytes explain it, and nothing wraps.       *)
LEMMA SkipOneRead ==
  ASSUME Fit, TypedInv, num.done, phase \in {"skipTag", "skipVarint", "skipLength"},
         phase = "skipTag" => WireType \notin {0, 2},
         NEW R, NEW g, Expects(R, g)
  PROVE  \E S, e, q : /\ Skips(input, S) /\ SkipsOn(S, q, SkipDepth, e)
                      /\ e <= Top.to /\ Task(Top.type, e, Top.to, Top.message, g) \in R
                      /\ SkipDepth \in Nat /\ SkipLen \in Nat /\ SkipTo(SkipLen) \in Nat
                      /\ q \in Int /\ e \in Int /\ q = pre + SkipTo(SkipLen)
                      /\ InSlice(Int64(Index(pre) + SkipTo(SkipLen)))
                      /\ phase = "skipTag" => WireType \in {1, 3, 4, 5}
<1>0. High = 128 /\ CursorInv BY DEF Fit, WordsFit, TypedInv
<1>1. PICK S, e : /\ Skips(input, S) /\ Skipping(S, e) /\ e \in Int /\ e <= Top.to
                  /\ Task(Top.type, e, Top.to, Top.message, g) \in R
  BY DEF Expects, Started, SkipStarted
<1>2. depth \in Nat BY DEF Expects, Started, SkipStarted
<1>3. /\ Top.from \in Int /\ Top.to \in Int /\ 0 <= Top.from /\ Top.to < Half /\ Half \in Nat
      /\ at \in Int /\ pre \in Int /\ Top.from <= pre /\ pre <= at
  BY <1>0, LastCall DEF CursorInv, CursorInBounds
<1>4. PICK n \in Nat : n = num.value /\ n < 2 * Half BY <1>1, SkipRead
<1>5. WireType = n % 8 BY <1>4 DEF WireType
<1>6. PICK len \in Nat : /\ SkipLen = len /\ SkipDepth \in Nat
                         /\ SkipsOn(S, at + len, SkipDepth, e)
                         /\ phase = "skipTag" => WireType \in {1, 3, 4, 5}
  <2>1. CASE phase = "skipVarint"
    <3>1. SkipsOn(S, at, depth, e) BY <1>1, <2>1, SkipRead
    <3>2. SkipLen = 0 /\ SkipDepth = depth BY <2>1 DEF SkipLen, SkipDepth
    <3>3. at + 0 = at BY <1>3
    <3>4. QED BY <1>2, <2>1, <3>1, <3>2, <3>3
  <2>2. CASE phase = "skipLength"
    <3>1. SkipsOn(S, at + n, depth, e) BY <1>1, <1>4, <2>2, SkipRead
    <3>2. at + n <= e BY <3>1 DEF SkipsOn
    <3>3. 0 <= n /\ n < Half /\ n < 2 * Half /\ n \in Int BY <1>1, <1>3, <3>2
    <3>4. Int64(n) = n BY <3>3, Int64Sum
    <3>5. SkipLen = n /\ SkipDepth = depth BY <1>4, <2>2, <3>4 DEF SkipLen, SkipDepth, Length
    <3>6. QED BY <1>2, <2>2, <3>1, <3>5
  <2>3. CASE phase = "skipTag"
    <3>1. SkipFollows(input, S, at, n, depth, e) BY <1>1, <1>4, <2>3, SkipRead
    <3>2. CASE n % 8 = 1 /\ SkipsOn(S, at + 8, depth, e)
      <4>1. SkipLen = 8 /\ SkipDepth = depth BY <1>5, <2>3, <3>2 DEF SkipLen, SkipDepth
      <4>2. QED BY <1>2, <1>5, <3>2, <4>1
    <3>3. CASE n % 8 = 3 /\ SkipsOn(S, at, depth + 1, e)
      <4>1. SkipLen = 0 /\ SkipDepth = depth + 1 BY <1>5, <2>3, <3>3 DEF SkipLen, SkipDepth
      <4>2. depth + 1 \in Nat /\ at + 0 = at BY <1>2, <1>3
      <4>3. QED BY <1>5, <3>3, <4>1, <4>2
    <3>4. CASE n % 8 = 4 /\ depth > 0 /\ SkipsOn(S, at, depth - 1, e)
      <4>1. SkipLen = 0 /\ SkipDepth = depth - 1 BY <1>5, <2>3, <3>4 DEF SkipLen, SkipDepth
      <4>2. depth - 1 \in Nat /\ at + 0 = at BY <1>2, <1>3, <3>4
      <4>3. QED BY <1>5, <3>4, <4>1, <4>2
    <3>5. CASE n % 8 = 5 /\ SkipsOn(S, at + 4, depth, e)
      <4>1. SkipLen = 4 /\ SkipDepth = depth BY <1>5, <2>3, <3>5 DEF SkipLen, SkipDepth
      <4>2. QED BY <1>2, <1>5, <3>5, <4>1
    <3>6. n % 8 # 0 /\ n % 8 # 2 BY <1>5, <2>3
    <3>7. QED BY <3>1, <3>2, <3>3, <3>4, <3>5, <3>6 DEF SkipFollows
  <2>4. QED BY <2>1, <2>2, <2>3
<1>7. PICK q \in Int : q = at + len BY <1>3
<1>8. q <= e BY <1>6, <1>7 DEF SkipsOn
<1>9. PICK i \in Int : i = at - pre + len BY <1>3
<1>10. SkipTo(SkipLen) = i /\ i >= 0 /\ q = pre + i
  <2>1. 0 <= i /\ i < Half /\ i < 2 * Half /\ q = pre + i BY <1>1, <1>3, <1>7, <1>8, <1>9
  <2>2. Int64(i) = i BY <2>1, Int64Sum
  <2>3. QED BY <1>6, <1>9, <2>1, <2>2 DEF SkipTo
<1>11. InSlice(Int64(Index(pre) + SkipTo(SkipLen)))
  <2>1. PICK j \in Int : j = pre - Top.from + i BY <1>3
  <2>2. /\ 0 <= j /\ j < Half /\ j < 2 * Half /\ j <= Top.to - Top.from /\ j >= 0
    BY <1>1, <1>3, <1>8, <1>10, <2>1
  <2>3. Int64(j) = j BY <2>2, Int64Sum
  <2>4. Int64(Index(pre) + SkipTo(SkipLen)) = j BY <1>10, <2>1, <2>3 DEF Index
  <2>5. Index(Top.to) = Top.to - Top.from BY DEF Index
  <2>6. QED BY <2>2, <2>4, <2>5 DEF InSlice
<1>12. QED BY <1>1, <1>6, <1>7, <1>10, <1>11

(* A value has been skipped, or the end of a group.                        *)
LEMMA ExpectsSkipOne ==
  ASSUME Fit, TypedInv, SkipOne, UNCHANGED input, NEW R, NEW g, Expects(R, g)
  PROVE  Expects(R, g)'
<1>1. /\ num.done /\ phase \in {"skipTag", "skipVarint", "skipLength"}
      /\ phase = "skipTag" => WireType \notin {0, 2}
  BY DEF SkipOne
<1>2. PICK S, e, q : /\ Skips(input, S) /\ SkipsOn(S, q, SkipDepth, e)
                     /\ e <= Top.to /\ Task(Top.type, e, Top.to, Top.message, g) \in R
                     /\ SkipDepth \in Nat
                     /\ q \in Int /\ e \in Int /\ q = pre + SkipTo(SkipLen)
  BY <1>1, SkipOneRead
<1>3. depth' = SkipDepth /\ Top' = Top BY DEF SkipOne, Top
<1>4. CASE SkipDepth > 0
  <2>1. at' = q /\ phase' = "skipTag" /\ num' = Zero BY <1>2, <1>4 DEF SkipOne, Skipped
  <2>2. PICK x : x \in S /\ x = <<q, SkipDepth, e>> BY <1>2, <1>4 DEF SkipsOn
  <2>3. x[1] = q /\ x[2] = SkipDepth /\ x[3] = e BY <2>2
  <2>4. PICK n, c : HoldsVarint(input, q, c, n) /\ SkipFollows(input, S, c, n, SkipDepth, e)
    BY <1>2, <2>2, <2>3 DEF Skips
  <2>5. BeingRead(input', at', num', n, c) BY <2>1, <2>4, ReadFromHere DEF Fit
  <2>6. Skipping(S, e)' BY <1>3, <2>1, <2>4, <2>5 DEF Skipping
  <2>7. Skips(input', S) BY <1>2
  <2>8. SkipStarted(R, g)' BY <1>2, <1>3, <2>6, <2>7 DEF SkipStarted
  <2>9. QED BY <2>8 DEF Expects
<1>5. CASE SkipDepth = 0
  <2>1. NextField(q) BY <1>2, <1>5 DEF SkipOne, Skipped
  <2>2. q = e BY <1>2, <1>5 DEF SkipsOn
  <2>3. phase' = "tag" /\ num' = Zero /\ at' = pre' /\ pre' = e BY <2>1, <2>2 DEF NextField
  <2>4. TopTask(g)' = Task(Top.type, e, Top.to, Top.message, g) BY <1>3, <2>3 DEF TopTask
  <2>5. QED BY <1>2, <2>3, <2>4 DEF Expects
<1>6. QED BY <1>2, <1>4, <1>5

-----------------------------------------------------------------------------
(* A step of the last call keeps what all calls expect of it.              *)
LEMMA PromiseKept ==
  ASSUME TypedInv, UNCHANGED <<input, sent>>, NEW R, NEW goals, Promised(R, goals),
         NEW c, c.to = Top.to, stack' = [stack EXCEPT ![Len(stack)] = c],
         NEW g, g = goals[Len(stack)], Expects(R, g)'
  PROVE  Promised(R, goals)'
<1>1. PICK S : stack \in Seq(S) BY DEF TypedInv, TypedCalls
<1>2. Len(stack) \in Nat BY <1>1
<1>3. Len(stack') = Len(stack) /\ \A i \in 1..Len(stack) : i # Len(stack) => stack'[i] = stack[i]
  BY <1>1
<1>4. Len(stack) > 0 => stack'[Len(stack)] = c BY <1>1
<1>5. ASSUME NEW i \in 1..Len(stack)-1
      PROVE  Waits(R, stack'[i], stack'[i + 1], goals[i], goals[i + 1])
  <2>1. i \in 1..Len(stack) /\ i # Len(stack) /\ i + 1 \in 1..Len(stack) BY <1>2
  <2>2. stack'[i] = stack[i] BY <1>3, <2>1
  <2>3. stack'[i + 1].to = stack[i + 1].to
    <3>1. CASE i + 1 = Len(stack)
      <4>1. stack'[Len(stack)] = c BY <1>2, <1>4, <2>1, <3>1
      <4>2. QED BY <3>1, <4>1 DEF Top
    <3>2. CASE i + 1 # Len(stack) BY <1>3, <2>1, <3>2
    <3>3. QED BY <3>1, <3>2
  <2>4. Waits(R, stack[i], stack[i + 1], goals[i], goals[i + 1]) BY DEF Promised
  <2>5. QED BY <2>2, <2>3, <2>4 DEF Waits
<1>6. \A i \in 1..Len(stack')-1 : Waits(R, stack'[i], stack'[i + 1], goals[i], goals[i + 1])
  BY <1>3, <1>5
<1>7. Explains(input', R) /\ goals[1] = sent' BY DEF Promised
<1>8. Expects(R, goals[Len(stack)])' BY <1>3
<1>9. QED BY <1>6, <1>7, <1>8 DEF Promised

(* The call for an embedded message is to make the value that its caller   *)
(* waits for.                                                              *)
LEMMA PromiseEntered ==
  ASSUME Fit, TypedInv, EnterMessage, UNCHANGED <<input, sent>>,
         NEW R, NEW goals, Promised(R, goals)
  PROVE  \E h : Promised(R, h)'
<1> DEFINE g == goals[Len(stack)]
           e == at + num.value
           c == Call(Field.of, 0, at, e, EmbeddedIn(Top.message[Top.field]))
<1>1. phase = "length" /\ num.done /\ Field.kind = "message" BY DEF EnterMessage
<1>2. Explains(input, R) /\ Expects(R, g) BY DEF Promised
<1>3. /\ Top.from + PostIndex(Length) = e
      /\ SliceFollows(input, R, TopTask(g), Top.field, at, num.value)
  BY <1>1, <1>2, SliceRead
<1>4. TopTask(g) = Task(Top.type, pre, Top.to, Top.message, g) BY DEF TopTask
<1>5. PICK v : /\ HoldsValue(input, R, Top.type, Top.message, Top.field, at, e, v)
               /\ Remains(R, TopTask(g), Top.field, e, v)
  BY <1>3, <1>4, TaskFields DEF SliceFollows
<1>6. Task(Field.of, at, e, EmbeddedIn(Top.message[Top.field]), v) \in R
  BY <1>1, <1>5 DEF HoldsValue, Field, Fields, EmbeddedIn, EmbeddedInto
<1>7. Task(Top.type, e, Top.to, With(Top.type, Top.message, Top.field, v), g) \in R
  BY <1>4, <1>5, TaskFields DEF Remains
<1>8. stack' = Append(stack, c) /\ NextField(at) BY <1>3 DEF EnterMessage
<1>9. /\ c.type = Field.of /\ c.to = e /\ c.message = EmbeddedIn(Top.message[Top.field])
  BY DEF Call
<1> HIDE DEF c, e
<1>10. PICK S : stack \in Seq(S) BY DEF TypedInv, TypedCalls
<1>11. PICK l \in Nat \ {0} : l = Len(stack) BY <1>10 DEF TypedInv, TypedCalls
<1>12. /\ Len(stack') = l + 1 /\ stack'[l + 1] = c
       /\ \A i \in 1..l : stack'[i] = stack[i]
  BY <1>8, <1>10, <1>11
<1> DEFINE h == [i \in 1..l+1 |-> IF i <= l THEN goals[i] ELSE v]
<1>13. h[l + 1] = v /\ \A i \in 1..l : h[i] = goals[i]
  <2>1. l + 1 \in 1..l+1 /\ ~(l + 1 <= l) OBVIOUS
  <2>2. \A i \in 1..l : i \in 1..l+1 /\ i <= l OBVIOUS
  <2>3. QED BY <2>1, <2>2
<1> HIDE DEF h
<1>14. Top' = c /\ Top = stack[l] BY <1>11, <1>12 DEF Top
<1>15. Expects(R, v)'
  <2>1. TopTask(v)' = Task(Field.of, at, e, EmbeddedIn(Top.message[Top.field]), v)
    BY <1>8, <1>9, <1>14 DEF TopTask, NextField
  <2>2. phase' = "tag" /\ num' = Zero /\ at' = pre' BY <1>8 DEF NextField
  <2>3. QED BY <1>6, <2>1, <2>2 DEF Expects
<1>16. ASSUME NEW i \in 1..l PROVE Waits(R, stack'[i], stack'[i + 1], h[i], h[i + 1])
  <2>1. CASE i = l
    <3>1. Waits(R, Top, c, g, v) BY <1>7, <1>9 DEF Waits
    <3>2. stack'[i] = Top /\ stack'[i + 1] = c /\ h[i] = g /\ h[i + 1] = v
      BY <1>11, <1>12, <1>13, <1>14, <2>1
    <3>3. QED BY <3>1, <3>2
  <2>2. CASE i # l
    <3>1. i \in 1..l-1 /\ i + 1 \in 1..l BY <2>2
    <3>2. Waits(R, stack[i], stack[i + 1], goals[i], goals[i + 1]) BY <1>11, <3>1 DEF Promised
    <3>3. QED BY <1>12, <1>13, <3>1, <3>2
  <2>3. QED BY <2>1, <2>2
<1>17. \A i \in 1..Len(stack')-1 : Waits(R, stack'[i], stack'[i + 1], h[i], h[i + 1])
  BY <1>12, <1>16
<1>18. h[1] = sent'
  <2>1. 1 \in 1..l OBVIOUS
  <2>2. QED BY <1>13, <2>1 DEF Promised
<1>19. Expects(R, h[Len(stack)])' BY <1>12, <1>13, <1>15
<1>20. Promised(R, h)' BY <1>2, <1>17, <1>18, <1>19 DEF Promised
<1>21. QED BY <1>20

(* A call that returns has made what its caller waits for.                 *)
LEMMA PromiseLeft ==
  ASSUME Fit, TypedInv, LeaveMessage, UNCHANGED <<input, sent>>,
         NEW R, NEW goals, Promised(R, goals)
  PROVE  Promised(R, goals)'
<1>0. CursorInv BY DEF TypedInv
<1>1. PICK S : stack \in Seq(S) BY DEF TypedInv, TypedCalls
<1>2. PICK l \in Nat \ {0} : Len(stack) = l + 1
  <2>1. Len(stack) \in Nat /\ Len(stack) > 1 BY <1>1 DEF LeaveMessage
  <2>2. PICK k \in Nat : k = Len(stack) BY <2>1
  <2>3. k > 1 BY <2>1, <2>2
  <2>4. k - 1 \in Nat \ {0} /\ k = (k - 1) + 1 BY <2>3
  <2>5. QED BY <2>2, <2>4, Zenon
<1> DEFINE caller == SubSeq(stack, 1, Len(stack) - 1)
           last == caller[Len(caller)]
           msg == With(last.type, last.message, last.field, Top.message)
           c == Call(last.type, last.field, last.from, last.to, msg)
<1>3. Top.message = goals[l + 1]
  <2>1. phase = "tag" /\ at = Top.to BY DEF LeaveMessage, AtEnd
  <2>2. Explains(input, R) /\ Expects(R, goals[l + 1]) BY <1>2 DEF Promised
  <2>3. QED BY <1>0, <2>1, <2>2, ResultAtEnd
<1>4. caller \in Seq(S) /\ Len(caller) = l /\ \A i \in 1..l : caller[i] = stack[i]
  BY <1>1, <1>2
<1>5. last = stack[l] BY <1>4
<1>6. stack' = [caller EXCEPT ![Len(caller)] = [last EXCEPT !.message = msg]]
  BY DEF LeaveMessage, With
<1> HIDE DEF caller
<1>7. [last EXCEPT !.message = msg] = c
  <2>1. IsCall(last)
    <3>1. l \in 1..Len(stack) BY <1>2
    <3>2. QED BY <1>5, <3>1 DEF TypedInv, TypedCalls, IsTyped
  <2> DEFINE old == Call(last.type, last.field, last.from, last.to, last.message)
  <2>2. last = old BY <2>1 DEF IsCall
  <2>3. [old EXCEPT !.message = msg] = c BY DEF Call
  <2> HIDE DEF old, msg, c, last
  <2>4. QED BY <2>2, <2>3
<1>8. c.type = last.type /\ c.to = last.to /\ c.message = msg BY DEF Call
<1> HIDE DEF c, msg, last
<1>9. /\ Len(stack') = l /\ stack'[l] = c
      /\ \A i \in 1..l-1 : stack'[i] = stack[i]
  BY <1>4, <1>6, <1>7
<1>10. Top' = c BY <1>9 DEF Top
<1>11. Waits(R, last, Top, goals[l], Top.message)
  <2>1. l \in 1..Len(stack)-1 BY <1>2
  <2>2. Waits(R, stack[l], stack[l + 1], goals[l], goals[l + 1]) BY <2>1 DEF Promised
  <2>3. QED BY <1>2, <1>3, <1>5, <2>2 DEF Top
<1>12. Expects(R, goals[l])'
  <2>1. Task(last.type, Top.to, last.to, msg, goals[l]) \in R BY <1>11 DEF Waits, msg
  <2>2. phase' = "tag" /\ num' = Zero /\ at' = pre' /\ pre' = Top.to
    BY DEF LeaveMessage, NextField
  <2>3. TopTask(goals[l])' = Task(last.type, Top.to, last.to, msg, goals[l])
    BY <1>8, <1>10, <2>2 DEF TopTask
  <2>4. QED BY <2>1, <2>2, <2>3 DEF Expects
<1>13. ASSUME NEW i \in 1..l-1
       PROVE  Waits(R, stack'[i], stack'[i + 1], goals[i], goals[i + 1])
  <2>1. Waits(R, stack[i], stack[i + 1], goals[i], goals[i + 1])
    <3>1. i \in 1..Len(stack)-1 BY <1>2
    <3>2. QED BY <3>1 DEF Promised
  <2>2. stack'[i] = stack[i] BY <1>9
  <2>3. stack'[i + 1].to = stack[i + 1].to
    <3>1. CASE i + 1 = l BY <1>5, <1>8, <1>9, <3>1
    <3>2. CASE i + 1 # l
      <4>1. i + 1 \in 1..l-1 BY <3>2
      <4>2. QED BY <1>9, <4>1
    <3>3. QED BY <3>1, <3>2
  <2>4. QED BY <2>1, <2>2, <2>3 DEF Waits
<1>14. \A i \in 1..Len(stack')-1 : Waits(R, stack'[i], stack'[i + 1], goals[i], goals[i + 1])
  BY <1>9, <1>13
<1>15. Explains(input', R) /\ goals[1] = sent' BY DEF Promised
<1>16. Expects(R, goals[Len(stack)])' BY <1>9, <1>12
<1>17. QED BY <1>14, <1>15, <1>16 DEF Promised

-----------------------------------------------------------------------------
(* Nothing fails that is promised.                                         *)
LEMMA PromiseExcludes ==
  ASSUME Fit, TypedInv, num.groups \in Nat, NEW R, NEW goals, Promised(R, goals)
  PROVE  ~Fail
<1> DEFINE g == goals[Len(stack)]
<1>0. CursorInv BY DEF TypedInv
<1>1. Explains(input, R) /\ Expects(R, g) BY DEF Promised
<1>2. at \in Int /\ Top.to \in Int /\ phase \in Varints
  <2>1. phase \in Varints BY <1>1 DEF Expects, Started, SkipStarted, Skipping, Varints
  <2>2. QED BY <1>0, <2>1, LastCall DEF CursorInv
<1>3. High = 128 BY DEF Fit, WordsFit
<1>4. ASSUME BadVarint PROVE FALSE
  <2>1. ~num.done /\ ~AtEnd /\ (num.groups >= MaxGroups \/ at >= Top.to) BY <1>4 DEF BadVarint
  <2>2. SUFFICES ASSUME NEW n, NEW d, BeingRead(input, at, num, n, d), d \in Int => d <= Top.to
                 PROVE  FALSE
    <3>1. CASE SkipStarted(R, g)
      <4>1. PICK S, e : Skipping(S, e) /\ e \in Int /\ e <= Top.to BY <3>1 DEF SkipStarted
      <4>2. PICK n, d :
              /\ BeingRead(input, at, num, n, d)
              /\ \/ SkipFollows(input, S, d, n, depth, e)
                 \/ SkipsOn(S, d, depth, e) \/ SkipsOn(S, d + n, depth, e)
        BY <4>1 DEF Skipping
      <4>3. d \in Int /\ n \in Nat BY <1>2, <1>3, <4>2, ReadEnds DEF BeingRead
      <4>4. d <= e BY <1>3, <4>1, <4>2, <4>3, SkipInside DEF SkipsOn
      <4>5. d <= Top.to BY <1>2, <4>1, <4>3, <4>4
      <4>6. QED BY <2>2, <4>2, <4>5
    <3>2. CASE Started(R, g)
      <4>1. PICK n, d :
              /\ BeingRead(input, at, num, n, d)
              /\ \/ phase = "tag" /\ FieldFollows(input, R, TopTask(g), d, n)
                 \/ phase = "bool" /\ NumberFollows(R, TopTask(g), Top.field, d, n)
                 \/ phase = "length" /\ SliceFollows(input, R, TopTask(g), Top.field, d, n)
        BY <3>2 DEF Started
      <4>2. d <= Top.to BY <1>0, <1>3, <4>1, StartedInside
      <4>3. QED BY <2>2, <4>1, <4>2
    <3>3. CASE phase = "tag" /\ num = Zero
      <4>1. num.groups = 0 BY <3>3 DEF Zero
      <4>2. ~(at >= Top.to) BY <2>1, <3>3, <4>1 DEF AtEnd
      <4>3. at # Top.to BY <1>2, <4>2
      <4>4. Started(R, g) BY <1>1, <3>3, <4>3, FieldBegins
      <4>5. QED BY <3>2, <4>4
    <3>4. QED BY <1>1, <3>1, <3>2, <3>3 DEF Expects
  <2>3. d \in Int BY <1>2, <1>3, <2>2, ReadEnds
  <2>4. num.groups < MaxGroups /\ at < d BY <1>2, <1>3, <2>1, <2>2, <2>3, NotStuck
  <2>5. MaxGroups \in Nat BY WireAssumption
  <2>6. QED BY <1>2, <2>1, <2>2, <2>3, <2>4, <2>5
<1>5. ASSUME phase = "tag", num.done
      PROVE  /\ FieldNumber \in Nat \ {0}
             /\ WireType # 4
             /\ Known => WireType = Wanted(Fields[FieldNumber].kind)
  <2>1. PICK n, d : BeingRead(input, at, num, n, d) /\ FieldFollows(input, R, TopTask(g), d, n)
    <3>1. Started(R, g) BY <1>1, <1>5, FieldBegins
    <3>2. QED BY <1>5, <3>1 DEF Started
  <2>2. num.value = n /\ n \in Nat BY <1>5, <2>1 DEF BeingRead
  <2>3. n \div 8 < NumHalf /\ NumHalf \in Nat
    BY <2>1, WireAssumption DEF FieldFollows, KnownFollows, UnknownFollows, SkipsField
  <2>4. n \div 8 \in Nat BY <2>2
  <2>5. (n \div 8) % (2 * NumHalf) = n \div 8 BY <2>3, <2>4
  <2>6. FieldNumber = n \div 8 /\ WireType = n % 8
    BY <2>2, <2>3, <2>5 DEF FieldNumber, WireType
  <2>7. TopTask(g).type = Top.type BY TaskFields DEF TopTask
  <2>8. CASE KnownFollows(input, R, TopTask(g), d, n)
    <3>1. /\ FieldNumber \in DOMAIN Schema[Top.type]
          /\ WireType = Wanted(Schema[Top.type][FieldNumber].kind)
      BY <2>6, <2>7, <2>8 DEF KnownFollows
    <3>2. Top.type \in DOMAIN Schema BY LastTyped DEF TypedInv, Top, IsTyped
    <3>3. FieldNumber \in Nat \ {0} BY <3>1, <3>2, FieldTypeOf
    <3>4. \A k : Wanted(k) # 4 BY DEF Wanted
    <3>5. QED BY <3>1, <3>3, <3>4 DEF Fields
  <2>9. CASE UnknownFollows(input, R, TopTask(g), d, n)
    <3>1. PICK S, e : SkipFollows(input, S, d, n, 0, e) BY <2>9 DEF UnknownFollows, SkipsField
    <3>2. n \div 8 > 0 /\ n \div 8 \notin DOMAIN Schema[Top.type]
      BY <2>7, <2>9 DEF UnknownFollows, SkipsField
    <3>3. n % 8 # 4 BY <3>1 DEF SkipFollows
    <3>4. QED BY <2>4, <2>6, <3>2, <3>3 DEF Known, Fields
  <2>10. QED BY <2>1, <2>8, <2>9 DEF FieldFollows
<1>6. ASSUME phase = "length", num.done
      PROVE  /\ LengthInSlice
             /\ Field.kind = "number" => Slice \in DOMAIN Decimal
  <2>1. /\ Top.from + PostIndex(Length) = at + num.value /\ LengthInSlice
        /\ SliceFollows(input, R, TopTask(g), Top.field, at, num.value)
    BY <1>1, <1>6, SliceRead
  <2>2. TopTask(g).type = Top.type /\ TopTask(g).message = Top.message BY TaskFields DEF TopTask
  <2>3. PICK v : HoldsValue(input, R, Top.type, Top.message, Top.field, at, at + num.value, v)
    BY <2>1, <2>2 DEF SliceFollows
  <2>4. Field.kind = "number" => SubSeq(input, at + 1, at + num.value) \in DOMAIN Decimal
    BY <2>3 DEF HoldsValue, Field, Fields
  <2>5. QED BY <2>1, <2>4 DEF Slice
<1>7. ~BadEnd
  <2>1. phase = "tag" => at <= Top.to BY <1>0 DEF CursorInv, CursorInBounds, Reading, Varints
  <2>2. QED BY <1>2, <2>1 DEF BadEnd, AtEnd
<1>8. ~BadField
  <2>1. CASE phase = "tag" /\ num.done
    <3>1. PICK i \in Nat \ {0} : i = FieldNumber BY <1>5, <2>1
    <3>2. ~(FieldNumber <= 0) BY <3>1
    <3>3. QED BY <1>5, <2>1, <3>2 DEF BadField
  <2>2. CASE phase = "length" /\ num.done BY <1>6, <2>2 DEF BadField
  <2>3. QED BY <2>1, <2>2 DEF BadField
<1>9. ~BadSkip
  <2>1. SUFFICES ASSUME num.done, phase \in {"skipTag", "skipVarint", "skipLength"} PROVE ~BadSkip
    BY DEF BadSkip
  <2>2. CASE phase = "skipTag" /\ WireType \in {0, 2}
    <3>1. SkipLen = 0 BY <2>2 DEF SkipLen
    <3>2. PICK i \in Nat : i = at - pre /\ i < Half /\ Half \in Nat
      BY <1>0, <1>2, <2>1, LastCall DEF CursorInv, CursorInBounds, Reading
    <3>3. 0 <= i /\ i < 2 * Half /\ at - pre + 0 = i BY <1>0, <1>2, <3>2 DEF CursorInv
    <3>4. Int64(i) = i BY <3>2, <3>3, Int64Sum
    <3>5. SkipTo(SkipLen) = i BY <3>1, <3>3, <3>4 DEF SkipTo
    <3>6. ~(SkipLen < 0) /\ ~(SkipTo(SkipLen) < 0) BY <3>1, <3>2, <3>5
    <3>7. WireType \notin {6, 7} /\ WireType # 4 BY <2>2
    <3>8. QED BY <2>2, <3>6, <3>7 DEF BadSkip
  <2>3. CASE phase = "skipTag" => WireType \notin {0, 2}
    <3>1. /\ SkipDepth \in Nat /\ SkipLen \in Nat /\ SkipTo(SkipLen) \in Nat
          /\ InSlice(Int64(Index(pre) + SkipTo(SkipLen)))
          /\ phase = "skipTag" => WireType \in {1, 3, 4, 5}
      BY <1>1, <2>1, <2>3, SkipOneRead
    <3>2. \A i \in Nat : ~(i < 0) OBVIOUS
    <3>3. ~(SkipLen < 0) /\ ~(SkipTo(SkipLen) < 0) BY <3>1, <3>2
    <3>4. ~(phase = "skipTag" /\ WireType = 4 /\ depth = 0)
      <4>1. SUFFICES ASSUME phase = "skipTag", WireType = 4, depth = 0 PROVE FALSE OBVIOUS
      <4>2. SkipDepth = -1 BY <4>1 DEF SkipDepth
      <4>3. QED BY <3>1, <4>2
    <3>5. ~(phase = "skipTag" /\ WireType \in {6, 7}) BY <3>1
    <3>6. QED BY <3>1, <3>3, <3>4, <3>5 DEF BadSkip
  <2>4. QED BY <2>2, <2>3
<1>10. QED BY <1>4, <1>7, <1>8, <1>9 DEF Fail

(* When a call begins, the bytes explain that it makes what was sent.      *)
LEMMA DecodeInit ==
  ASSUME \A m \in Input : m.sent # Nil =>
           \E R : /\ Explains(m.bytes, R)
                  /\ Task(m.type, 0, Len(m.bytes), Empty[m.type], m.sent) \in R
  PROVE  Init => DecodeInv
<1> SUFFICES ASSUME Init PROVE DecodeInv OBVIOUS
<1>1. PICK m \in Input :
        /\ input = m.bytes /\ sent = m.sent
        /\ stack = <<Call(m.type, 0, 0, Len(m.bytes), Empty[m.type])>>
  BY DEF Init
<1>2. phase = "tag" /\ num = Zero /\ at = 0 /\ pre = 0 /\ num.groups \in Nat BY DEF Init, Zero
<1>3. ASSUME sent # Nil PROVE \E R, goals : Promised(R, goals)
  <2>1. PICK R : /\ Explains(m.bytes, R)
                 /\ Task(m.type, 0, Len(m.bytes), Empty[m.type], m.sent) \in R
    BY <1>1, <1>3
  <2> DEFINE c == Call(m.type, 0, 0, Len(m.bytes), Empty[m.type])
             goals == <<sent>>
  <2>2. c.type = m.type /\ c.to = Len(m.bytes) /\ c.message = Empty[m.type] BY DEF Call
  <2> HIDE DEF c
  <2>3. Len(stack) = 1 /\ Top = c BY <1>1 DEF c, Top
  <2>4. goals[1] = sent /\ goals[Len(stack)] = sent BY <2>3
  <2>5. TopTask(sent) = Task(m.type, 0, Len(m.bytes), Empty[m.type], m.sent)
    BY <1>1, <1>2, <2>2, <2>3 DEF TopTask
  <2>6. Expects(R, sent) BY <1>2, <2>1, <2>5 DEF Expects
  <2>7. ~\E i \in 1..Len(stack)-1 : TRUE BY <2>3
  <2> HIDE DEF goals
  <2>8. Promised(R, goals) BY <1>1, <2>1, <2>4, <2>6, <2>7 DEF Promised
  <2>9. QED BY <2>8
<1>4. QED BY <1>2, <1>3, TypedInit DEF DecodeInv

(* Every step of a call keeps to what the bytes explain.                   *)
LEMMA DecodeStep == Fit /\ DecodeInv /\ [Next]_vars => DecodeInv'
<1> SUFFICES ASSUME Fit, DecodeInv, [Next]_vars PROVE DecodeInv' OBVIOUS
<1>1. TypedInv' BY TypedStep DEF DecodeInv
<1>2. TypedInv /\ CursorInv /\ num.groups \in Nat BY DEF DecodeInv, TypedInv
<1>3. UNCHANGED <<input, sent>> BY DEF vars, Next, Decode, ValidateBasic, GetSigners
<1>4. num'.groups \in Nat
  <2>1. CASE UNCHANGED num BY <1>2, <2>1
  <2>2. CASE num' = Zero BY <2>2 DEF Zero
  <2>3. CASE Group BY <1>2, <2>3 DEF Group
  <2>4. QED BY <2>1, <2>2, <2>3 DEF vars, cursor, Next, Decode, ValidateBasic, GetSigners,
         KnownTag, UnknownTag, ReadBool, ReadBytes, EnterMessage, LeaveMessage, Finish, SkipOne,
         Skipped, NextField, SkipValue, Fail
<1>5. ASSUME sent # Nil
      PROVE  /\ phase' # "failed"
             /\ phase' = "decoded" => Message' = sent
             /\ phase' \in Varints => \E R, goals : Promised(R, goals)'
  <2>1. CASE UNCHANGED vars
    <3>1. ASSUME NEW R, NEW goals, Promised(R, goals) PROVE Promised(R, goals)'
      <4>1. UNCHANGED <<input, sent, stack, at, pre, num, phase, depth>> BY <2>1 DEF vars, cursor
      <4>2. PICK g : g = goals[Len(stack)] OBVIOUS
      <4>3. Top' = Top /\ TopTask(g)' = TopTask(g) BY <4>1 DEF Top, TopTask
      <4>4. Started(R, g) => Started(R, g)' BY <4>1, <4>3 DEF Started
      <4>5. \A S, e : Skipping(S, e) => Skipping(S, e)' BY <4>1 DEF Skipping
      <4>6. SkipStarted(R, g) => SkipStarted(R, g)' BY <4>1, <4>3, <4>5 DEF SkipStarted
      <4>7. Expects(R, g) => Expects(R, g)' BY <4>1, <4>3, <4>4, <4>6 DEF Expects
      <4>8. QED BY <3>1, <4>1, <4>2, <4>7 DEF Promised
    <3>2. Message' = Message BY <2>1 DEF vars, cursor, Message
    <3>3. UNCHANGED phase BY <2>1 DEF vars, cursor
    <3>4. QED BY <1>5, <3>1, <3>2, <3>3 DEF DecodeInv
  <2>2. CASE ValidateBasic \/ GetSigners
    <3>1. phase' \in {"valid", "refused", "panicked", "accepted"}
      BY <2>2 DEF ValidateBasic, GetSigners, Outcome
    <3>2. QED BY <3>1 DEF Varints
  <2>3. CASE Decode
    <3>1. PICK R, goals : Promised(R, goals) BY <1>5, <2>3 DEF DecodeInv, Decode
    <3>2. PICK g : g = goals[Len(stack)] OBVIOUS
    <3>3. Explains(input, R) /\ Expects(R, g) /\ goals[1] = sent BY <3>1, <3>2 DEF Promised
    <3>4. ~Fail BY <1>2, <3>1, PromiseExcludes
    <3>5. CASE (\E h : Promised(R, h)') /\ phase' \in Varints
      <4>1. phase' # "failed" /\ phase' # "decoded" BY <3>5 DEF Varints
      <4>2. QED BY <3>5, <4>1
    <3>6. phase \in Varints /\ "tag" \in Varints BY <2>3 DEF Decode, Varints
    <3>7. CASE Group \/ UnknownTag \/ SkipOne \/ SkipValue
      <4>1. UNCHANGED stack /\ phase' \in Varints
        BY <3>6, <3>7 DEF Group, UnknownTag, SkipOne, SkipValue, Skipped, NextField, Varints
      <4>2. Expects(R, g)'
        BY <1>2, <1>3, <3>3, <3>7, ExpectsGroup, ExpectsUnknownTag, ExpectsSkipOne, ExpectsSkipValue
      <4>3. Promised(R, goals)' BY <1>3, <3>1, <3>2, <4>1, <4>2 DEF Promised
      <4>4. QED BY <3>5, <4>1, <4>3
    <3>8. CASE KnownTag
      <4>1. Expects(R, g)' /\ \E c : c.to = Top.to /\ stack' = [stack EXCEPT ![Len(stack)] = c]
        BY <1>2, <1>3, <3>3, <3>8, ExpectsKnownTag
      <4>2. Promised(R, goals)' BY <1>2, <1>3, <3>1, <3>2, <4>1, PromiseKept
      <4>3. phase' \in Varints BY <3>8 DEF KnownTag, Varints
      <4>4. QED BY <3>5, <4>2, <4>3
    <3>9. CASE ReadBool
      <4>1. Expects(R, g)' /\ \E c : c.to = Top.to /\ stack' = [stack EXCEPT ![Len(stack)] = c]
        BY <1>2, <1>3, <3>3, <3>9, ExpectsReadBool
      <4>2. Promised(R, goals)' BY <1>2, <1>3, <3>1, <3>2, <4>1, PromiseKept
      <4>3. phase' = "tag" BY <3>9 DEF ReadBool, NextField
      <4>4. QED BY <3>5, <3>6, <4>2, <4>3
    <3>10. CASE ReadBytes
      <4>1. Expects(R, g)' /\ \E c : c.to = Top.to /\ stack' = [stack EXCEPT ![Len(stack)] = c]
        BY <1>2, <1>3, <3>3, <3>10, ExpectsReadBytes
      <4>2. Promised(R, goals)' BY <1>2, <1>3, <3>1, <3>2, <4>1, PromiseKept
      <4>3. phase' = "tag" BY <3>10 DEF ReadBytes, NextField
      <4>4. QED BY <3>5, <3>6, <4>2, <4>3
    <3>11. CASE EnterMessage
      <4>1. \E h : Promised(R, h)' BY <1>2, <1>3, <3>1, <3>11, PromiseEntered
      <4>2. phase' = "tag" BY <3>11 DEF EnterMessage, NextField
      <4>3. QED BY <3>5, <3>6, <4>1, <4>2
    <3>12. CASE LeaveMessage
      <4>1. Promised(R, goals)' BY <1>2, <1>3, <3>1, <3>12, PromiseLeft
      <4>2. phase' = "tag" BY <3>12 DEF LeaveMessage, NextField
      <4>3. QED BY <3>5, <3>6, <4>1, <4>2
    <3>13. CASE Finish
      <4>1. phase = "tag" /\ at = Top.to /\ Len(stack) = 1 BY <3>13 DEF Finish, AtEnd
      <4>2. Top.message = sent BY <1>2, <3>2, <3>3, <4>1, ResultAtEnd
      <4>3. Message' = sent /\ phase' = "decoded" BY <3>13, <4>1, <4>2 DEF Finish, Message, Top
      <4>4. QED BY <4>3 DEF Varints
    <3>14. QED BY <2>3, <3>4, <3>7, <3>8, <3>9, <3>10, <3>11, <3>12, <3>13 DEF Decode
  <2>4. QED BY <2>1, <2>2, <2>3 DEF Next
<1>6. sent' = sent BY <1>3
<1>7. QED BY <1>1, <1>4, <1>5, <1>6 DEF DecodeInv

(* The decoder of src/x/*/types/*.pb.go agrees with the grammar, for every *)
(* schema and every width of words: if the bytes of each input explain,    *)
(* field by field, the message that was sent, no call fails and every call *)
(* that is done has decoded that message.  This includes fields in any     *)
(* order, fields that come twice, fields the type does not have and groups *)
(* of them, at any depth of embedded messages.                             *)
THEOREM DecoderCorrect ==
  ASSUME WordsFit, <<>> \notin DOMAIN Decimal,
         \A m \in Input : m.sent # Nil =>
           \E R : /\ Explains(m.bytes, R)
                  /\ Task(m.type, 0, Len(m.bytes), Empty[m.type], m.sent) \in R
  PROVE  MessagesSpec => []DecodesWhatWasSent
<1>1. Init => DecodeInv BY DecodeInit
<1>2. DecodeInv /\ [Next]_vars => DecodeInv' BY DecodeStep DEF Fit
<1>3. DecodeInv => DecodesWhatWasSent BY DEF DecodeInv, DecodesWhatWasSent
<1>4. QED BY <1>1, <1>2, <1>3, PTL DEF MessagesSpec

-----------------------------------------------------------------------------
(* Bytes that are joined stand one after the other.                        *)
LEMMA HoldsSplit ==
  ASSUME NEW s, NEW a \in Nat, NEW b, NEW d \in Seq(Nat), NEW e \in Seq(Nat), Holds(s, a, b, d \o e)
  PROVE  /\ Holds(s, a, a + Len(d), d) /\ Holds(s, a + Len(d), b, e)
         /\ a + Len(d) \in Nat /\ b \in Nat /\ b = a + Len(d) + Len(e)
<1>1. PICK l \in Nat, k \in Nat : l = Len(d) /\ k = Len(e) OBVIOUS
<1>2. /\ Len(d \o e) = l + k
      /\ \A i \in 1..l : (d \o e)[i] = d[i] /\ i \in 1..l+k
      /\ \A i \in 1..k : (d \o e)[l + i] = e[i] /\ l + i \in 1..l+k
  BY <1>1
<1>3. b = a + l + k /\ \A i \in 1..l+k : s[a + i] = (d \o e)[i] BY <1>2 DEF Holds
<1>4. Holds(s, a, a + l, d) BY <1>1, <1>2, <1>3 DEF Holds
<1>5. Holds(s, a + l, b, e)
  <2>1. ASSUME NEW i \in 1..k PROVE s[a + l + i] = e[i]
    <3>1. s[a + (l + i)] = (d \o e)[l + i] BY <1>2, <1>3
    <3>2. a + (l + i) = a + l + i OBVIOUS
    <3>3. QED BY <1>2, <3>1, <3>2
  <2>2. QED BY <1>1, <1>3, <2>1 DEF Holds
<1>6. QED BY <1>1, <1>3, <1>4, <1>5

(* Sequences ss stand in s one after the other, cut at p.                  *)
Cuts(s, a, b, ss, p) ==
  LET n == Len(ss) IN
  /\ p \in [0..n -> Nat] /\ p[0] = a /\ p[n] = b
  /\ \A i \in 1..n : Holds(s, p[i - 1], p[i], ss[i]) /\ p[i] <= b

(* Sequences that are joined can be cut apart again.                       *)
LEMMA FlattenCuts ==
  ASSUME NEW s, NEW a \in Nat, NEW b, NEW ss \in Seq(Seq(Nat)), Holds(s, a, b, FlattenSeq(ss))
  PROVE  \E p : Cuts(s, a, b, ss, p)
<1> DEFINE n == Len(ss)
<1> SUFFICES \E p \in [0..n -> Nat] :
               /\ p[0] = a /\ p[n] = b
               /\ \A i \in 1..n : Holds(s, p[i - 1], p[i], ss[i]) /\ p[i] <= b
  BY DEF Cuts
<1>1. CASE Len(ss) = 0
  <2>1. FlattenSeq(ss) = <<>>
    <3>1. ss = <<>> BY <1>1
    <3>2. FlattenSeq(ss) = ss BY <1>1 DEF FlattenSeq
    <3>3. QED BY <3>1, <3>2
  <2>2. b = a
    <3>1. Len(<<>>) = 0 OBVIOUS
    <3>2. b = a + 0 BY <2>1, <3>1 DEF Holds
    <3>3. QED BY <3>2
  <2> DEFINE p == [i \in 0..0 |-> a]
  <2>3. p \in [0..n -> Nat] /\ p[0] = a /\ p[n] = b BY <1>1, <2>2
  <2>4. ~\E i \in 1..n : TRUE BY <1>1
  <2> HIDE DEF p
  <2>5. QED BY <2>3, <2>4
<1>2. CASE Len(ss) > 0
  <2>0. PICK l \in Nat \ {0} : l = Len(ss) /\ \A i \in 1..l : ss[i] \in Seq(Nat) BY <1>2
  <2>2. l = Len(ss) /\ \A i \in 1..l : ss[i] \in Seq(Nat) BY <2>0
  <2>1. PICK fl \in [1..l -> Seq(Nat)] :
          /\ fl[1] = ss[1]
          /\ \A i \in 1..l : i > 1 => fl[i] = fl[i-1] \o ss[i]
          /\ FlattenSeq(ss) = fl[l]
    <3>1. \E fl \in [1..Len(ss) -> Seq(Nat)] :
            /\ fl[1] = ss[1]
            /\ \A i \in 1..Len(ss) : i > 1 => fl[i] = fl[i-1] \o ss[i]
            /\ FlattenSeq(ss) = fl[Len(ss)]
      BY <1>2, FlattenSteps
    <3>2. QED BY <2>2, <3>1, Zenon
  <2> DEFINE p == [i \in 0..l |-> IF i = 0 THEN a ELSE a + Len(fl[i])]
             Ok(i) == Holds(s, a, a + Len(fl[i]), fl[i]) /\ a + Len(fl[i]) <= b
             Bad == {j \in 0..l-1 : ~Ok(l - j)}
  <2>3. \A i \in 1..l : fl[i] \in Seq(Nat) /\ Len(fl[i]) \in Nat
    <3>1. \A e \in Seq(Nat) : Len(e) \in Nat OBVIOUS
    <3>2. \A i \in 1..l : fl[i] \in Seq(Nat) BY <2>1
    <3>3. QED BY <3>1, <3>2
  <2>4. p[0] = a /\ \A i \in 1..l : p[i] = a + Len(fl[i])
    <3>1. 0 \in 0..l /\ \A i \in 1..l : i \in 0..l /\ i # 0 OBVIOUS
    <3>2. QED BY <3>1
  <2>5. p \in [0..l -> Nat] BY <2>3
  <2> HIDE DEF p
  <2>6. b = a + Len(fl[l]) /\ Ok(l)
    <3>1. Holds(s, a, b, fl[l]) BY <2>1, <2>2
    <3>2. b = a + Len(fl[l]) BY <3>1 DEF Holds
    <3>3. b \in Nat BY <2>2, <2>3, <3>2
    <3>4. QED BY <3>1, <3>2, <3>3
  <2>7. Bad = {}
    <3>1. SUFFICES ASSUME Bad # {} PROVE FALSE OBVIOUS
    <3>2. Bad \in SUBSET Nat OBVIOUS
    <3>3. PICK j \in Bad : \A k \in Bad : j <= k BY <3>1, <3>2, Least
    <3>4. j \in 0..l-1 /\ ~Ok(l - j) BY <3>3
    <3>5. j # 0
      <4>1. l - 0 = l OBVIOUS
      <4>2. QED BY <2>6, <3>4, <4>1
    <3>6. PICK i \in 1..l : i = l - j + 1 /\ i > 1 /\ i - 1 = l - j /\ l - (j - 1) = i BY <3>4, <3>5
    <3>7. Ok(i)
      <4>1. j - 1 \in 0..l-1 /\ ~(j <= j - 1) BY <3>4, <3>5
      <4>2. j - 1 \notin Bad BY <3>3, <4>1
      <4>3. QED BY <3>6, <4>1, <4>2
    <3> HIDE DEF Bad
    <3>8. fl[i] = fl[i - 1] \o ss[i] /\ i - 1 \in 1..l
      <4>1. i - 1 \in 1..l BY <3>6
      <4>2. fl[i] = fl[i - 1] \o ss[i] BY <2>1, <3>6
      <4>3. QED BY <4>1, <4>2
    <3>13. /\ fl[i - 1] \in Seq(Nat) /\ Len(fl[i - 1]) \in Nat /\ Len(fl[i]) \in Nat
           /\ ss[i] \in Seq(Nat)
      BY <2>2, <2>3, <3>8
    <3>14. Len(ss[i]) \in Nat BY <3>13
    <3>9. Holds(s, a, a + Len(fl[i]), fl[i - 1] \o ss[i]) BY <3>7, <3>8
    <3>10. /\ Holds(s, a, a + Len(fl[i - 1]), fl[i - 1])
           /\ a + Len(fl[i]) = a + Len(fl[i - 1]) + Len(ss[i])
      <4>1. PICK y : y = a + Len(fl[i]) OBVIOUS
      <4>2. PICK d \in Seq(Nat), e \in Seq(Nat) : d = fl[i - 1] /\ e = ss[i] BY <3>13
      <4>3. Holds(s, a, y, d \o e) BY <3>9, <4>1, <4>2, Zenon
      <4>4. Holds(s, a, a + Len(d), d) /\ y = a + Len(d) + Len(e) BY <4>3, HoldsSplit
      <4>5. QED BY <4>1, <4>2, <4>4, Zenon
    <3>11. a + Len(fl[i - 1]) <= b
      <4>1. PICK x \in Nat, y \in Nat, z \in Nat :
              x = Len(fl[i]) /\ y = Len(fl[i - 1]) /\ z = Len(ss[i])
        BY <3>13, <3>14
      <4>2. b \in Nat BY <2>2, <2>3, <2>6
      <4>3. a + x = a + y + z /\ a + x <= b BY <3>7, <3>10, <4>1
      <4>4. a + y <= b BY <4>2, <4>3
      <4>5. QED BY <4>1, <4>4
    <3>12. QED BY <3>4, <3>6, <3>10, <3>11
  <2>8. \A i \in 1..l : Ok(i)
    <3>1. ASSUME NEW i \in 1..l PROVE Ok(i)
      <4>1. l - i \in 0..l-1 /\ l - (l - i) = i OBVIOUS
      <4>2. QED BY <2>7, <4>1
    <3>2. QED BY <3>1
  <2> HIDE DEF Bad
  <2>9. ASSUME NEW i \in 1..l PROVE Holds(s, p[i - 1], p[i], ss[i]) /\ p[i] <= b
    <3>1. CASE i = 1
      <4>1. p[i - 1] = a /\ fl[i] = ss[i] BY <2>1, <2>4, <3>1
      <4>2. QED BY <2>4, <2>8, <4>1
    <3>2. CASE i # 1
      <4>1. i - 1 \in 1..l /\ i > 1 BY <3>2
      <4>2. fl[i] = fl[i - 1] \o ss[i] /\ fl[i - 1] \in Seq(Nat) /\ ss[i] \in Seq(Nat)
        BY <2>1, <2>2, <2>3, <4>1
      <4>3. Holds(s, a, p[i], fl[i - 1] \o ss[i]) BY <2>4, <2>8, <4>2
      <4>4. Holds(s, a + Len(fl[i - 1]), p[i], ss[i]) BY <4>2, <4>3, HoldsSplit
      <4>5. QED BY <2>4, <2>8, <4>1, <4>4
    <3>3. QED BY <3>1, <3>2
  <2>10. p[l] = b BY <2>2, <2>4, <2>6
  <2>11. l = n BY <2>2
  <2>12. QED BY <2>4, <2>5, <2>9, <2>10, <2>11, Zenon
<1>3. QED BY <1>1, <1>2

(* The slice where a sequence stands is that sequence.                     *)
LEMMA HeldSlice ==
  ASSUME NEW s \in Seq(Nat), NEW a \in Nat, NEW b, NEW e \in Seq(Nat), Holds(s, a, b, e),
         b <= Len(s)
  PROVE  SubSeq(s, a + 1, b) = e
<1>1. PICK l \in Nat : l = Len(e) /\ b = a + l BY DEF Holds
<1>2. \A i \in 1..l : s[a + i] = e[i] BY <1>1 DEF Holds
<1>3. PICK n \in Nat : n = Len(s) OBVIOUS
<1>4. a + l <= n BY <1>1, <1>3
<1> DEFINE q == SubSeq(s, a + 1, a + l)
<1>5. q \in Seq(Nat) /\ Len(q) = l /\ \A i \in 1..l : q[i] = s[a + i]
  BY <1>3, <1>4
<1> HIDE DEF q
<1>6. \A i \in 1..l : q[i] = e[i] BY <1>2, <1>5
<1>7. q = e
  <2>1. q = [i \in 1..l |-> q[i]] /\ e = [i \in 1..l |-> e[i]] BY <1>1, <1>5
  <2>2. QED BY <1>6, <2>1
<1>8. QED BY <1>1, <1>7 DEF q

-----------------------------------------------------------------------------
(* The bytes explain a task.                                               *)
Parses(s, x) == \E R : Explains(s, R) /\ x \in R

(* If they explain what is left at index b with message y, they explain it *)
(* at index a with message x.                                              *)
Leads(s, t, end, a, x, b, y) ==
  \A r : Parses(s, Task(t, b, end, y, r)) => Parses(s, Task(t, a, end, x, r))

(* A field goes on to follow if there are more tasks.                      *)
LEMMA MoreTasks ==
  ASSUME NEW s, NEW R, NEW R2, R \subseteq R2, NEW x, NEW c, NEW n, FieldFollows(s, R, x, c, n)
  PROVE  FieldFollows(s, R2, x, c, n)
<1>1. CASE UnknownFollows(s, R, x, c, n) BY <1>1 DEF FieldFollows, UnknownFollows
<1>2. CASE KnownFollows(s, R, x, c, n)
  <2>1. PICK k, d :
          /\ HoldsVarint(s, c, d, k)
          /\ NumberFollows(R, x, n \div 8, d, k) \/ SliceFollows(s, R, x, n \div 8, d, k)
    BY <1>2 DEF KnownFollows
  <2>2. \A y : y \in R => y \in R2 OBVIOUS
  <2>3. \A f, e, v : Remains(R, x, f, e, v) => Remains(R2, x, f, e, v) BY <2>2 DEF Remains
  <2>4. \A f, e, v : HoldsValue(s, R, x.type, x.message, f, d, e, v)
                       => HoldsValue(s, R2, x.type, x.message, f, d, e, v)
    BY <2>2 DEF HoldsValue
  <2>5. NumberFollows(R2, x, n \div 8, d, k) \/ SliceFollows(s, R2, x, n \div 8, d, k)
    BY <2>1, <2>3, <2>4 DEF NumberFollows, SliceFollows
  <2>6. QED BY <1>2, <2>1, <2>5 DEF KnownFollows, FieldFollows
<1>3. QED BY <1>1, <1>2 DEF FieldFollows

(* A task is explained by the field it begins with and those it leads to.  *)
LEMMA TaskExplained ==
  ASSUME NEW s, NEW R, Explains(s, R), NEW x,
         NEW n, NEW c, HoldsVarint(s, x.start, c, n), FieldFollows(s, R, x, c, n)
  PROVE  Parses(s, x)
<1> DEFINE R2 == R \cup {x}
<1>1. R \subseteq R2 /\ x \in R2 OBVIOUS
<1>2. ASSUME NEW y \in R2
      PROVE  \/ y.start = y.end /\ y.message = y.result
             \/ \E m, e : HoldsVarint(s, y.start, e, m) /\ FieldFollows(s, R2, y, e, m)
  <2>1. y \in R \/ y = x OBVIOUS
  <2> HIDE DEF R2
  <2>2. CASE y \in R BY <1>1, <2>2, MoreTasks DEF Explains
  <2>3. CASE y = x BY <1>1, <2>3, MoreTasks
  <2>4. QED BY <2>1, <2>2, <2>3
<1>3. Explains(s, R2) BY <1>2 DEF Explains
<1> HIDE DEF R2
<1>4. QED BY <1>1, <1>3 DEF Parses

(* The tasks that two sets explain are explained by one.                   *)
LEMMA BothExplained ==
  ASSUME NEW s, NEW R, Explains(s, R), NEW R2, Explains(s, R2)
  PROVE  Explains(s, R \cup R2)
<1> DEFINE T == R \cup R2
<1>1. R \subseteq T /\ R2 \subseteq T OBVIOUS
<1>2. ASSUME NEW y \in T
      PROVE  \/ y.start = y.end /\ y.message = y.result
             \/ \E m, e : HoldsVarint(s, y.start, e, m) /\ FieldFollows(s, T, y, e, m)
  <2>1. y \in R \/ y \in R2 OBVIOUS
  <2> HIDE DEF T
  <2>2. CASE y \in R BY <1>1, <2>2, MoreTasks DEF Explains
  <2>3. CASE y \in R2 BY <1>1, <2>3, MoreTasks DEF Explains
  <2>4. QED BY <2>1, <2>2, <2>3
<1>3. Explains(s, T) BY <1>2 DEF Explains
<1>4. QED BY <1>3

(* A task without bytes is done.                                           *)
LEMMA NothingLeft ==
  ASSUME NEW s, NEW t, NEW b, NEW m
  PROVE  Parses(s, Task(t, b, b, m, m))
<1> DEFINE x == Task(t, b, b, m, m)
<1>1. x.start = x.end /\ x.message = x.result BY TaskFields
<1> HIDE DEF x
<1>2. Explains(s, {x}) BY <1>1 DEF Explains
<1>3. x \in {x} OBVIOUS
<1>4. QED BY <1>2, <1>3 DEF Parses, x

(* A number leads to what is behind it, with the number in its field.      *)
LEMMA NumberLeads ==
  ASSUME NEW s, NEW t, NEW end, NEW a, NEW x, NEW n, NEW c, NEW f, f = n \div 8,
         f \in DOMAIN Schema[t], f < NumHalf,
         n % 8 = Wanted(Schema[t][f].kind), Wanted(Schema[t][f].kind) = 0,
         HoldsVarint(s, a, c, n), NEW k, NEW d, HoldsVarint(s, c, d, k), d <= end,
         NEW v, v = NumberIn(Schema[t][f], k)
  PROVE  Leads(s, t, end, a, x, d, With(t, x, f, v))
<1> SUFFICES ASSUME NEW r, Parses(s, Task(t, d, end, With(t, x, f, v), r))
             PROVE  Parses(s, Task(t, a, end, x, r))
  BY DEF Leads
<1>1. PICK R : Explains(s, R) /\ Task(t, d, end, With(t, x, f, v), r) \in R BY DEF Parses
<1> DEFINE y == Task(t, a, end, x, r)
<1>2. y.type = t /\ y.start = a /\ y.end = end /\ y.message = x /\ y.result = r BY TaskFields
<1> HIDE DEF y
<1>3. Remains(R, y, f, d, v) BY <1>1, <1>2 DEF Remains
<1>4. NumberFollows(R, y, f, d, k) BY <1>2, <1>3 DEF NumberFollows
<1>5. FieldFollows(s, R, y, c, n) BY <1>2, <1>4 DEF FieldFollows, KnownFollows
<1>6. QED BY <1>1, <1>2, <1>5, TaskExplained DEF y

(* So does a value behind its length.                                      *)
LEMMA SliceLeads ==
  ASSUME NEW s, NEW t, NEW end, NEW a, NEW x, NEW n, NEW c, NEW f, f = n \div 8,
         f \in DOMAIN Schema[t], f < NumHalf,
         n % 8 = Wanted(Schema[t][f].kind), Wanted(Schema[t][f].kind) = 2,
         HoldsVarint(s, a, c, n), NEW k, NEW d, HoldsVarint(s, c, d, k),
         NEW e, e = d + k, e <= end, NEW v, NEW R0, Explains(s, R0),
         HoldsValue(s, R0, t, x, f, d, e, v)
  PROVE  Leads(s, t, end, a, x, e, With(t, x, f, v))
<1> SUFFICES ASSUME NEW r, Parses(s, Task(t, e, end, With(t, x, f, v), r))
             PROVE  Parses(s, Task(t, a, end, x, r))
  BY DEF Leads
<1>1. PICK R1 : Explains(s, R1) /\ Task(t, e, end, With(t, x, f, v), r) \in R1 BY DEF Parses
<1>2. PICK R : R = R0 \cup R1 OBVIOUS
<1>3. Explains(s, R) BY <1>1, <1>2, BothExplained
<1>4. \A y : (y \in R0 => y \in R) /\ (y \in R1 => y \in R) BY <1>2
<1> DEFINE y == Task(t, a, end, x, r)
<1>5. y.type = t /\ y.start = a /\ y.end = end /\ y.message = x /\ y.result = r BY TaskFields
<1> HIDE DEF y
<1>6. Remains(R, y, f, e, v) BY <1>1, <1>4, <1>5 DEF Remains
<1>7. HoldsValue(s, R, t, x, f, d, e, v) BY <1>4 DEF HoldsValue
<1>8. SliceFollows(s, R, y, f, d, k) BY <1>5, <1>6, <1>7 DEF SliceFollows
<1>9. FieldFollows(s, R, y, c, n) BY <1>5, <1>8 DEF FieldFollows, KnownFollows
<1>10. QED BY <1>3, <1>5, <1>9, TaskExplained DEF y

(* A field the message does not have leads to the same message behind it.  *)
LEMMA UnknownLeads ==
  ASSUME NEW s, NEW t, NEW end, NEW a, NEW x, NEW n, NEW c, HoldsVarint(s, a, c, n),
         NEW e, SkipsField(s, t, c, n, e), e <= end
  PROVE  Leads(s, t, end, a, x, e, x)
<1> SUFFICES ASSUME NEW r, Parses(s, Task(t, e, end, x, r)) PROVE Parses(s, Task(t, a, end, x, r))
  BY DEF Leads
<1>1. PICK R : Explains(s, R) /\ Task(t, e, end, x, r) \in R BY DEF Parses
<1> DEFINE y == Task(t, a, end, x, r)
<1>2. y.type = t /\ y.start = a /\ y.end = end /\ y.message = x /\ y.result = r BY TaskFields
<1> HIDE DEF y
<1>3. FieldFollows(s, R, y, c, n) BY <1>1, <1>2 DEF FieldFollows, UnknownFollows
<1>4. QED BY <1>1, <1>2, <1>3, TaskExplained DEF y

(* One part leads to the next.                                             *)
LEMMA LeadsChain ==
  ASSUME NEW s, NEW t, NEW end, NEW n \in Nat, NEW p, NEW y,
         \A i \in 1..n : Leads(s, t, end, p[i - 1], y[i - 1], p[i], y[i])
  PROVE  Leads(s, t, end, p[0], y[0], p[n], y[n])
<1> SUFFICES ASSUME NEW r, Parses(s, Task(t, p[n], end, y[n], r))
             PROVE  Parses(s, Task(t, p[0], end, y[0], r))
  BY DEF Leads
<1> DEFINE Ok(i) == Parses(s, Task(t, p[i], end, y[i], r))
           Good == {j \in 0..n : Ok(j)}
<1>1. n \in Good /\ Good \in SUBSET Nat OBVIOUS
<1>2. PICK i \in Good : \A j \in Good : i <= j BY <1>1, Least
<1>3. i \in 0..n /\ Ok(i) BY <1>2
<1>4. CASE i = 0 BY <1>3, <1>4
<1>5. CASE i # 0
  <2>1. i \in 1..n /\ i - 1 \in 0..n /\ ~(i <= i - 1) BY <1>3, <1>5
  <2>2. Ok(i - 1) BY <1>3, <2>1 DEF Leads
  <2>3. i - 1 \in Good BY <2>1, <2>2
  <2>4. QED BY <1>2, <2>1, <2>3
<1>6. QED BY <1>4, <1>5

-----------------------------------------------------------------------------
(* What is made of message x when the encoding of message m is decoded     *)
(* into it: lists are joined, embedded messages are merged, and anything   *)
(* else is that of m if m has it written.                                  *)
MergeField(Inner(_, _, _), field, when, old, new) ==
  IF field.many THEN old \o new
  ELSE IF Chosen(when, field, new) = <<>> THEN old
  ELSE IF field.kind = "message" THEN Inner(field.of, EmbeddedInto(field, old), new)
  ELSE new

(* Inner merges embedded messages.                                         *)
MergeFields(Inner(_, _, _), t, x, m) ==
  [f \in DOMAIN Schema[t] |->
     MergeField(Inner, Schema[t][f], Writes[t][f].when, x[f], m[f])]

(* Messages embed messages that embed messages, and no deeper.             *)
MergeNothing(t, x, m) == m
MergeFlat(t, x, m) == MergeFields(MergeNothing, t, x, m)
MergeNested(t, x, m) == MergeFields(MergeFlat, t, x, m)
Merged(t, x, m) == MergeFields(MergeNested, t, x, m)

(* Merging a message merges those it embeds.                               *)
LEMMA MergeCalls ==
  ASSUME NEW t \in DOMAIN Schema, NEW x, NEW m
  PROVE  Merged(t, x, m) = MergeFields(Merged, t, x, m)
<1>1. ASSUME NEW u \in DOMAIN Schema, IsFlat(u), NEW y, NEW n
      PROVE  /\ MergeFlat(u, y, n) = MergeNested(u, y, n)
             /\ MergeFlat(u, y, n) = Merged(u, y, n)
  <2>1. \A f \in DOMAIN Schema[u] : Schema[u][f].kind # "message"
    BY <1>1, Nesting DEF IsFlat
  <2>2. \A f \in DOMAIN Schema[u] : \A w, old, new :
          /\ MergeField(MergeNothing, Schema[u][f], w, old, new)
               = MergeField(MergeFlat, Schema[u][f], w, old, new)
          /\ MergeField(MergeNothing, Schema[u][f], w, old, new)
               = MergeField(MergeNested, Schema[u][f], w, old, new)
    BY <2>1 DEF MergeField
  <2>3. /\ MergeFields(MergeNothing, u, y, n) = MergeFields(MergeFlat, u, y, n)
        /\ MergeFields(MergeNothing, u, y, n) = MergeFields(MergeNested, u, y, n)
    BY <2>2 DEF MergeFields
  <2>4. QED BY <2>3 DEF MergeFlat, MergeNested, Merged
<1>2. ASSUME NEW u \in DOMAIN Schema, IsNested(u), NEW y, NEW n
      PROVE  MergeNested(u, y, n) = Merged(u, y, n)
  <2>1. \A f \in DOMAIN Schema[u] : \A old, new :
          Schema[u][f].kind = "message" =>
            MergeFlat(Schema[u][f].of, old, new) = MergeNested(Schema[u][f].of, old, new)
    BY <1>1, <1>2, Nesting DEF IsNested
  <2>2. \A f \in DOMAIN Schema[u] : \A w, old, new :
          MergeField(MergeFlat, Schema[u][f], w, old, new)
            = MergeField(MergeNested, Schema[u][f], w, old, new)
    BY <2>1 DEF MergeField
  <2>3. MergeFields(MergeFlat, u, y, n) = MergeFields(MergeNested, u, y, n)
    BY <2>2 DEF MergeFields
  <2>4. QED BY <2>3 DEF MergeNested, Merged
<1>3. \A f \in DOMAIN Schema[t] : \A old, new :
        Schema[t][f].kind = "message" =>
          MergeNested(Schema[t][f].of, old, new) = Merged(Schema[t][f].of, old, new)
  BY <1>2, Nesting
<1>4. \A f \in DOMAIN Schema[t] : \A w, old, new :
        MergeField(MergeNested, Schema[t][f], w, old, new)
          = MergeField(Merged, Schema[t][f], w, old, new)
  BY <1>3 DEF MergeField
<1>5. MergeFields(MergeNested, t, x, m) = MergeFields(Merged, t, x, m) BY <1>4 DEF MergeFields
<1>6. QED BY <1>5 DEF Merged

(* Into a new message, a message is decoded as it is.                      *)
LEMMA MergedEmpty ==
  TablesAgree => \A t \in DOMAIN Schema : \A m : IsMessage(t, m) => Merged(t, Empty[t], m) = m
<1> SUFFICES ASSUME TablesAgree
             PROVE  \A t \in DOMAIN Schema : \A m : IsMessage(t, m) => Merged(t, Empty[t], m) = m
  OBVIOUS
<1>1. ASSUME NEW t \in DOMAIN Schema, NEW m, IsMessage(t, m),
             \A u \in EmbeddedTypes(t) : \A v : IsMessage(u, v) => Merged(u, Empty[u], v) = v
      PROVE  Merged(t, Empty[t], m) = m
  <2>1. m = [f \in DOMAIN Schema[t] |-> m[f]]
        /\ \A f \in DOMAIN Schema[t] : IsField(IsMessage, Schema[t][f], m[f])
    BY <1>1, MessageFields DEF HasFields
  <2>2. ASSUME NEW f \in DOMAIN Schema[t]
        PROVE  MergeField(Merged, Schema[t][f], Writes[t][f].when, Empty[t][f], m[f]) = m[f]
    <3> DEFINE field == Schema[t][f]
               when == Writes[t][f].when
               old == Empty[t][f]
    <3>1. FieldAgrees(f, field, Writes[t][f], Counts[t][f]) BY DEF TablesAgree, Agree
    <3>2. old = IF IsEmbedded(field) THEN Empty[field.of] ELSE ZeroOf(field)
      BY EmptyDefined DEF NewFields
    <3>3. IsField(IsMessage, field, m[f]) BY <2>1
    <3>4. field.kind = "message" =>
            \A v : IsMessage(field.of, v) => Merged(field.of, Empty[field.of], v) = v
      BY <1>1, Nesting
    <3>5. field.many \in BOOLEAN /\ field.optional \in BOOLEAN BY FieldTypeOf
    <3> HIDE DEF field, old
    <3>6. CASE field.many
      <4>1. old = <<>> BY <3>2, <3>6 DEF IsEmbedded, ZeroOf
      <4>2. PICK S : m[f] \in Seq(S) BY <3>3, <3>6 DEF IsField
      <4>3. old \o m[f] = m[f] BY <4>1, <4>2
      <4>4. MergeField(Merged, field, when, old, m[f]) = m[f] BY <3>6, <4>3 DEF MergeField
      <4>5. QED BY <4>4 DEF field, old
    <3>7. CASE ~field.many
      <4>1. when = "always" \/ when = "set" BY <3>1, <3>7 DEF FieldAgrees
      <4>2. <<m[f]>> # <<>> OBVIOUS
      <4>3. CASE Chosen(when, field, m[f]) = <<>>
        <5>1. when = "set" /\ m[f] = ZeroOf(field) BY <4>1, <4>2, <4>3 DEF Chosen
        <5>2. ~IsEmbedded(field) BY <3>1, <3>7, <5>1 DEF FieldAgrees, IsEmbedded
        <5>3. old = m[f] BY <3>2, <5>1, <5>2
        <5>4. MergeField(Merged, field, when, old, m[f]) = m[f] BY <3>7, <4>3, <5>3 DEF MergeField
        <5>5. QED BY <5>4 DEF field, old
      <4>4. CASE Chosen(when, field, m[f]) # <<>> /\ field.kind # "message"
        <5>1. MergeField(Merged, field, when, old, m[f]) = m[f] BY <3>7, <4>4 DEF MergeField
        <5>2. QED BY <5>1 DEF field, old
      <4>5. CASE Chosen(when, field, m[f]) # <<>> /\ field.kind = "message"
        <5>1. EmbeddedInto(field, old) = Empty[field.of]
          BY <3>2, <3>5, <3>7, <4>5 DEF EmbeddedInto, IsEmbedded, ZeroOf
        <5>2. IsMessage(field.of, m[f])
          <6>1. SUFFICES ASSUME field.optional, m[f] = Nil PROVE FALSE
            BY <3>3, <3>7, <4>5 DEF IsField, IsValue
          <6>2. when = "set" BY <3>1, <3>7, <4>5, <6>1 DEF FieldAgrees
          <6>3. ZeroOf(field) = Nil BY <3>7, <4>5 DEF ZeroOf
          <6>4. QED BY <4>5, <6>1, <6>2, <6>3 DEF Chosen
        <5>3. Merged(field.of, Empty[field.of], m[f]) = m[f] BY <3>4, <4>5, <5>2
        <5>4. MergeField(Merged, field, when, old, m[f]) = m[f]
          BY <3>7, <4>5, <5>1, <5>3 DEF MergeField
        <5>5. QED BY <5>4 DEF field, old
      <4>6. QED BY <4>3, <4>4, <4>5
    <3>8. QED BY <3>5, <3>6, <3>7
  <2>3. MergeFields(Merged, t, Empty[t], m) = m BY <2>1, <2>2 DEF MergeFields
  <2>4. QED BY <2>3, MergeCalls
<1>2. \A t \in DOMAIN Schema : IsFlat(t) => \A m : IsMessage(t, m) => Merged(t, Empty[t], m) = m
  BY <1>1 DEF IsFlat
<1>3. \A t \in DOMAIN Schema : IsNested(t) => \A m : IsMessage(t, m) => Merged(t, Empty[t], m) = m
  BY <1>1, <1>2, Nesting DEF IsNested
<1>4. QED BY <1>1, <1>3, Nesting

-----------------------------------------------------------------------------
(* A set of messages, with their types, that the encoder can write without *)
(* loss: a number has digits and an integer fits its word.  What they have *)
(* embedded is in the set too.                                             *)
Lossless(M) ==
  \A x \in M :
    /\ x[1] \in DOMAIN Schema /\ IsMessage(x[1], x[2])
    /\ \A f \in DOMAIN Schema[x[1]] :
         LET field == Schema[x[1]][f] w == Values(Writes, x[1], x[2])[f] IN
         \A i \in DOMAIN w : /\ field.kind = "number" => w[i] # Nil
                             /\ field.kind = "uint" => w[i] < 2 * Half
                             /\ field.kind = "message" => <<field.of, w[i]>> \in M

(* A message that is in such a set.                                        *)
CanSend(t, m) == \E M : Lossless(M) /\ <<t, m>> \in M

(* A value that is written without loss.                                   *)
Sendable(field, v) ==
  /\ IsValue(IsMessage, field, v)
  /\ field.kind = "bool" => v = TRUE
  /\ field.kind = "number" => v # Nil
  /\ field.kind = "uint" => v < 2 * Half
  /\ field.kind = "message" => CanSend(field.of, v)

(* What is written of such a message are such values.                      *)
LEMMA SentValues ==
  ASSUME TablesAgree, NEW t, NEW m, CanSend(t, m), NEW f \in DOMAIN Schema[t]
  PROVE  /\ t \in DOMAIN Schema /\ IsMessage(t, m)
         /\ LET w == Chosen(Writes[t][f].when, Schema[t][f], m[f]) IN
            (\E S : w \in Seq(S)) /\ \A i \in DOMAIN w : Sendable(Schema[t][f], w[i])
<1>1. PICK M : Lossless(M) /\ <<t, m>> \in M BY DEF CanSend
<1>2. PICK x : x = <<t, m>> OBVIOUS
<1>3. x \in M /\ x[1] = t /\ x[2] = m BY <1>1, <1>2
<1>4. t \in DOMAIN Schema /\ IsMessage(t, m) BY <1>1, <1>3 DEF Lossless
<1> DEFINE field == Schema[t][f]
           w == Chosen(Writes[t][f].when, field, m[f])
<1>5. Values(Writes, t, m)[f] = w BY DEF Values
<1>6. \A i \in DOMAIN w : /\ field.kind = "number" => w[i] # Nil
                          /\ field.kind = "uint" => w[i] < 2 * Half
                          /\ field.kind = "message" => <<field.of, w[i]>> \in M
  BY <1>1, <1>3, <1>5 DEF Lossless
<1>7. (\E S : w \in Seq(S)) /\ \A i \in DOMAIN w : IsValue(IsMessage, field, w[i])
  BY <1>4, ChosenValues
<1>8. ASSUME NEW i \in DOMAIN w, field.kind = "bool" PROVE w[i] = TRUE
  <2>1. FieldAgrees(f, field, Writes[t][f], Counts[t][f]) BY <1>4 DEF TablesAgree, Agree
  <2>2. Writes[t][f].when = "set" /\ ~field.many BY <1>8, <2>1 DEF FieldAgrees
  <2>3. ZeroOf(field) = FALSE BY <1>8, <2>2 DEF ZeroOf
  <2>4. PICK z : z = ZeroOf(field) OBVIOUS
  <2>5. w = IF m[f] = z THEN <<>> ELSE <<m[f]>> BY <2>2, <2>4 DEF Chosen
  <2>6. w[i] # z
    <3>1. i \in DOMAIN w OBVIOUS
    <3> HIDE DEF w
    <3>2. QED BY <2>5, <3>1
  <2>7. w[i] \in BOOLEAN BY <1>7, <1>8 DEF IsValue
  <2>8. QED BY <2>3, <2>4, <2>6, <2>7
<1>9. \A i \in DOMAIN w : field.kind = "message" => CanSend(field.of, w[i])
  BY <1>1, <1>6 DEF CanSend
<1>10. \A i \in DOMAIN w : Sendable(field, w[i]) BY <1>6, <1>7, <1>8, <1>9 DEF Sendable
<1>11. QED BY <1>4, <1>7, <1>10

-----------------------------------------------------------------------------
(* Every number is written so that it can be read.                         *)
NumbersRead == \A n \in Range(Decimal) : Digits[n] \in DOMAIN Decimal /\ Decimal[Digits[n]] = n

(* There are bytes from a to b, in a slice that ends at end.               *)
Room(s, a, b, end) ==
  /\ s \in Seq(Nat) /\ Len(s) < 2 * Half
  /\ a \in Nat /\ b \in Nat /\ b <= Len(s)
  /\ end \in Nat /\ b <= end

(* Where the encoding of m stands, it is decoded into message x.           *)
Encodes(t, m) ==
  \A s, a, b, end, x :
    Room(s, a, b, end) /\ Holds(s, a, b, MarshalToSizedBuffer(t, m)) /\ IsMessage(t, x) =>
      Leads(s, t, end, a, x, b, Merged(t, x, m))

(* What a value is decoded as, into the old value of the field.            *)
Received(field, old, v) ==
  IF field.kind = "message" THEN Merged(field.of, EmbeddedInto(field, old), v) ELSE v

(* The tag of a field.                                                     *)
LEMMA TagRead ==
  ASSUME WordsFit, TablesAgree, NEW t \in DOMAIN Schema, NEW f \in DOMAIN Schema[t]
  PROVE  LET n == Writes[t][f].tag IN
         /\ n \in Nat /\ n < 128 /\ n < 2 * Half /\ encodeVarint[n] = <<n>>
         /\ f = n \div 8 /\ n % 8 = Wanted(Schema[t][f].kind) /\ f < NumHalf
<1>1. FieldAgrees(f, Schema[t][f], Writes[t][f], Counts[t][f]) BY DEF TablesAgree, Agree
<1>2. f \in Nat /\ Half \in Nat /\ NumHalf \in Nat BY FieldTypeOf, WireAssumption
<1>3. PICK k \in {0, 2} : k = Wanted(Schema[t][f].kind) BY DEF Wanted
<1>4. PICK n \in Nat : n = 8 * f + k BY <1>2
<1>5. n = Writes[t][f].tag /\ n < 128 BY <1>1, <1>3, <1>4 DEF FieldAgrees
<1>6. f = n \div 8 /\ n % 8 = k BY <1>2, <1>3, <1>4
<1>7. f < 16 BY <1>2, <1>3, <1>4, <1>5
<1>8. Half >= 64 /\ NumHalf >= 16 /\ High = 128 BY DEF WordsFit
<1>9. n < 2 * Half /\ f < NumHalf BY <1>2, <1>5, <1>7, <1>8
<1>10. encodeVarint[n] = <<n>> BY <1>5, <1>8, Varint
<1>11. QED BY <1>3, <1>5, <1>6, <1>9, <1>10

(* A value is written in bytes.                                            *)
LEMMA BytesOfValue ==
  ASSUME High = 128, TablesAgree, NEW t \in DOMAIN Schema, NEW f \in DOMAIN Schema[t],
         NEW v, IsValue(IsMessage, Schema[t][f], v)
  PROVE  Bytes(MarshalToSizedBuffer, Schema[t][f], v) \in Seq(Nat)
<1> DEFINE field == Schema[t][f]
<1>1. CASE field.kind = "bool"
  <2>1. <<1>> \in Seq(Nat) OBVIOUS
  <2>2. QED BY <1>1, <2>1 DEF Bytes
<1>2. CASE field.kind = "uint"
  <2>1. v \in Nat BY <1>2 DEF IsValue
  <2>2. encodeVarint[v] \in Seq(Nat) BY <2>1, Varint
  <2>3. QED BY <1>2, <2>2 DEF Bytes
<1>3. CASE field.kind = "bytes" BY <1>3 DEF IsValue, Bytes
<1>4. CASE field.kind = "number" BY <1>4, DigitBytes DEF IsValue, Bytes
<1>5. CASE field.kind = "message"
  <2>1. field.of \in DOMAIN Schema BY <1>5, Nesting
  <2>2. IsMessage(field.of, v) BY <1>5 DEF IsValue
  <2>3. IsFilled(field.of, v) BY <2>1, <2>2, MessagesAreFilled
  <2>4. QED BY <1>5, <2>3 DEF IsFilled, Bytes
<1>6. QED BY <1>1, <1>2, <1>3, <1>4, <1>5, FieldTypeOf

(* A number behind the tag of its field is read.                           *)
LEMMA NumberReceived ==
  ASSUME WordsFit, TablesAgree, NEW t \in DOMAIN Schema, NEW f \in DOMAIN Schema[t],
         NEW v, Sendable(Schema[t][f], v), Schema[t][f].kind \in {"bool", "uint"},
         NEW s, NEW a, NEW b, NEW end, Room(s, a, b, end), NEW x,
         Holds(s, a, b, <<Writes[t][f].tag>> \o
                          Prefixed(Schema[t][f], Bytes(MarshalToSizedBuffer, Schema[t][f], v)))
  PROVE  Leads(s, t, end, a, x, b, With(t, x, f, v))
<1> DEFINE field == Schema[t][f]
<1>1. PICK n \in Nat : n = Writes[t][f].tag BY TagRead
<1>2. /\ n < 2 * Half /\ encodeVarint[n] = <<n>> /\ f = n \div 8
      /\ n % 8 = Wanted(field.kind) /\ f < NumHalf
  BY <1>1, TagRead
<1>3. Wanted(field.kind) = 0 BY DEF Wanted
<1>4. PICK k \in Nat : /\ k < 2 * Half /\ v = NumberIn(field, k)
                       /\ Bytes(MarshalToSizedBuffer, field, v) = encodeVarint[k]
  <2>1. CASE field.kind = "bool"
    <3>1. 1 < 2 * Half /\ encodeVarint[1] = <<1>>
      <4>1. High = 128 /\ Half >= 64 /\ Half \in Nat BY WireAssumption DEF WordsFit
      <4>2. PICK one \in Nat : one = 1 OBVIOUS
      <4>3. one < 2 * Half /\ one < 128 BY <4>1, <4>2
      <4>4. encodeVarint[one] = <<one>> BY <4>1, <4>3, Varint
      <4>5. QED BY <4>2, <4>3, <4>4
    <3>2. Bytes(MarshalToSizedBuffer, field, v) = <<1>> BY <2>1 DEF Bytes
    <3>3. v = TRUE BY <2>1 DEF Sendable
    <3>4. (1 # 0) = TRUE OBVIOUS
    <3>5. field.kind # "uint" BY <2>1
    <3>6. v = NumberIn(field, 1) BY <3>3, <3>4, <3>5 DEF NumberIn
    <3>7. QED BY <3>1, <3>2, <3>6
  <2>2. CASE field.kind = "uint"
    <3>1. v \in Nat /\ v < 2 * Half BY <2>2 DEF Sendable, IsValue
    <3>2. Bytes(MarshalToSizedBuffer, field, v) = encodeVarint[v] BY <2>2 DEF Bytes
    <3>3. v = NumberIn(field, v) BY <2>2 DEF NumberIn
    <3>4. QED BY <3>1, <3>2, <3>3
  <2>3. QED BY <2>1, <2>2
<1>5. PICK e \in Seq(Nat) : e = encodeVarint[k] BY Varint DEF WordsFit
<1>6. Holds(s, a, b, <<n>> \o e) BY <1>1, <1>3, <1>4, <1>5 DEF Prefixed
<1>7. <<n>> \in Seq(Nat) /\ a \in Nat BY DEF Room
<1>8. Holds(s, a, a + Len(<<n>>), <<n>>) /\ Holds(s, a + Len(<<n>>), b, e)
  BY <1>6, <1>7, HoldsSplit
<1>9. PICK c : c = a + Len(<<n>>) OBVIOUS
<1>10. HoldsVarint(s, a, c, n) /\ HoldsVarint(s, c, b, k)
  BY <1>2, <1>4, <1>5, <1>8, <1>9 DEF HoldsVarint
<1>11. b <= end BY DEF Room
<1> HIDE DEF field
<1>12. QED BY <1>2, <1>3, <1>4, <1>10, <1>11, NumberLeads DEF field

(* So are bytes, behind the tag and their length.                          *)
LEMMA SliceReceived ==
  ASSUME WordsFit, TablesAgree, NumbersRead,
         NEW t \in DOMAIN Schema, NEW f \in DOMAIN Schema[t],
         NEW v, Sendable(Schema[t][f], v), Schema[t][f].kind \notin {"bool", "uint"},
         NEW s, NEW a, NEW b, NEW end, Room(s, a, b, end), NEW x,
         Schema[t][f].kind = "message" =>
           /\ Encodes(Schema[t][f].of, v)
           /\ IsMessage(Schema[t][f].of, EmbeddedInto(Schema[t][f], x[f])),
         Holds(s, a, b, <<Writes[t][f].tag>> \o
                          Prefixed(Schema[t][f], Bytes(MarshalToSizedBuffer, Schema[t][f], v)))
  PROVE  Leads(s, t, end, a, x, b, With(t, x, f, Received(Schema[t][f], x[f], v)))
<1> DEFINE field == Schema[t][f]
<1>1. PICK n \in Nat : n = Writes[t][f].tag BY TagRead
<1>2. /\ n < 2 * Half /\ encodeVarint[n] = <<n>> /\ f = n \div 8
      /\ n % 8 = Wanted(field.kind) /\ f < NumHalf
  BY <1>1, TagRead
<1>3. Wanted(field.kind) = 2 BY DEF Wanted
<1>4. field.kind \in {"bytes", "number", "message"} BY FieldTypeOf
<1>5. IsValue(IsMessage, field, v) BY DEF Sendable
<1> HIDE DEF field
<1>6. PICK q \in Seq(Nat) : q = Bytes(MarshalToSizedBuffer, field, v)
  BY <1>5, BytesOfValue DEF WordsFit, field
<1>7. PICK k \in Nat : k = Len(q) OBVIOUS
<1>8. PICK e \in Seq(Nat) : e = encodeVarint[k] BY Varint DEF WordsFit
<1>9. Holds(s, a, b, <<n>> \o (e \o q)) BY <1>1, <1>3, <1>6, <1>7, <1>8 DEF Prefixed, field
<1>10. <<n>> \in Seq(Nat) /\ e \o q \in Seq(Nat) /\ a \in Nat BY DEF Room
<1>11. PICK c \in Nat : c = a + Len(<<n>>) BY <1>10
<1>12. Holds(s, a, c, <<n>>) /\ Holds(s, c, b, e \o q)
  BY <1>9, <1>10, <1>11, HoldsSplit
<1>13. PICK d \in Nat : d = c + Len(e) BY <1>8
<1>14. Holds(s, c, d, e) /\ Holds(s, d, b, q) BY <1>12, <1>13, HoldsSplit
<1>15. b = d + k BY <1>7, <1>14 DEF Holds
<1>16. k < 2 * Half
  <2>1. Len(s) \in Nat /\ Len(s) < 2 * Half /\ b \in Nat /\ b <= Len(s) /\ Half \in Nat
    BY WireAssumption DEF Room
  <2>2. QED BY <1>15, <2>1
<1>17. HoldsVarint(s, a, c, n) /\ HoldsVarint(s, c, d, k)
  BY <1>2, <1>8, <1>12, <1>14, <1>16 DEF HoldsVarint
<1>18. SubSeq(s, d + 1, b) = q BY <1>14, HeldSlice DEF Room
<1> DEFINE u == Received(field, x[f], v)
<1>19. \E R : Explains(s, R) /\ HoldsValue(s, R, t, x, f, d, b, u)
  <2>1. CASE field.kind = "bytes"
    <3>1. u = SubSeq(s, d + 1, b) BY <1>6, <1>18, <2>1 DEF Received, Bytes
    <3>2. Explains(s, {}) BY DEF Explains
    <3>3. QED BY <2>1, <3>1, <3>2 DEF HoldsValue, field
  <2>2. CASE field.kind = "number"
    <3>1. v # Nil BY <2>2 DEF Sendable, field
    <3>2. v \in Range(Decimal) BY <1>5, <2>2, <3>1 DEF IsValue
    <3>3. q = Digits[v] BY <1>6, <2>2, <3>1 DEF Bytes, DigitsOf
    <3>4. q \in DOMAIN Decimal /\ v = Decimal[q] BY <3>2, <3>3 DEF NumbersRead
    <3>5. u = v BY <2>2 DEF Received
    <3>6. Explains(s, {}) BY DEF Explains
    <3>7. QED BY <1>18, <2>2, <3>4, <3>5, <3>6 DEF HoldsValue, field
  <2>3. CASE field.kind = "message"
    <3>1. PICK o : o = EmbeddedInto(field, x[f]) OBVIOUS
    <3>2. Encodes(field.of, v) /\ IsMessage(field.of, o) BY <2>3, <3>1 DEF field
    <3>3. q = MarshalToSizedBuffer(field.of, v) BY <1>6, <2>3 DEF Bytes
    <3>4. Room(s, d, b, b) BY DEF Room
    <3>5. Leads(s, field.of, b, d, o, b, Merged(field.of, o, v))
      BY <1>14, <3>2, <3>3, <3>4 DEF Encodes
    <3>6. u = Merged(field.of, o, v) BY <2>3, <3>1 DEF Received
    <3>7. Parses(s, Task(field.of, b, b, u, u)) BY NothingLeft
    <3>8. Parses(s, Task(field.of, d, b, o, u)) BY <3>5, <3>6, <3>7 DEF Leads
    <3>9. QED BY <2>3, <3>1, <3>8 DEF HoldsValue, Parses, field
  <2>4. QED BY <1>4, <2>1, <2>2, <2>3
<1>20. b <= end BY DEF Room
<1> HIDE DEF u
<1>21. Leads(s, t, end, a, x, b, With(t, x, f, u))
  BY <1>2, <1>3, <1>15, <1>17, <1>19, <1>20, SliceLeads DEF field
<1>22. QED BY <1>21 DEF u, field

(* A value, read and put into its field.                                   *)
LEMMA ValueReceived ==
  ASSUME WordsFit, TablesAgree, NumbersRead,
         NEW t \in DOMAIN Schema, NEW f \in DOMAIN Schema[t], NEW v, Sendable(Schema[t][f], v),
         NEW s, NEW a, NEW b, NEW end, Room(s, a, b, end), NEW x,
         Schema[t][f].kind = "message" =>
           /\ Encodes(Schema[t][f].of, v)
           /\ IsMessage(Schema[t][f].of, EmbeddedInto(Schema[t][f], x[f])),
         Holds(s, a, b, <<Writes[t][f].tag>> \o
                          Prefixed(Schema[t][f], Bytes(MarshalToSizedBuffer, Schema[t][f], v)))
  PROVE  Leads(s, t, end, a, x, b, With(t, x, f, Received(Schema[t][f], x[f], v)))
<1>1. CASE Schema[t][f].kind \in {"bool", "uint"}
  <2>1. Received(Schema[t][f], x[f], v) = v BY <1>1 DEF Received
  <2>2. QED BY <1>1, <2>1, NumberReceived
<1>2. CASE Schema[t][f].kind \notin {"bool", "uint"} BY <1>2, SliceReceived
<1>3. QED BY <1>1, <1>2

(* Lists before and after element i of w is appended.                      *)
Grows(old, w, i, q, r) == q = old \o SubSeq(w, 1, i - 1) /\ r = old \o SubSeq(w, 1, i)

(* One more element is appended to those that were.                        *)
LEMMA OneMore ==
  ASSUME NEW S, NEW old \in Seq(S), NEW w \in Seq(S), NEW i, i \in DOMAIN w,
         NEW q, NEW next, Grows(old, w, i, q, next)
  PROVE  Append(q, w[i]) = next
<1>1. PICK l \in Nat, n \in Nat : l = Len(old) /\ n = Len(w) OBVIOUS
<1>2. PICK k \in 1..n : k = i BY <1>1
<1>3. PICK h \in 0..n : h = k - 1 OBVIOUS
<1> DEFINE p(j) == old \o SubSeq(w, 1, j)
<1>4. \A j \in 0..n : /\ p(j) \in Seq(S) /\ Len(p(j)) = l + j
                      /\ \A g \in 1..l+j : p(j)[g] = IF g <= l THEN old[g] ELSE w[g - l]
  BY <1>1
<1>5. q = p(h) /\ next = p(k) /\ w[i] = w[k] BY <1>2, <1>3 DEF Grows
<1> HIDE DEF p
<1>6. PICK u \in Seq(S), r \in Seq(S) : u = p(h) /\ r = p(k) BY <1>3, <1>4
<1>7. Len(u) = l + h /\ Len(r) = l + k
  <2>1. k \in 0..n /\ h \in 0..n OBVIOUS
  <2>2. Len(p(h)) = l + h /\ Len(p(k)) = l + k BY <1>4, <2>1
  <2>3. QED BY <1>6, <2>2, Zenon
<1>8. ASSUME NEW g \in 1..l+h PROVE u[g] = r[g]
  <2>1. g \in 1..l+k BY <1>3
  <2>2. QED BY <1>3, <1>4, <1>6, <2>1
<1>9. r[l + k] = w[k]
  <2>1. l + k \in 1..l+k /\ ~(l + k <= l) /\ l + k - l = k BY <1>3
  <2>2. p(k)[l + k] = IF l + k <= l THEN old[l + k] ELSE w[l + k - l] BY <1>3, <1>4, <2>1
  <2>3. QED BY <1>6, <2>1, <2>2
<1>10. PICK y \in S : y = w[k] BY <1>1
<1>11. PICK z : /\ z = Append(u, y) /\ z \in Seq(S) /\ Len(z) = Len(u) + 1
                /\ z[Len(u) + 1] = y /\ \A g \in 1..Len(u) : z[g] = u[g]
  <2>1. /\ Append(u, y) \in Seq(S) /\ Len(Append(u, y)) = Len(u) + 1
        /\ Append(u, y)[Len(u) + 1] = y /\ \A g \in 1..Len(u) : Append(u, y)[g] = u[g]
    OBVIOUS
  <2>2. QED BY <2>1, Zenon
<1>12. Len(z) = l + k BY <1>3, <1>7, <1>11
<1>13. ASSUME NEW g \in 1..l+k PROVE z[g] = r[g]
  <2>1. CASE g = l + k
    <3>1. z[g] = y BY <1>3, <1>7, <1>11, <2>1
    <3>2. QED BY <1>9, <1>10, <2>1, <3>1
  <2>2. CASE g # l + k
    <3>1. g \in 1..l+h BY <1>3, <2>2
    <3>2. z[g] = u[g] BY <1>7, <1>11, <3>1
    <3>3. QED BY <1>8, <3>1, <3>2
  <2>3. QED BY <2>1, <2>2
<1>14. z = [g \in 1..l+k |-> z[g]] /\ r = [g \in 1..l+k |-> r[g]]
  <2>1. \A e \in Seq(S) : e = [g \in 1..Len(e) |-> e[g]] OBVIOUS
  <2>2. z \in Seq(S) /\ r \in Seq(S) BY <1>11
  <2>3. QED BY <1>7, <1>12, <2>1, <2>2
<1>15. z = r BY <1>13, <1>14
<1>16. Append(u, y) = r BY <1>11, <1>15
<1>17. QED BY <1>5, <1>6, <1>10, <1>16

-----------------------------------------------------------------------------
(* What is written of a value of field f, and of the field of message m.   *)
ValueBytes(t, f, v) ==
  <<Writes[t][f].tag>> \o Prefixed(Schema[t][f], Bytes(MarshalToSizedBuffer, Schema[t][f], v))
FieldBytes(t, m, f) ==
  LET w == Values(Writes, t, m)[f] IN
  Written(t, f, [i \in DOMAIN w |-> Bytes(MarshalToSizedBuffer, Schema[t][f], w[i])])

(* Message x can take more of field f, and has taken it from m.            *)
Takes(t, f, x) == x = [g \in DOMAIN Schema[t] |-> x[g]] /\ IsField(IsMessage, Schema[t][f], x[f])
Taken(t, f, x, m) ==
  [x EXCEPT ![f] = MergeField(Merged, Schema[t][f], Writes[t][f].when, x[f], m[f])]

IsList(t, f) == Schema[t][f].many
EncodesEmbedded(t) == \A u \in EmbeddedTypes(t) : \A v : CanSend(u, v) => Encodes(u, v)

(* What is written of a field is read as the merged value of the field.    *)
LEMMA SingleReceived ==
  ASSUME WordsFit, TablesAgree, NumbersRead, NEW t, NEW m, CanSend(t, m),
         NEW f \in DOMAIN Schema[t], ~IsList(t, f), EncodesEmbedded(t),
         NEW s, NEW a, NEW b, NEW end, Room(s, a, b, end), NEW x, Takes(t, f, x),
         Holds(s, a, b, FieldBytes(t, m, f))
  PROVE  Leads(s, t, end, a, x, b, Taken(t, f, x, m))
<1> DEFINE field == Schema[t][f]
           when == Writes[t][f].when
           y == [x EXCEPT ![f] = MergeField(Merged, field, when, x[f], m[f])]
<1>1. PICK w : w = Chosen(when, field, m[f]) OBVIOUS
<1>2. Holds(s, a, b, Written(t, f, [i \in DOMAIN w |-> Bytes(MarshalToSizedBuffer, field, w[i])]))
  BY <1>1 DEF FieldBytes, Values
<1>3. /\ ~field.many /\ x = [g \in DOMAIN Schema[t] |-> x[g]] /\ IsField(IsMessage, field, x[f])
      /\ \A u \in EmbeddedTypes(t) : \A v : CanSend(u, v) => Encodes(u, v)
      /\ Taken(t, f, x, m) = y
  BY DEF IsList, Takes, Taken, EncodesEmbedded
<1>4. t \in DOMAIN Schema /\ \A i \in DOMAIN w : Sendable(field, w[i]) BY <1>1, SentValues
<1>5. FieldAgrees(f, field, Writes[t][f], Counts[t][f]) BY <1>4 DEF TablesAgree, Agree
<1>6. w = <<>> \/ w = <<m[f]>> BY <1>1, <1>5, <1>3 DEF FieldAgrees, Chosen
<1>7. CASE w = <<>>
  <2>1. MergeField(Merged, field, when, x[f], m[f]) = x[f] BY <1>1, <1>7, <1>3 DEF MergeField
  <2>2. y = x BY <1>3, <2>1, Zenon
  <2>3. Written(t, f, [i \in DOMAIN w |-> Bytes(MarshalToSizedBuffer, field, w[i])]) = <<>>
    <3>1. [i \in DOMAIN w |-> Bytes(MarshalToSizedBuffer, field, w[i])] = <<>> BY <1>7
    <3>2. Written(t, f, <<>>) = FlattenSeq(<<>>) BY DEF Written
    <3>3. FlattenSeq(<<>>) = <<>> BY DEF FlattenSeq
    <3>4. QED BY <3>1, <3>2, <3>3
  <2>4. b = a
    <3>1. b = a + 0 BY <1>2, <2>3 DEF Holds
    <3>2. QED BY <3>1 DEF Room
  <2>5. QED BY <1>3, <2>2, <2>4 DEF Leads
<1>8. CASE w = <<m[f]>> /\ w # <<>>
  <2>1. Sendable(field, m[f])
    <3>1. 1 \in DOMAIN w /\ w[1] = m[f] BY <1>8
    <3>2. QED BY <1>4, <3>1
  <2> DEFINE e == <<Writes[t][f].tag>> \o Prefixed(field, Bytes(MarshalToSizedBuffer, field, m[f]))
  <2>2. Written(t, f, [i \in DOMAIN w |-> Bytes(MarshalToSizedBuffer, field, w[i])]) = e
    <3> DEFINE c == Bytes(MarshalToSizedBuffer, field, m[f])
    <3>1. [i \in DOMAIN w |-> Bytes(MarshalToSizedBuffer, field, w[i])] = <<c>>
      <4>1. DOMAIN w = 1..1 /\ w[1] = m[f] BY <1>8
      <4>2. \A i \in 1..1 : w[i] = m[f] BY <4>1
      <4>3. QED BY <4>1, <4>2
    <3> HIDE DEF c
    <3>2. Written(t, f, <<c>>) = FlattenSeq(<<<<Writes[t][f].tag>> \o Prefixed(field, c)>>)
      <4>1. DOMAIN <<c>> = {1} /\ <<c>>[1] = c OBVIOUS
      <4>2. [i \in DOMAIN <<c>> |-> <<Writes[t][f].tag>> \o Prefixed(field, <<c>>[i])]
              = [i \in {1} |-> <<Writes[t][f].tag>> \o Prefixed(field, c)]
        BY <4>1
      <4>3. \A q : [i \in {1} |-> q] = <<q>> OBVIOUS
      <4>4. QED BY <4>2, <4>3 DEF Written
    <3>3. \A q : FlattenSeq(<<q>>) = q BY DEF FlattenSeq
    <3>4. QED BY <3>1, <3>2, <3>3 DEF c
  <2>3. Holds(s, a, b, e) BY <1>2, <2>2
  <2> HIDE DEF e
  <2>4. field.kind = "message" => /\ Encodes(field.of, m[f])
                                  /\ IsMessage(field.of, EmbeddedInto(field, x[f]))
    <3>1. SUFFICES ASSUME field.kind = "message"
                   PROVE  Encodes(field.of, m[f]) /\ IsMessage(field.of, EmbeddedInto(field, x[f]))
      OBVIOUS
    <3>2. field.of \in EmbeddedTypes(t) /\ field.of \in DOMAIN Schema BY <1>4, <3>1, Nesting
    <3>3. Encodes(field.of, m[f]) BY <1>3, <2>1, <3>1, <3>2 DEF Sendable
    <3>4. IsMessage(field.of, Empty[field.of]) BY <3>2, EmptyIsMessage
    <3>5. x[f] = Nil \/ IsMessage(field.of, x[f]) BY <1>3, <3>1 DEF IsField, IsValue
    <3>6. QED BY <1>3, <3>3, <3>4, <3>5 DEF EmbeddedInto
  <2>5. Leads(s, t, end, a, x, b, With(t, x, f, Received(field, x[f], m[f])))
    BY <1>4, <2>1, <2>3, <2>4, ValueReceived DEF e
  <2>6. Received(field, x[f], m[f]) = MergeField(Merged, field, when, x[f], m[f])
    BY <1>1, <1>8, <1>3 DEF Received, MergeField
  <2>7. With(t, x, f, Received(field, x[f], m[f])) = y BY <1>3, <2>6 DEF With
  <2>8. QED BY <1>3, <2>5, <2>7
<1>9. QED BY <1>6, <1>7, <1>8

(* The bytes of the field, value for value.                                *)
IsWritten(t, m, f, w, ss) ==
  /\ ss \in Seq(Seq(Nat)) /\ FieldBytes(t, m, f) = FlattenSeq(ss) /\ Len(ss) = Len(w)
  /\ \A i \in DOMAIN w : ss[i] = ValueBytes(t, f, w[i])

(* What is written of a field is what is written of its values.            *)
LEMMA FieldOfValues ==
  ASSUME High = 128, TablesAgree, NEW t, NEW m, CanSend(t, m), NEW f \in DOMAIN Schema[t],
         NEW w, w = Values(Writes, t, m)[f]
  PROVE  FieldBytes(t, m, f) \in Seq(Nat) /\ \E ss : IsWritten(t, m, f, w, ss)
<1> DEFINE n == Len(w)
<1> DEFINE e(v) == ValueBytes(t, f, v)
           ss == [i \in DOMAIN w |-> e(w[i])]
<1>1. /\ t \in DOMAIN Schema /\ n \in Nat /\ DOMAIN w = 1..n
      /\ \A i \in 1..n : IsValue(IsMessage, Schema[t][f], w[i])
  <2>1. PICK v : v = Chosen(Writes[t][f].when, Schema[t][f], m[f]) OBVIOUS
  <2>2. t \in DOMAIN Schema /\ (\E S : v \in Seq(S))
        /\ \A i \in DOMAIN v : Sendable(Schema[t][f], v[i])
    BY <2>1, SentValues
  <2>3. v = w BY <2>1 DEF Values
  <2>4. n \in Nat /\ DOMAIN w = 1..n BY <2>2, <2>3
  <2>5. QED BY <2>2, <2>3, <2>4 DEF Sendable
<1>2. PICK tag \in Nat : tag = Writes[t][f].tag
  <2>1. FieldAgrees(f, Schema[t][f], Writes[t][f], Counts[t][f]) BY <1>1 DEF TablesAgree, Agree
  <2>2. f \in Nat BY <1>1, FieldTypeOf
  <2>3. 8 * f + Wanted(Schema[t][f].kind) \in Nat BY <2>2 DEF Wanted
  <2>4. QED BY <2>1, <2>3 DEF FieldAgrees
<1>3. ASSUME NEW i \in 1..n PROVE e(w[i]) \in Seq(Nat)
  <2>1. PICK b \in Seq(Nat) : b = Bytes(MarshalToSizedBuffer, Schema[t][f], w[i])
    BY <1>1, BytesOfValue
  <2>2. PICK q \in Seq(Nat) : q = Prefixed(Schema[t][f], b) BY <1>1, PrefixCounted
  <2>3. <<tag>> \o q \in Seq(Nat) OBVIOUS
  <2>4. QED BY <1>2, <2>1, <2>2, <2>3 DEF ValueBytes
<1>4. FieldBytes(t, m, f) = FlattenSeq(ss)
  <2> DEFINE b == [i \in DOMAIN w |-> Bytes(MarshalToSizedBuffer, Schema[t][f], w[i])]
  <2>1. DOMAIN b = DOMAIN w
        /\ \A i \in DOMAIN w : b[i] = Bytes(MarshalToSizedBuffer, Schema[t][f], w[i])
    OBVIOUS
  <2>2. FieldBytes(t, m, f) = Written(t, f, b) BY DEF FieldBytes
  <2> HIDE DEF b
  <2>3. FieldBytes(t, m, f)
          = FlattenSeq([i \in DOMAIN b |-> <<Writes[t][f].tag>> \o Prefixed(Schema[t][f], b[i])])
    BY <2>2 DEF Written
  <2>4. QED BY <2>1, <2>3 DEF ValueBytes
<1> HIDE DEF e
<1>5. ss \in [1..n -> Seq(Nat)] /\ \A i \in 1..n : ss[i] = e(w[i]) BY <1>1, <1>3
<1> HIDE DEF ss
<1>6. ss \in Seq(Seq(Nat)) /\ DOMAIN ss = 1..n /\ Len(ss) = n
  <2>1. n \in Nat BY <1>1
  <2>2. QED BY <1>5, <2>1
<1>7. FlattenSeq(ss) \in Seq(Nat)
  <2> DEFINE l == [i \in DOMAIN ss |-> Len(ss[i])]
  <2>1. DOMAIN l = DOMAIN ss /\ \A k \in DOMAIN ss : l[k] = Len(ss[k]) OBVIOUS
  <2> HIDE DEF l
  <2>2. QED BY <1>6, <2>1, FlattenLength
<1>8. IsWritten(t, m, f, w, ss) BY <1>1, <1>4, <1>5, <1>6 DEF e, IsWritten
<1>9. QED BY <1>4, <1>7, <1>8

(* What is written of a list is appended, element by element.              *)
LEMMA ListReceived ==
  ASSUME WordsFit, TablesAgree, NumbersRead, NEW t, NEW m, CanSend(t, m),
         NEW f \in DOMAIN Schema[t], IsList(t, f), EncodesEmbedded(t),
         NEW s, NEW a, NEW b, NEW end, Room(s, a, b, end), NEW x, Takes(t, f, x),
         Holds(s, a, b, FieldBytes(t, m, f))
  PROVE  Leads(s, t, end, a, x, b, Taken(t, f, x, m))
<1> DEFINE field == Schema[t][f]
           when == Writes[t][f].when
<1>1. PICK w, n : w = Values(Writes, t, m)[f] /\ n = Len(w) OBVIOUS
<1>2. w = Chosen(when, field, m[f]) BY <1>1 DEF Values
<1>3. t \in DOMAIN Schema /\ \A i \in DOMAIN w : Sendable(field, w[i]) BY <1>2, SentValues
<1>4. FieldAgrees(f, field, Writes[t][f], Counts[t][f]) BY <1>3 DEF TablesAgree, Agree
<1>5. w = m[f] BY <1>2, <1>4 DEF FieldAgrees, Chosen, IsList
<1>6. PICK S : w \in Seq(S) /\ x[f] \in Seq(S)
  <2>1. PICK S1 : w \in Seq(S1) BY <1>2, SentValues
  <2>2. PICK S2 : x[f] \in Seq(S2) BY DEF Takes, IsField, IsList
  <2>3. \A A, B : A \subseteq B => \A e \in Seq(A) : e \in Seq(B) OBVIOUS
  <2>4. S1 \subseteq S1 \cup S2 /\ S2 \subseteq S1 \cup S2 OBVIOUS
  <2>5. w \in Seq(S1 \cup S2) /\ x[f] \in Seq(S1 \cup S2) BY <2>1, <2>2, <2>3, <2>4
  <2>6. QED BY <2>5
<1>7. PICK old \in Seq(S) : old = x[f] BY <1>6
<1>8. PICK ss \in Seq(Seq(Nat)) :
        /\ FieldBytes(t, m, f) = FlattenSeq(ss) /\ Len(ss) = n
        /\ \A i \in DOMAIN w : ss[i] = ValueBytes(t, f, w[i])
  <2>1. High = 128 BY DEF WordsFit
  <2>2. \E ss : IsWritten(t, m, f, w, ss) BY <1>1, <2>1, FieldOfValues
  <2>3. QED BY <1>1, <2>2 DEF IsWritten
<1>9. PICK p \in [0..n -> Nat] :
        /\ p[0] = a /\ p[n] = b
        /\ \A i \in 1..n : Holds(s, p[i - 1], p[i], ss[i]) /\ p[i] <= b
  <2>1. a \in Nat BY DEF Room
  <2>2. Holds(s, a, b, FlattenSeq(ss)) /\ n = Len(ss) BY <1>8
  <2>3. \E p : Cuts(s, a, b, ss, p) BY <2>1, <2>2, FlattenCuts
  <2>4. QED BY <2>2, <2>3 DEF Cuts
<1>10. n \in Nat /\ DOMAIN w = 1..n BY <1>1, <1>6
<1> DEFINE y == [i \in 0..n |-> [x EXCEPT ![f] = old \o SubSeq(w, 1, i)]]
<1>11. y[0] = x /\ y[n] = [x EXCEPT ![f] = old \o w]
  <2>1. 0 \in 0..n /\ n \in 0..n BY <1>10
  <2>2. old \o SubSeq(w, 1, 0) = old /\ old \o SubSeq(w, 1, n) = old \o w
    <3>1. \A q \in Seq(S) : SubSeq(q, 1, Len(q)) = q /\ SubSeq(q, 1, 0) = <<>> /\ q \o <<>> = q
      OBVIOUS
    <3>2. QED BY <1>1, <1>6, <3>1
  <2>3. [x EXCEPT ![f] = old] = x BY <1>7 DEF Takes
  <2>4. QED BY <2>1, <2>2, <2>3
<1>12. ASSUME NEW i \in 1..n PROVE Leads(s, t, end, p[i - 1], y[i - 1], p[i], y[i])
  <2>1. i - 1 \in 0..n /\ i \in 0..n BY <1>10, <1>12
  <2>2. y[i - 1] = [x EXCEPT ![f] = old \o SubSeq(w, 1, i - 1)]
        /\ y[i] = [x EXCEPT ![f] = old \o SubSeq(w, 1, i)]
    BY <2>1
  <2>3. y[i - 1][f] = old \o SubSeq(w, 1, i - 1) BY <2>2 DEF Takes
  <2> HIDE DEF y
  <2>4. Sendable(field, w[i]) BY <1>3, <1>10
  <2>5. PICK o : o = y[i - 1] OBVIOUS
  <2>6. field.kind = "message" =>
          /\ Encodes(field.of, w[i]) /\ EmbeddedInto(field, o[f]) = Empty[field.of]
          /\ IsMessage(field.of, EmbeddedInto(field, o[f]))
    <3>1. SUFFICES ASSUME field.kind = "message"
                   PROVE  /\ Encodes(field.of, w[i]) /\ EmbeddedInto(field, o[f]) = Empty[field.of]
                          /\ IsMessage(field.of, EmbeddedInto(field, o[f]))
      OBVIOUS
    <3>2. field.of \in EmbeddedTypes(t) /\ field.of \in DOMAIN Schema BY <1>3, <3>1, Nesting
    <3>3. Encodes(field.of, w[i]) BY <2>4, <3>1, <3>2 DEF Sendable, EncodesEmbedded
    <3>4. IsMessage(field.of, Empty[field.of]) BY <3>2, EmptyIsMessage
    <3>5. QED BY <3>3, <3>4 DEF EmbeddedInto, IsList
  <2>7. Received(field, o[f], w[i]) = w[i]
    <3>1. field.kind = "message" => IsMessage(field.of, w[i]) /\ field.of \in DOMAIN Schema
      BY <1>3, <2>4, Nesting DEF Sendable, IsValue
    <3>2. QED BY <2>6, <3>1, MergedEmpty DEF Received
  <2>8. PICK c, d : c = p[i - 1] /\ d = p[i] OBVIOUS
  <2>9. Room(s, c, d, end)
    <3>1. c \in Nat /\ d \in Nat /\ d <= b BY <1>9, <2>1, <2>8
    <3>2. QED BY <3>1 DEF Room
  <2>10. Holds(s, c, d, ValueBytes(t, f, w[i])) BY <1>8, <1>9, <1>10, <2>8
  <2>11. Leads(s, t, end, c, o, d, With(t, o, f, Received(field, o[f], w[i])))
    BY <1>3, <2>4, <2>6, <2>9, <2>10, ValueReceived DEF ValueBytes
  <2>12. With(t, o, f, w[i]) = y[i]
    <3>1. Append(old \o SubSeq(w, 1, i - 1), w[i]) = old \o SubSeq(w, 1, i)
      <4>1. PICK q, r : q = old \o SubSeq(w, 1, i - 1) /\ r = old \o SubSeq(w, 1, i)
        OBVIOUS
      <4>2. w \in Seq(S) /\ i \in DOMAIN w BY <1>6, <1>10
      <4>3. Grows(old, w, i, q, r) BY <4>1 DEF Grows
      <4>4. Append(q, w[i]) = r BY <4>2, <4>3, OneMore
      <4>5. QED BY <4>1, <4>4, Zenon
    <3>2. With(t, o, f, w[i]) = [o EXCEPT ![f] = Append(o[f], w[i])] BY DEF With, IsList
    <3>3. [o EXCEPT ![f] = Append(o[f], w[i])] = [x EXCEPT ![f] = Append(o[f], w[i])]
      BY <2>2, <2>5
    <3>4. QED BY <2>2, <2>3, <2>5, <3>1, <3>2, <3>3
  <2>13. QED BY <2>5, <2>7, <2>8, <2>11, <2>12
<1> HIDE DEF y
<1>13. Leads(s, t, end, p[0], y[0], p[n], y[n]) BY <1>10, <1>12, LeadsChain
<1>14. MergeField(Merged, field, when, x[f], m[f]) = old \o w
  BY <1>5, <1>7 DEF MergeField, IsList
<1>15. QED BY <1>9, <1>11, <1>13, <1>14 DEF Taken

(* What is written of a field is read as the merged value of the field.    *)
LEMMA FieldReceived ==
  ASSUME WordsFit, TablesAgree, NumbersRead, NEW t, NEW m, CanSend(t, m),
         NEW f \in DOMAIN Schema[t], EncodesEmbedded(t),
         NEW s, NEW a, NEW b, NEW end, Room(s, a, b, end), NEW x, Takes(t, f, x),
         Holds(s, a, b, FieldBytes(t, m, f))
  PROVE  Leads(s, t, end, a, x, b, Taken(t, f, x, m))
BY SingleReceived, ListReceived

-----------------------------------------------------------------------------
(* What is made of two messages is a message.                              *)
LEMMA MergedIfInner ==
  ASSUME TablesAgree, NEW t \in DOMAIN Schema, NEW x, IsMessage(t, x), NEW m, IsMessage(t, m),
         \A u \in EmbeddedTypes(t) : \A y, n :
           IsMessage(u, y) /\ IsMessage(u, n) => IsMessage(u, Merged(u, y, n))
  PROVE  IsMessage(t, Merged(t, x, m))
<1> DEFINE y == MergeFields(Merged, t, x, m)
<1>1. \A f \in DOMAIN Schema[t] : /\ IsField(IsMessage, Schema[t][f], x[f])
                                  /\ IsField(IsMessage, Schema[t][f], m[f])
  BY MessageFields DEF HasFields
<1>2. ASSUME NEW f \in DOMAIN Schema[t] PROVE IsField(IsMessage, Schema[t][f], y[f])
  <2> DEFINE field == Schema[t][f]
             when == Writes[t][f].when
  <2>1. y[f] = MergeField(Merged, field, when, x[f], m[f]) BY DEF MergeFields
  <2>2. IsField(IsMessage, field, x[f]) /\ IsField(IsMessage, field, m[f]) BY <1>1
  <2>3. PICK z, old, new : z = y[f] /\ old = x[f] /\ new = m[f] OBVIOUS
  <2>4. FieldAgrees(f, field, Writes[t][f], Counts[t][f]) BY DEF TablesAgree, Agree
  <2> HIDE DEF y
  <2>5. CASE field.many
    <3>1. z = old \o new BY <2>1, <2>3, <2>5 DEF MergeField
    <3>2. PICK S1 : old \in Seq(S1) BY <2>2, <2>3, <2>5 DEF IsField
    <3>3. PICK S2 : new \in Seq(S2) BY <2>2, <2>3, <2>5 DEF IsField
    <3>4. /\ z \in Seq(S1 \cup S2)
          /\ \A i \in DOMAIN z : \/ \E j \in DOMAIN old : z[i] = old[j]
                                 \/ \E j \in DOMAIN new : z[i] = new[j]
      <4>1. PICK c \in Seq(S1), d \in Seq(S2) : c = old /\ d = new BY <3>2, <3>3
      <4>2. /\ c \o d \in Seq(S1 \cup S2)
            /\ \A i \in DOMAIN (c \o d) : \/ i \in DOMAIN c /\ (c \o d)[i] = c[i]
                                          \/ /\ i - Len(c) \in DOMAIN d
                                             /\ (c \o d)[i] = d[i - Len(c)]
        OBVIOUS
      <4>3. PICK e : e = c \o d OBVIOUS
      <4>4. /\ e \in Seq(S1 \cup S2)
            /\ \A i \in DOMAIN e : \/ \E j \in DOMAIN c : e[i] = c[j]
                                   \/ \E j \in DOMAIN d : e[i] = d[j]
        BY <4>2, <4>3, Zenon
      <4>5. QED BY <3>1, <4>1, <4>3, <4>4, Zenon
    <3>5. \A i \in DOMAIN z : IsValue(IsMessage, field, z[i])
      <4>1. /\ \A i \in DOMAIN old : IsValue(IsMessage, field, old[i])
            /\ \A i \in DOMAIN new : IsValue(IsMessage, field, new[i])
        BY <2>2, <2>3, <2>5 DEF IsField
      <4>2. QED BY <3>4, <4>1
    <3>6. QED BY <2>3, <2>5, <3>4, <3>5 DEF IsField
  <2>6. CASE ~field.many
    <3>1. CASE Chosen(when, field, new) = <<>>
      <4>1. z = old BY <2>1, <2>3, <2>6, <3>1 DEF MergeField
      <4>2. QED BY <2>2, <2>3, <4>1
    <3>2. CASE Chosen(when, field, new) # <<>> /\ field.kind # "message"
      <4>1. z = new BY <2>1, <2>3, <2>6, <3>2 DEF MergeField
      <4>2. QED BY <2>2, <2>3, <4>1
    <3>3. CASE Chosen(when, field, new) # <<>> /\ field.kind = "message"
      <4>1. z = Merged(field.of, EmbeddedInto(field, old), new)
        BY <2>1, <2>3, <2>6, <3>3 DEF MergeField
      <4>2. field.of \in EmbeddedTypes(t) /\ field.of \in DOMAIN Schema BY <3>3, Nesting
      <4>3. IsMessage(field.of, EmbeddedInto(field, old))
        <5>1. old = Nil \/ IsMessage(field.of, old) BY <2>2, <2>3, <2>6, <3>3 DEF IsField, IsValue
        <5>2. IsMessage(field.of, Empty[field.of]) BY <4>2, EmptyIsMessage
        <5>3. QED BY <2>6, <5>1, <5>2 DEF EmbeddedInto
      <4>4. IsMessage(field.of, new)
        <5>1. SUFFICES ASSUME field.optional, new = Nil PROVE FALSE
          BY <2>2, <2>3, <2>6, <3>3 DEF IsField, IsValue
        <5>2. when = "set" BY <2>4, <2>6, <3>3, <5>1 DEF FieldAgrees
        <5>3. ZeroOf(field) = Nil BY <2>6, <3>3 DEF ZeroOf
        <5>4. QED BY <3>3, <5>1, <5>2, <5>3 DEF Chosen
      <4>5. IsMessage(field.of, z) BY <1>2, <4>1, <4>2, <4>3, <4>4
      <4>6. QED BY <2>3, <2>6, <3>3, <4>5 DEF IsField, IsValue
    <3>4. QED BY <3>1, <3>2, <3>3
  <2>7. field.many \in BOOLEAN BY FieldTypeOf
  <2>8. QED BY <2>5, <2>6, <2>7
<1>3. y = [f \in DOMAIN Schema[t] |-> y[f]] BY DEF MergeFields
<1> HIDE DEF y
<1>4. HasFields(IsMessage, t, y) BY <1>2, <1>3 DEF HasFields
<1>5. IsMessage(t, y) BY <1>4, MessageFields
<1>6. QED BY <1>5, MergeCalls DEF y

(* A message that has had another merged into it is a message.             *)
LEMMA MergedIsMessage ==
  TablesAgree => \A t \in DOMAIN Schema : \A x, m :
                   IsMessage(t, x) /\ IsMessage(t, m) => IsMessage(t, Merged(t, x, m))
<1> SUFFICES ASSUME TablesAgree
             PROVE  \A t \in DOMAIN Schema : \A x, m :
                      IsMessage(t, x) /\ IsMessage(t, m) => IsMessage(t, Merged(t, x, m))
  OBVIOUS
<1>1. \A t \in DOMAIN Schema : IsFlat(t) =>
        \A x, m : IsMessage(t, x) /\ IsMessage(t, m) => IsMessage(t, Merged(t, x, m))
  BY MergedIfInner DEF IsFlat
<1>2. \A t \in DOMAIN Schema : IsNested(t) =>
        \A x, m : IsMessage(t, x) /\ IsMessage(t, m) => IsMessage(t, Merged(t, x, m))
  BY <1>1, Nesting, MergedIfInner DEF IsNested
<1>3. QED BY <1>2, Nesting, MergedIfInner

-----------------------------------------------------------------------------
(* If embedded messages are decoded as they were, so is a message.         *)
LEMMA EncodesIfInner ==
  ASSUME WordsFit, TablesAgree, NumbersRead, NEW t, NEW m, CanSend(t, m), EncodesEmbedded(t)
  PROVE  Encodes(t, m)
<1>0. t \in DOMAIN Schema BY DEF CanSend, Lossless
<1> SUFFICES ASSUME NEW s, NEW a, NEW b, NEW end, NEW x, Room(s, a, b, end),
                    Holds(s, a, b, MarshalToSizedBuffer(t, m)), IsMessage(t, x)
             PROVE  Leads(s, t, end, a, x, b, Merged(t, x, m))
  BY DEF Encodes
<1>1. PICK n \in Nat : DOMAIN Schema[t] = 1..n BY <1>0, WireAssumption
<1> DEFINE ss == [f \in 1..n |-> FieldBytes(t, m, f)]
           z == Merged(t, x, m)
           y == [i \in 0..n |-> [f \in 1..n |-> IF f <= i THEN z[f] ELSE x[f]]]
<1>2. ss \in Seq(Seq(Nat)) /\ DOMAIN ss = 1..n /\ Len(ss) = n
  <2>1. \A f \in 1..n : FieldBytes(t, m, f) \in Seq(Nat)
    <3>1. SUFFICES ASSUME NEW f \in 1..n PROVE FieldBytes(t, m, f) \in Seq(Nat) OBVIOUS
    <3>2. f \in DOMAIN Schema[t] /\ High = 128 BY <1>1 DEF WordsFit
    <3>3. QED BY <3>2, FieldOfValues
  <2>2. ss \in [1..n -> Seq(Nat)] BY <2>1
  <2> HIDE DEF ss
  <2>3. QED BY <2>2
<1>3. MarshalToSizedBuffer(t, m) = FlattenSeq(ss)
  BY <1>0, <1>1, MarshalCalls DEF Marshal, FieldBytes
<1>4. PICK p : p \in [0..n -> Nat] /\ p[0] = a /\ p[n] = b
               /\ \A i \in 1..n : Holds(s, p[i - 1], p[i], ss[i]) /\ p[i] <= b
  <2> HIDE DEF ss
  <2>1. a \in Nat BY DEF Room
  <2>2. Holds(s, a, b, FlattenSeq(ss)) BY <1>3
  <2>3. \E p : Cuts(s, a, b, ss, p) BY <1>2, <2>1, <2>2, FlattenCuts
  <2>4. QED BY <1>2, <2>3 DEF Cuts
<1>5. x = [f \in 1..n |-> x[f]] /\ \A f \in 1..n : IsField(IsMessage, Schema[t][f], x[f])
  BY <1>0, <1>1, MessageFields DEF HasFields
<1>6. z = [f \in 1..n |-> z[f]]
      /\ \A f \in 1..n : z[f] = MergeField(Merged, Schema[t][f], Writes[t][f].when, x[f], m[f])
  <2>1. z = MergeFields(Merged, t, x, m) BY <1>0, MergeCalls
  <2>2. QED BY <1>1, <2>1 DEF MergeFields
<1> HIDE DEF z
<1>7. y[0] = x /\ y[n] = z
  <2>1. 0 \in 0..n /\ n \in 0..n /\ \A f \in 1..n : ~(f <= 0) /\ f <= n OBVIOUS
  <2>2. QED BY <1>5, <1>6, <2>1
<1>8. ASSUME NEW i \in 1..n PROVE Leads(s, t, end, p[i - 1], y[i - 1], p[i], y[i])
  <2>1. i - 1 \in 0..n /\ i \in 0..n /\ ~(i <= i - 1) /\ i <= i
        /\ \A f \in 1..n : f # i => (f <= i - 1 <=> f <= i)
    OBVIOUS
  <2>2. /\ y[i - 1] = [f \in 1..n |-> IF f <= i - 1 THEN z[f] ELSE x[f]]
        /\ y[i] = [f \in 1..n |-> IF f <= i THEN z[f] ELSE x[f]]
    BY <2>1
  <2>3. ss[i] = FieldBytes(t, m, i) OBVIOUS
  <2> HIDE DEF y, ss
  <2>4. y[i - 1][i] = x[i] BY <2>1, <2>2
  <2>5. y[i] = [y[i - 1] EXCEPT ![i] = z[i]] BY <2>1, <2>2
  <2>6. PICK c, d, g, o : c = p[i - 1] /\ d = p[i] /\ g = i /\ o = y[i - 1] OBVIOUS
  <2>7. g \in DOMAIN Schema[t] BY <1>1, <2>6
  <2>8. Room(s, c, d, end)
    <3>1. c \in Nat /\ d \in Nat /\ d <= b BY <1>4, <2>1, <2>6
    <3>2. QED BY <3>1 DEF Room
  <2>9. Takes(t, g, o)
    <3>1. o = [f \in 1..n |-> o[f]] BY <2>2, <2>6
    <3>2. IsField(IsMessage, Schema[t][g], o[g]) BY <1>5, <2>4, <2>6
    <3>3. QED BY <1>1, <3>1, <3>2 DEF Takes
  <2>10. Holds(s, c, d, FieldBytes(t, m, g)) BY <1>4, <2>3, <2>6
  <2>11. Leads(s, t, end, c, o, d, Taken(t, g, o, m)) BY <2>7, <2>8, <2>9, <2>10, FieldReceived
  <2>12. Taken(t, g, o, m) = y[i] BY <1>6, <2>4, <2>5, <2>6 DEF Taken
  <2>13. QED BY <2>6, <2>11, <2>12
<1> HIDE DEF y, ss
<1>9. Leads(s, t, end, p[0], y[0], p[n], y[n]) BY <1>8, LeadsChain
<1>10. QED BY <1>4, <1>7, <1>9 DEF z

(* So are all messages that are written without loss.                      *)
LEMMA MessagesEncode ==
  WordsFit /\ TablesAgree /\ NumbersRead => \A t, m : CanSend(t, m) => Encodes(t, m)
<1> SUFFICES ASSUME WordsFit, TablesAgree, NumbersRead
             PROVE  \A t, m : CanSend(t, m) => Encodes(t, m)
  OBVIOUS
<1>1. \A t, m : CanSend(t, m) => t \in DOMAIN Schema BY DEF CanSend, Lossless
<1>2. \A t, m : IsFlat(t) /\ CanSend(t, m) => Encodes(t, m)
  BY EncodesIfInner DEF IsFlat, EncodesEmbedded
<1>3. \A t, m : IsNested(t) /\ CanSend(t, m) => Encodes(t, m)
  BY <1>2, EncodesIfInner DEF IsNested, EncodesEmbedded
<1>4. ASSUME NEW t, NEW m, CanSend(t, m) PROVE Encodes(t, m)
  <2>1. \A u \in EmbeddedTypes(t) : IsNested(u) BY <1>1, <1>4, Nesting
  <2>2. EncodesEmbedded(t) BY <1>3, <2>1 DEF EncodesEmbedded
  <2>3. QED BY <1>4, <2>2, EncodesIfInner
<1>5. QED BY <1>4

(* Bytes that are, by themselves, a field that messages of type t do not   *)
(* have.                                                                   *)
IsUnknownField(t, u) ==
  u \in Seq(Nat) /\ \E n, c : HoldsVarint(u, 0, c, n) /\ SkipsField(u, t, c, n, Len(u))

(* The places that end at l, when what was at 0 is at a, and l is at b.    *)
Moved(S, a, l, b) == {<<a + x[1], x[2], b>> : x \in {y \in S : y[3] = l}}

(* What is read of bytes that stand in others can be read there.           *)
LEMMA VarintMoved ==
  ASSUME High = 128, NEW s, NEW u \in Seq(Nat), NEW a \in Nat, NEW b, Holds(s, a, b, u),
         NEW i \in Nat, NEW j, NEW v, HoldsVarint(u, i, j, v)
  PROVE  /\ j \in Nat /\ v \in Nat /\ i < j
         /\ j <= Len(u) => HoldsVarint(s, a + i, a + j, v)
<1>1. v \in Nat /\ v < 2 * Half /\ Holds(u, i, j, encodeVarint[v]) BY DEF HoldsVarint
<1>2. PICK l \in Nat \ {0} : l = Len(encodeVarint[v]) BY <1>1, VarintBytes
<1>3. j = i + l /\ \A h \in 1..l : u[i + h] = encodeVarint[v][h] BY <1>1, <1>2 DEF Holds
<1>4. ASSUME j <= Len(u) PROVE HoldsVarint(s, a + i, a + j, v)
  <2>1. ASSUME NEW h \in 1..l PROVE s[a + i + h] = encodeVarint[v][h]
    <3>1. i + h \in 1..Len(u) /\ a + (i + h) = a + i + h BY <1>3, <1>4
    <3>2. s[a + (i + h)] = u[i + h] BY <3>1 DEF Holds
    <3>3. QED BY <1>3, <3>1, <3>2
  <2>2. a + j = a + i + l BY <1>3
  <2>3. QED BY <1>1, <1>2, <2>1, <2>2 DEF HoldsVarint, Holds
<1>5. QED BY <1>1, <1>2, <1>3, <1>4

(* What is skipped there is skipped here.                                  *)
LEMMA SkipMoved ==
  ASSUME High = 128, NEW s, NEW u \in Seq(Nat), NEW a \in Nat, NEW b, Holds(s, a, b, u),
         NEW S, NEW l, l = Len(u), NEW T, T = Moved(S, a, l, b),
         NEW c \in Nat, NEW n, NEW k, SkipFollows(u, S, c, n, k, l)
  PROVE  SkipFollows(s, T, a + c, n, k, b)
<1>1. l \in Nat /\ b = a + l BY DEF Holds
<1>2. ASSUME NEW q \in Nat, NEW h, SkipsOn(S, q, h, l) PROVE q <= l /\ SkipsOn(T, a + q, h, b)
  <2>1. q <= l /\ a + q <= b BY <1>1, <1>2 DEF SkipsOn
  <2>2. CASE h = 0 BY <1>1, <1>2, <2>1, <2>2 DEF SkipsOn
  <2>3. CASE h # 0
    <3>1. PICK x \in S : x = <<q, h, l>> BY <1>2, <2>3 DEF SkipsOn
    <3>2. x[1] = q /\ x[2] = h /\ x[3] = l BY <3>1
    <3>3. <<a + q, h, b>> \in T BY <3>2 DEF Moved
    <3>4. QED BY <2>1, <2>3, <3>3 DEF SkipsOn
  <2>4. QED BY <2>2, <2>3
<1>3. CASE n % 8 = 0 /\ \E v, d : HoldsVarint(u, c, d, v) /\ SkipsOn(S, d, k, l)
  <2>1. PICK v, d : HoldsVarint(u, c, d, v) /\ SkipsOn(S, d, k, l) BY <1>3
  <2>2. d \in Nat /\ d <= l /\ SkipsOn(T, a + d, k, b) BY <1>2, <2>1, VarintMoved
  <2>3. HoldsVarint(s, a + c, a + d, v) BY <2>1, <2>2, VarintMoved
  <2>4. QED BY <1>3, <2>2, <2>3 DEF SkipFollows
<1>4. CASE n % 8 = 2 /\ \E v, d : HoldsVarint(u, c, d, v) /\ SkipsOn(S, d + v, k, l)
  <2>1. PICK v, d : HoldsVarint(u, c, d, v) /\ SkipsOn(S, d + v, k, l) BY <1>4
  <2>2. d \in Nat /\ v \in Nat BY <2>1, VarintMoved
  <2>3. d + v \in Nat /\ a + (d + v) = a + d + v BY <2>2
  <2>4. d + v <= l /\ SkipsOn(T, a + (d + v), k, b) BY <1>2, <2>1, <2>3
  <2>5. d <= l BY <1>1, <2>2, <2>4
  <2>6. HoldsVarint(s, a + c, a + d, v) BY <2>1, <2>5, VarintMoved
  <2>7. SkipsOn(T, a + d + v, k, b) BY <2>3, <2>4
  <2>8. QED BY <1>4, <2>6, <2>7 DEF SkipFollows
<1>5. CASE n % 8 = 1 /\ SkipsOn(S, c + 8, k, l)
  <2>1. c + 8 \in Nat /\ a + (c + 8) = a + c + 8 OBVIOUS
  <2>2. SkipsOn(T, a + c + 8, k, b) BY <1>2, <1>5, <2>1
  <2>3. QED BY <1>5, <2>2 DEF SkipFollows
<1>6. CASE n % 8 = 5 /\ SkipsOn(S, c + 4, k, l)
  <2>1. c + 4 \in Nat /\ a + (c + 4) = a + c + 4 OBVIOUS
  <2>2. SkipsOn(T, a + c + 4, k, b) BY <1>2, <1>6, <2>1
  <2>3. QED BY <1>6, <2>2 DEF SkipFollows
<1>7. CASE n % 8 = 3 /\ SkipsOn(S, c, k + 1, l) BY <1>2, <1>7 DEF SkipFollows
<1>8. CASE n % 8 = 4 /\ k > 0 /\ SkipsOn(S, c, k - 1, l) BY <1>2, <1>8 DEF SkipFollows
<1>9. QED BY <1>3, <1>4, <1>5, <1>6, <1>7, <1>8 DEF SkipFollows

(* An unknown field is one wherever it stands.                             *)
LEMMA UnknownFieldMoved ==
  ASSUME High = 128, NEW s, NEW t, NEW u, IsUnknownField(t, u),
         NEW a \in Nat, NEW b, Holds(s, a, b, u)
  PROVE  \E n, c : HoldsVarint(s, a, c, n) /\ SkipsField(s, t, c, n, b)
<1>1. PICK l \in Nat : l = Len(u) /\ u \in Seq(Nat) /\ b = a + l BY DEF IsUnknownField, Holds
<1>2. PICK n, c, S :
        /\ HoldsVarint(u, 0, c, n) /\ n \div 8 > 0 /\ n \div 8 < NumHalf
        /\ n \div 8 \notin DOMAIN Schema[t] /\ Skips(u, S) /\ SkipFollows(u, S, c, n, 0, l)
  BY <1>1 DEF IsUnknownField, SkipsField
<1>3. PICK T : T = Moved(S, a, l, b) OBVIOUS
<1>4. c \in Nat BY <1>1, <1>2, VarintMoved
<1>5. SkipFollows(s, T, a + c, n, 0, b) BY <1>1, <1>2, <1>3, <1>4, SkipMoved
<1>6. c <= l BY <1>1, <1>2, <1>4, SkipInside
<1>7. HoldsVarint(s, a, a + c, n)
  <2>1. HoldsVarint(s, a + 0, a + c, n) BY <1>1, <1>2, <1>6, VarintMoved
  <2>2. QED BY <2>1
<1>8. Skips(s, T)
  <2>1. SUFFICES ASSUME NEW y \in T
                 PROVE  /\ y[1] \in Nat /\ y[2] \in Nat /\ y[3] \in Nat
                        /\ \E m, d : /\ HoldsVarint(s, y[1], d, m)
                                     /\ SkipFollows(s, T, d, m, y[2], y[3])
    BY DEF Skips
  <2>2. PICK x \in S : x[3] = l /\ y = <<a + x[1], x[2], b>> BY <1>3, <2>1 DEF Moved
  <2>3. y[1] = a + x[1] /\ y[2] = x[2] /\ y[3] = b BY <2>2
  <2>4. PICK m, d : HoldsVarint(u, x[1], d, m) /\ SkipFollows(u, S, d, m, x[2], l)
    BY <1>2, <2>2 DEF Skips
  <2>5. x[1] \in Nat /\ x[2] \in Nat BY <1>2 DEF Skips
  <2>6. d \in Nat BY <1>1, <2>4, <2>5, VarintMoved
  <2>7. d <= l BY <1>1, <2>4, <2>6, SkipInside
  <2>8. HoldsVarint(s, a + x[1], a + d, m) BY <1>1, <2>4, <2>5, <2>7, VarintMoved
  <2>9. SkipFollows(s, T, a + d, m, x[2], b) BY <1>1, <1>3, <2>4, <2>6, SkipMoved
  <2>10. a + x[1] \in Nat /\ b \in Nat BY <1>1, <2>5
  <2>11. QED BY <2>3, <2>5, <2>8, <2>9, <2>10
<1>9. QED BY <1>2, <1>5, <1>7, <1>8 DEF SkipsField

(* A piece of the bytes that arrive: a field the type does not have, or an *)
(* encoding of a message, which is merged into what was decoded before.    *)
Adds(t, bytes, old, new) ==
  \/ IsUnknownField(t, bytes) /\ new = old
  \/ \E part : /\ CanSend(t, part) /\ bytes = MarshalToSizedBuffer(t, part)
               /\ new = Merged(t, old, part)

(* The bytes are such pieces, one after the other, and m is what they make.*)
Joins(t, bytes, m) ==
  \E pieces, made :
    /\ pieces \in Seq(Seq(Nat)) /\ bytes = FlattenSeq(pieces)
    /\ made[0] = Empty[t] /\ made[Len(pieces)] = m
    /\ \A i \in 1..Len(pieces) : Adds(t, pieces[i], made[i - 1], made[i])

(* What can be sent is a message, and its encoding is a sequence of bytes. *)
LEMMA SentIsMessage ==
  ASSUME High = 128, TablesAgree, NEW t, NEW m, CanSend(t, m)
  PROVE  t \in DOMAIN Schema /\ IsMessage(t, m) /\ MarshalToSizedBuffer(t, m) \in Seq(Nat)
<1>1. PICK M : Lossless(M) /\ <<t, m>> \in M BY DEF CanSend
<1>2. \A x \in M : x[1] \in DOMAIN Schema /\ IsMessage(x[1], x[2]) BY <1>1 DEF Lossless
<1>3. <<t, m>>[1] = t /\ <<t, m>>[2] = m OBVIOUS
<1>4. t \in DOMAIN Schema /\ IsMessage(t, m) BY <1>1, <1>2, <1>3
<1>5. IsFilled(t, m) BY <1>4, MessagesAreFilled
<1>6. QED BY <1>4, <1>5 DEF IsFilled

(* A single encoding is of the message itself, also between unknown fields.*)
LEMMA EncodingJoins ==
  ASSUME High = 128, TablesAgree, NEW t, NEW m, CanSend(t, m)
  PROVE  Joins(t, MarshalToSizedBuffer(t, m), m)
<1>1. PICK e \in Seq(Nat) : e = MarshalToSizedBuffer(t, m) BY SentIsMessage
<1>2. t \in DOMAIN Schema /\ IsMessage(t, m) BY SentIsMessage
<1> DEFINE pieces == <<e>>
           made == [i \in 0..1 |-> IF i = 0 THEN Empty[t] ELSE m]
<1>3. /\ pieces \in Seq(Seq(Nat)) /\ Len(pieces) = 1 /\ pieces[1] = e
      /\ \A i \in 1..1 : i = 1 /\ i - 1 = 0
  OBVIOUS
<1>4. made[0] = Empty[t] /\ made[1] = m OBVIOUS
<1>5. FlattenSeq(pieces) = e BY DEF FlattenSeq
<1> HIDE DEF pieces, made
<1>6. Merged(t, made[0], m) = made[1] BY <1>2, <1>4, MergedEmpty
<1>7. Adds(t, pieces[1], made[0], made[1]) BY <1>1, <1>3, <1>6 DEF Adds
<1>8. \A i \in 1..Len(pieces) : Adds(t, pieces[i], made[i - 1], made[i]) BY <1>3, <1>7
<1>9. QED BY <1>1, <1>3, <1>4, <1>5, <1>8 DEF Joins

(* Each piece leads behind it, with what it makes.                         *)
LEMMA PieceLeads ==
  ASSUME WordsFit, TablesAgree, NumbersRead, NEW t \in DOMAIN Schema,
         NEW s \in Seq(Nat), NEW a \in Nat, NEW b \in Nat, NEW end, Room(s, a, b, end),
         NEW piece, Holds(s, a, b, piece),
         NEW old, IsMessage(t, old), NEW new, Adds(t, piece, old, new)
  PROVE  IsMessage(t, new) /\ Leads(s, t, end, a, old, b, new)
<1>1. High = 128 BY DEF WordsFit
<1>2. CASE IsUnknownField(t, piece) /\ new = old
  <2>1. PICK n, c : HoldsVarint(s, a, c, n) /\ SkipsField(s, t, c, n, b)
    BY <1>1, <1>2, UnknownFieldMoved
  <2>2. b <= end BY DEF Room
  <2>3. QED BY <1>2, <2>1, <2>2, UnknownLeads
<1>3. ASSUME NEW part, CanSend(t, part), piece = MarshalToSizedBuffer(t, part),
             new = Merged(t, old, part)
      PROVE  IsMessage(t, new) /\ Leads(s, t, end, a, old, b, new)
  <2>1. IsMessage(t, part) BY <1>1, <1>3, SentIsMessage
  <2>2. Encodes(t, part) BY <1>3, MessagesEncode
  <2>3. Holds(s, a, b, MarshalToSizedBuffer(t, part)) BY <1>3
  <2>4. Leads(s, t, end, a, old, b, Merged(t, old, part)) BY <2>2, <2>3 DEF Encodes
  <2>5. IsMessage(t, Merged(t, old, part)) BY <2>1, MergedIsMessage
  <2>6. QED BY <1>3, <2>4, <2>5
<1>4. QED BY <1>2, <1>3 DEF Adds

(* The bytes of such pieces explain what is made of them.                  *)
LEMMA JoinsParse ==
  ASSUME WordsFit, TablesAgree, NumbersRead, NEW t \in DOMAIN Schema,
         NEW s \in Seq(Nat), Len(s) < 2 * Half, NEW m, Joins(t, s, m)
  PROVE  Parses(s, Task(t, 0, Len(s), Empty[t], m))
<1>1. PICK pieces, made :
        /\ pieces \in Seq(Seq(Nat)) /\ s = FlattenSeq(pieces)
        /\ made[0] = Empty[t] /\ made[Len(pieces)] = m
        /\ \A i \in 1..Len(pieces) : Adds(t, pieces[i], made[i - 1], made[i])
  BY DEF Joins
<1>2. PICK n \in Nat, l \in Nat : n = Len(pieces) /\ l = Len(s) BY <1>1
<1>3. PICK p : p \in [0..n -> Nat] /\ p[0] = 0 /\ p[n] = l
               /\ \A i \in 1..n : Holds(s, p[i - 1], p[i], pieces[i]) /\ p[i] <= l
  <2>1. PICK z \in Nat : z = 0 OBVIOUS
  <2>2. Holds(s, z, l, FlattenSeq(pieces)) BY <1>1, <1>2, <2>1 DEF Holds
  <2>3. \E p : Cuts(s, z, l, pieces, p) BY <1>1, <2>2, FlattenCuts
  <2>4. QED BY <1>2, <2>1, <2>3 DEF Cuts
<1>4. ASSUME NEW i \in 1..n, IsMessage(t, made[i - 1])
      PROVE  IsMessage(t, made[i]) /\ Leads(s, t, l, p[i - 1], made[i - 1], p[i], made[i])
  <2>1. i - 1 \in 0..n /\ i \in 0..n BY <1>4
  <2>2. PICK a \in Nat, b \in Nat : a = p[i - 1] /\ b = p[i] BY <1>3, <2>1
  <2>3. b <= l BY <1>3, <2>2
  <2>4. Room(s, a, b, l) BY <1>2, <2>2, <2>3 DEF Room
  <2>5. Holds(s, a, b, pieces[i]) BY <1>3, <2>2
  <2>6. Adds(t, pieces[i], made[i - 1], made[i]) BY <1>1, <1>2
  <2>7. IsMessage(t, made[i]) /\ Leads(s, t, l, a, made[i - 1], b, made[i])
    BY <1>4, <2>4, <2>5, <2>6, PieceLeads
  <2>8. QED BY <2>2, <2>7
<1>5. \A i \in 0..n : IsMessage(t, made[i])
  <2> DEFINE Bad == {i \in 0..n : ~IsMessage(t, made[i])}
  <2>1. SUFFICES ASSUME Bad # {} PROVE FALSE OBVIOUS
  <2>2. Bad \in SUBSET Nat OBVIOUS
  <2>3. PICK i \in Bad : \A j \in Bad : i <= j BY <2>1, <2>2, Least
  <2>4. i \in 0..n /\ ~IsMessage(t, made[i]) BY <2>3
  <2>5. i # 0 BY <1>1, <2>4, EmptyIsMessage
  <2>6. i \in 1..n /\ i - 1 \in 0..n /\ ~(i <= i - 1) BY <2>4, <2>5
  <2>7. IsMessage(t, made[i - 1]) BY <2>3, <2>6
  <2> HIDE DEF Bad
  <2>8. QED BY <1>4, <2>4, <2>6, <2>7
<1>6. ASSUME NEW i \in 1..n PROVE Leads(s, t, l, p[i - 1], made[i - 1], p[i], made[i])
  <2>1. i - 1 \in 0..n OBVIOUS
  <2>2. QED BY <1>4, <1>5, <2>1
<1>7. Leads(s, t, l, p[0], made[0], p[n], made[n]) BY <1>6, LeadsChain
<1>8. Leads(s, t, l, 0, Empty[t], l, m) BY <1>1, <1>2, <1>3, <1>7
<1>9. Parses(s, Task(t, l, l, m, m)) BY NothingLeft
<1>10. QED BY <1>2, <1>8, <1>9 DEF Leads

(* Whatever was encoded is decoded, for all the messages of the chain: a   *)
(* message the encoder can write, alone, among fields its type does not    *)
(* have, or joined with other encodings, which merges them.                *)
THEOREM RoundTripCorrect ==
  ASSUME Schema = MessageTypes, Writes = MessageWrites, Counts = MessageCounts,
         WordsFit, NumbersRead, <<>> \notin DOMAIN Decimal,
         \A m \in Input : m.sent # Nil => Joins(m.type, m.bytes, m.sent)
  PROVE  MessagesSpec => []DecodesWhatWasSent
<1>1. TablesAgree BY ChainTablesAgree
<1>2. ASSUME NEW m \in Input, m.sent # Nil
      PROVE  \E R : /\ Explains(m.bytes, R)
                    /\ Task(m.type, 0, Len(m.bytes), Empty[m.type], m.sent) \in R
  <2>1. PICK s : s = m.bytes OBVIOUS
  <2>2. m.type \in DOMAIN Schema /\ s \in Seq(0..2*High-1) /\ Len(s) < Half /\ Half \in Nat
    BY <2>1, WireAssumption
  <2>3. s \in Seq(Nat) /\ Len(s) < 2 * Half
    <3>1. 0..2*High-1 \subseteq Nat BY WireAssumption
    <3>2. \A A, B : A \subseteq B => \A e \in Seq(A) : e \in Seq(B) OBVIOUS
    <3>3. s \in Seq(Nat) BY <2>2, <3>1, <3>2
    <3>4. Len(s) \in Nat BY <3>3
    <3>5. QED BY <2>2, <3>3, <3>4
  <2>4. Parses(s, Task(m.type, 0, Len(s), Empty[m.type], m.sent))
    BY <1>1, <1>2, <2>1, <2>2, <2>3, JoinsParse
  <2>5. QED BY <2>1, <2>4 DEF Parses
<1>3. QED BY <1>2, DecoderCorrect

-----------------------------------------------------------------------------
(* Unknown fields there are: any number, tag first, is one.                *)
LEMMA UnknownNumber ==
  ASSUME High = 128, NEW t, NEW n \in Nat, n < 2 * Half, n % 8 = 0,
         n \div 8 > 0, n \div 8 < NumHalf, n \div 8 \notin DOMAIN Schema[t],
         NEW v \in Nat, v < 2 * Half
  PROVE  IsUnknownField(t, encodeVarint[n] \o encodeVarint[v])
<1>1. PICK d \in Seq(Nat), e \in Seq(Nat) : d = encodeVarint[n] /\ e = encodeVarint[v]
  BY VarintBytes
<1>2. PICK u \in Seq(Nat), l \in Nat, c \in Nat : u = d \o e /\ l = Len(u) /\ c = Len(d)
  <2>1. d \o e \in Seq(Nat) OBVIOUS
  <2>2. Len(d \o e) \in Nat /\ Len(d) \in Nat BY <2>1
  <2>3. QED BY <2>1, <2>2
<1>3. Holds(u, 0, l, u) BY <1>2 DEF Holds
<1>4. Holds(u, 0, c, d) /\ Holds(u, c, l, e)
  <2>1. PICK z \in Nat : z = 0 OBVIOUS
  <2>2. Holds(u, z, z + Len(d), d) /\ Holds(u, z + Len(d), l, e) BY <1>2, <1>3, <2>1, HoldsSplit
  <2>3. z + Len(d) = c BY <1>2, <2>1
  <2>4. QED BY <2>1, <2>2, <2>3
<1>5. HoldsVarint(u, 0, c, n) /\ HoldsVarint(u, c, l, v) BY <1>1, <1>4 DEF HoldsVarint
<1>6. SkipsOn({}, l, 0, l) BY DEF SkipsOn
<1>7. SkipFollows(u, {}, c, n, 0, l) BY <1>5, <1>6 DEF SkipFollows
<1>8. Skips(u, {}) BY DEF Skips
<1>9. SkipsField(u, t, c, n, l) BY <1>7, <1>8 DEF SkipsField
<1>10. IsUnknownField(t, u) BY <1>2, <1>5, <1>9 DEF IsUnknownField
<1>11. QED BY <1>1, <1>2, <1>10
=============================================================================
