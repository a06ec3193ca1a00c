----------------------------- MODULE MCMessages -----------------------------
(***************************************************************************)
(* Inputs: every short sequence of the bytes that matter to the decoder;   *)
(* every type with its fields set, unset and set one at a time; encodings  *)
(* joined; fields no type knows put before and after; and messages of a    *)
(* transaction cut short.  Words have 15 bits and varints three groups,    *)
(* which hold 21 bits as ten groups hold 70 of 64.                         *)
(***************************************************************************)
EXTENDS Messages, Encoding, Schemas, Encoders, TLC

CONSTANTS
  MaxBytes,    \* length of the sequences that are tried in full
  ByteTypes    \* the types they are tried on

MCBech32 == {<<65>>, <<66>>}
MCDigits == (-1 :> <<45, 49>>) @@ (0 :> <<48>>) @@ (1 :> <<49>>)
MCDecimal == (<<45, 49>> :> -1) @@ (<<48>> :> 0) @@ (<<49>> :> 1)

(* A message with all of its fields set, or none.                          *)
RECURSIVE Filled(_, _)
Filled(t, set) ==
  LET Value(field) ==
        CASE field.kind = "bytes" -> IF set THEN <<65>> ELSE <<>>
          [] field.kind = "bool" -> set
          [] field.kind = "uint" -> IF set THEN 300 ELSE 0
          [] field.kind = "number" -> IF set THEN 1 ELSE 0
          [] field.kind = "message" ->
               IF field.optional /\ ~set THEN Nil ELSE Filled(field.of, set)
  IN [f \in DOMAIN MessageTypes[t] |->
        LET field == MessageTypes[t][f] IN
        IF ~field.many THEN Value(field)
        ELSE IF set THEN <<Value(field), Value([field EXCEPT !.optional = FALSE])>>
        ELSE <<>>]

Samples(t) ==
  LET full == Filled(t, TRUE) none == Filled(t, FALSE) IN
  {full, none} \cup {[none EXCEPT ![f] = full[f]] : f \in DOMAIN none}
               \cup {[full EXCEPT ![f] = none[f]] : f \in DOMAIN none}

(* Joined, b after a: lists are joined, embedded messages are merged, and  *)
(* anything else is that of b where b has it written.                      *)
RECURSIVE Merged(_, _, _)
Merged(t, a, b) ==
  [f \in DOMAIN MessageTypes[t] |->
     LET field == MessageTypes[t][f] IN
     IF field.many THEN a[f] \o b[f]
     ELSE IF Chosen(Writes[t][f].when, field, b[f]) = <<>> THEN a[f]
     ELSE IF field.kind = "message" /\ a[f] # Nil THEN Merged(field.of, a[f], b[f])
     ELSE b[f]]

(* Field 15 as a number, 8 bytes, bytes, a group in a group and 4 bytes.   *)
Unknown ==
  <<120, 255, 1, 121, 1, 2, 3, 4, 5, 6, 7, 8, 122, 1, 9,
    123, 120, 5, 123, 124, 124, 125, 1, 2, 3, 4>>

Arrival(t, bytes, m) == [type |-> t, bytes |-> bytes, sent |-> m]

Sound ==
  UNION {LET bytes(m) == MarshalToSizedBuffer(t, m) IN
         {Arrival(t, bytes(m), m) : m \in Samples(t)}
         \cup {Arrival(t, Unknown \o bytes(m) \o Unknown, m) : m \in {Filled(t, TRUE)}}
         \cup {Arrival(t, bytes(a) \o bytes(b), Merged(t, a, b)) :
                 a \in {Filled(t, TRUE)}, b \in Samples(t)}
           : t \in DOMAIN MessageTypes}

Cut ==
  UNION {LET bytes == MarshalToSizedBuffer(t, Filled(t, TRUE)) IN
         {Arrival(t, SubSeq(bytes, 1, n), Nil) : n \in 0..Len(bytes)}
           : t \in DOMAIN Checks}

(* Small lengths, tags of field 1 and of field 2 with every wire type, the *)
(* largest groups.                                                         *)
Odd == {0, 1, 8, 9, 10, 18, 19, 20, 21, 127, 128, 255}

MCInput ==
  Sound \cup Cut
  \cup {Arrival(t, bytes, Nil) :
          t \in ByteTypes, bytes \in UNION {[1..n -> Odd] : n \in 0..MaxBytes}}
=============================================================================
