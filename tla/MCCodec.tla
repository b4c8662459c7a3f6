------------------------------ MODULE MCCodec ------------------------------
(***************************************************************************)
(* Messages for TLC: every schema, once with each field at each of four    *)
(* samples, the largest value, the smallest, one too large or missing, and *)
(* for 64-bit numbers one too large, while the other fields have the first *)
(* or the second sample.                                                   *)
(***************************************************************************)
EXTENDS CodecProps

\* The third sample of a text and of a number is too large, of a 64-bit number
\* the fourth; the others have no fourth one of their own.
RECURSIVE Sample(_, _)
Sample(t, j) ==
    CASE t.type = "Uint" -> <<Base ^ t.size - 1, 0, Base ^ t.size, 1>>[j]
      [] t.type = "64" -> << <<Base ^ 4 - 1, 1>>, <<0, Base ^ 4 - 1>>, Null, <<5 * Base ^ 4 + 7, 5>> >>[j]
      [] t.type = "Utf8" -> << <<1, Ascii + 3, 2>>, Null, [i \in 1..Base ^ 2 |-> 1], <<2>> >>[j]
      [] t.type = "Bool" -> <<TRUE, FALSE, TRUE, FALSE>>[j]
      [] t.type = "Array" ->
            << <<Sample(t.of, 1), Sample(t.of, 1)>>, << >>, <<Sample(t.of, 2)>>, <<Sample(t.of, 4)>> >>[j]
      [] t.type = "Map" ->
            << << <<Sample(t.of[1], 1), Sample(t.of[2], 1)>>, <<Sample(t.of[1], 2), Sample(t.of[2], 2)>> >>,
               << >>, << <<Sample(t.of[1], 2), Sample(t.of[2], 3)>> >>,
               << <<Sample(t.of[1], 4), Sample(t.of[2], 4)>> >> >>[j]
      [] t.type = "Object" -> [k \in Keys(t.schema) |-> Sample(FieldType(t.schema, k), j)]
      [] t.type = "Buffer" -> Null

\* Schema s with field number f at sample j and the others at sample b.
Filled(s, b, f, j) ==
    [k \in Keys(s) |-> Sample(FieldType(s, k), IF Schemas[s][f][1] = k THEN j ELSE b)]
Rest(s, b) == [k \in Keys(s) |-> Sample(FieldType(s, k), b)]

TypeOf(schema) == CHOOSE type \in {0, 1, 2, 3, 4, 6} : AssetSchema(type) = schema
Signed(trs, schema, asset) == [trs EXCEPT !.type = TypeOf(schema), !.asset = asset]
Trs(schema, b) == Signed(Rest(schema, b), 13, Rest(13, b))
BlockOf(block, trs) == [block EXCEPT !.transactions = trs]

MCData(c) ==
    LET v == Filled(c.schema, c.others, c.field, c.sample)
        b == c.others
        message(kind, schema, value) == [kind |-> kind, schema |-> schema, value |-> value]
    IN  CASE c.kind = "object" -> message("object", c.schema, IF c.schema = 17 THEN << >> ELSE v)
          [] c.kind = "peers" -> message("peers", 1, <<Rest(1, b), v>>)
          [] c.kind = "block" /\ c.schema = 5 ->
                message("block", 5, BlockOf(v, IF b = 1 THEN <<Trs(7, 1), Trs(7, 2)>> ELSE << >>))
          [] c.kind = "block" /\ c.schema = 7 ->
                message("block", 5, BlockOf(Rest(5, b), <<Signed(v, 13, Rest(13, b)), Trs(7, b)>>))
          [] c.kind = "blocks" ->
                message("blocks", 5, <<BlockOf(Rest(5, b), << >>), BlockOf(v, <<Trs(7, b)>>)>>)
          [] c.kind = "transaction" /\ c.schema = 6 ->
                message("transaction", 6, Signed(v, 9, Rest(9, b)))
          [] c.kind = "transaction" /\ c.schema \in 8..13 ->
                message("transaction", 6, Signed(Rest(6, b), c.schema, v))
          [] c.kind = "transaction" /\ c.schema = 14 ->
                message("transaction", 6, Signed(Rest(6, b), 12, [Rest(12, b) EXCEPT !.airdropReward = v]))

Samples(kind, schemas) ==
    UNION {{[kind |-> kind, schema |-> s, others |-> b, field |-> f, sample |-> j] :
            b \in 1..2, f \in DOMAIN Schemas[s], j \in 1..4} : s \in schemas}

MCCode == <<1, 2, 12>>
MCRequestId == <<3>>

Empty == [kind |-> "object", schema |-> 17, others |-> 1, field |-> 0, sample |-> 1]

MCBroadcasts == Samples("object", {2}) \cup Samples("block", {5, 7})
                    \cup Samples("transaction", {6, 8, 9, 10, 11, 12, 13, 14})
MCCalls == Samples("object", {2, 4, 15, 16}) \cup Samples("peers", {1}) \cup Samples("blocks", {5})
               \cup {Empty}
MCHeaders == Samples("object", {3})
=============================================================================
