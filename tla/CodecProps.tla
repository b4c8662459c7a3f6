----------------------------- MODULE CodecProps -----------------------------
(* What a message owes those who send and who read it.                     *)
EXTENDS Codec

Keys(schema) == {Schemas[schema][i][1] : i \in DOMAIN Schemas[schema]}
FieldType(schema, k) ==
    Schemas[schema][CHOOSE i \in DOMAIN Schemas[schema] : Schemas[schema][i][1] = k][2]

RECURSIVE Fits(_, _), Plain(_, _)

\* Whether every text and every number of value v is within what type t holds,
\* 64-bit numbers aside, of which write does not notice when they are not; the
\* buffers among the fields are looked at apart.
Fits(t, v) ==
    CASE t.type = "Uint" -> v = Null \/ v < Base ^ t.size
      [] t.type = "Utf8" -> Len(FromText(Text(v))) < Base ^ 2
      [] t.type = "Array" -> \A i \in DOMAIN v : Fits(t.of, v[i])
      [] t.type = "Map" -> \A i \in DOMAIN v : Fits(t.of[1], v[i][1]) /\ Fits(t.of[2], v[i][2])
      [] t.type = "Object" -> LET s == Schemas[t.schema]
                              IN  \A i \in DOMAIN s : Fits(s[i][2], v[s[i][1]])
      [] OTHER -> TRUE

\* The value itself, with what the program takes undefined for, and for a
\* 64-bit number that is too large.
Plain(t, v) ==
    CASE t.type = "Uint" -> IF v = Null THEN 0 ELSE v
      [] t.type = "64" -> IF v = Null THEN <<0, 0>> ELSE Leading64(v)
      [] t.type = "Utf8" -> Text(v)
      [] t.type = "Array" -> [i \in DOMAIN v |-> Plain(t.of, v[i])]
      [] t.type = "Map" -> [i \in DOMAIN v |-> <<Plain(t.of[1], v[i][1]), Plain(t.of[2], v[i][2])>>]
      [] t.type = "Object" -> [k \in Keys(t.schema) |-> Plain(FieldType(t.schema, k), v[k])]
      [] OTHER -> v

AssetType(trs) == BufferObject(AssetSchema(trs.type))

TransactionFits(schema, trs) == Fits(BufferObject(schema), trs) /\ Fits(AssetType(trs), trs.asset)
PlainTransaction(schema, trs) ==
    Plain(BufferObject(schema), [trs EXCEPT !.asset = Plain(AssetType(trs), @)])

BlockFits(block) ==
    /\ Fits(BufferObject(5), block)
    /\ \A i \in DOMAIN block.transactions : TransactionFits(7, block.transactions[i])
PlainBlock(block) ==
    Plain(BufferObject(5),
          [block EXCEPT !.transactions = [i \in DOMAIN @ |-> PlainTransaction(7, @[i])]])

MessageFits(m) ==
    CASE m.kind = "object" -> Fits(BufferObject(m.schema), m.value)
      [] m.kind = "peers" -> \A i \in DOMAIN m.value : Fits(BufferObject(m.schema), m.value[i])
      [] m.kind = "block" -> BlockFits(m.value)
      [] m.kind = "blocks" -> \A i \in DOMAIN m.value : BlockFits(m.value[i])
      [] m.kind = "transaction" -> TransactionFits(m.schema, m.value)

PlainMessage(m) ==
    CASE m.kind = "object" -> Plain(BufferObject(m.schema), m.value)
      [] m.kind = "peers" -> [i \in DOMAIN m.value |-> Plain(BufferObject(m.schema), m.value[i])]
      [] m.kind = "block" -> PlainBlock(m.value)
      [] m.kind = "blocks" -> [i \in DOMAIN m.value |-> PlainBlock(m.value[i])]
      [] m.kind = "transaction" -> PlainTransaction(m.schema, m.value)

OverChannel(value) ==
    CASE channel = "BROADCAST" -> [code |-> Code, data |-> value]
      [] channel = "RPC" -> [code |-> Code, data |-> value, requestId |-> RequestId]
      [] channel = "HEADERS" -> value

-----------------------------------------------------------------------------
\* A message with a text or a number of up to 32 bits too large for its field
\* is not sent at all; any other arrives with the value of every field, through
\* the buffers nested in buffers, however often it is relayed and whatever was
\* read before: no field is cut, shifted or taken for another.  Only a 64-bit
\* number that is too large arrives as another number, and even then the other
\* fields are as they were sent (number64.ts, uint64.ts).
NothingGarbled ==
    phase = "received" =>
        got.value = IF MessageFits(sent) THEN OverChannel(PlainMessage(sent)) ELSE Null

\* What getLength allots, write fills and read consumes to the last byte: the
\* three follow the same layout, containers in containers included.
ReadsToTheEnd == phase = "received" /\ bytes # Null => got.end = Len(bytes)
=============================================================================
