------------------------------- MODULE Codec -------------------------------
(***************************************************************************)
(* The messages between nodes as bytes (shared/util/byteSerializer).       *)
(* Every value is written behind a byte that tells its type; containers    *)
(* carry the length of their body, objects the number of their schema and  *)
(* their fields in the order of their names.  The schemas are shared by    *)
(* everything a node writes and reads, and reading an array or a map       *)
(* replaces the type of the elements in the schema it was read by.         *)
(*                                                                         *)
(* A byte has Base values (256), so that a few suffice; text is a sequence *)
(* of characters of which those from Ascii (128) on take two bytes; a      *)
(* 64-bit number is the pair of its 32-bit halves; Null is undefined.      *)
(* An operator that throws yields Null, or `threw` when reading.           *)
(***************************************************************************)
EXTENDS Integers, Sequences, FiniteSets, TLC, SequencesExt

CONSTANTS Null,
          Base,            \* values of a byte
          Ascii,           \* characters of one byte
          MaxRelay,        \* MAX_BLOCK_RELAY, MAX_TRS_RELAY
          Code, RequestId, \* the text of an action type and of a uuid
          Broadcasts, Calls, Headers, \* what is sent over each channel,
          Data(_)          \* and its content: [kind, schema, value]

ASSUME BaseAssumption ==
    /\ Base \in Nat /\ Ascii \in Nat
    /\ Base > 17 /\ Base = 2 * Ascii \* the numbers of types and schemas fit

VARIABLES
    phase,    \* "idle", "sent" or "received"
    channel,  \* BROADCAST, RPC or HEADERS
    sent,     \* what was sent: [kind, schema, value]
    bytes,    \* the buffer given to emit
    got,      \* what the receiver makes of it: [value, end]
    elements  \* typeElement of the arrays and maps in the schemas

vars == <<phase, channel, sent, bytes, got, elements>>

-----------------------------------------------------------------------------
(* Types, each with its number.                                            *)

Uint8 == [type |-> "Uint", id |-> 1, size |-> 1]
Uint16 == [type |-> "Uint", id |-> 3, size |-> 2]
Uint32 == [type |-> "Uint", id |-> 5, size |-> 4]
Uint64 == [type |-> "64", id |-> 6]
Utf8 == [type |-> "Utf8", id |-> 8]
Bool == [type |-> "Bool", id |-> 13]
Number64 == [type |-> "64", id |-> 14]
DynamicBuffer == [type |-> "Buffer"]
\* `at` names the array or map of a schema, "new" is any other one.
BufferArray(of, at) == [type |-> "Array", id |-> 9, of |-> of, at |-> at]
BufferMap(key, val, at) == [type |-> "Map", id |-> 12, of |-> <<key, val>>, at |-> at]
BufferObject(schema) == [type |-> "Object", id |-> 10, schema |-> schema]

\* mapPrimitiveCode: what new makes of the type with that number.
MapPrimitiveCode ==
    (1 :> Uint8) @@ (3 :> Uint16) @@ (5 :> Uint32) @@ (6 :> Uint64) @@ (8 :> Utf8)
        @@ (9 :> BufferArray(Null, "new")) @@ (10 :> BufferObject(Null))
        @@ (12 :> BufferMap(Null, Null, "new")) @@ (13 :> Bool) @@ (14 :> Number64)

\* The schemas by SchemaName, their fields as Object.keys(schema).sort() has them.
Schemas ==
    (0 :> << <<"code", Utf8>>, <<"data", DynamicBuffer>> >>)
    @@ (1 :> << <<"ip", Utf8>>, <<"peerCount", Uint16>>, <<"port", Uint16>> >>)
    @@ (2 :> << <<"broadhash", Utf8>>, <<"height", Uint32>>, <<"peerCount", Uint16>> >>)
    @@ (3 :> << <<"blocksIds", BufferMap(Uint32, Utf8, "blocksIds")>>, <<"broadhash", Utf8>>,
                <<"height", Uint32>>, <<"minVersion", Utf8>>, <<"os", Utf8>>,
                <<"peerCount", Uint16>>, <<"version", Utf8>> >>)
    @@ (4 :> << <<"height", Uint32>>, <<"id", Utf8>> >>)
    @@ (5 :> << <<"amount", Number64>>, <<"createdAt", Uint32>>, <<"fee", Number64>>,
                <<"generatorPublicKey", Utf8>>, <<"height", Uint32>>, <<"id", Utf8>>,
                <<"payloadHash", Utf8>>, <<"previousBlockId", Utf8>>, <<"relay", Uint8>>,
                <<"signature", Utf8>>, <<"transactionCount", Uint16>>,
                <<"transactions", DynamicBuffer>>, <<"version", Uint8>> >>)
    @@ (6 :> << <<"asset", DynamicBuffer>>, <<"confirmations", Uint32>>, <<"createdAt", Uint32>>,
                <<"fee", Number64>>, <<"id", Utf8>>, <<"relay", Uint8>>, <<"salt", Utf8>>,
                <<"secondSignature", Utf8>>, <<"senderAddress", Uint64>>,
                <<"senderPublicKey", Utf8>>, <<"signature", Utf8>>, <<"type", Uint8>> >>)
    @@ (7 :> << <<"asset", DynamicBuffer>>, <<"blockId", Utf8>>, <<"confirmations", Uint32>>,
                <<"createdAt", Uint32>>, <<"fee", Number64>>, <<"id", Utf8>>, <<"salt", Utf8>>,
                <<"secondSignature", Utf8>>, <<"senderAddress", Uint64>>,
                <<"senderPublicKey", Utf8>>, <<"signature", Utf8>>, <<"type", Uint8>> >>)
    @@ (8 :> << <<"referral", Uint64>> >>)
    @@ (9 :> << <<"amount", Number64>>, <<"recipientAddress", Uint64>> >>)
    @@ (10 :> << <<"publicKey", Utf8>> >>)
    @@ (11 :> << <<"username", Utf8>> >>)
    @@ (12 :> << <<"airdropReward", BufferObject(14)>>, <<"amount", Number64>>,
                 <<"startTime", Uint32>>, <<"startVoteCount", Uint8>> >>)
    @@ (13 :> << <<"airdropReward", BufferObject(14)>>, <<"reward", Number64>>,
                 <<"unstake", Number64>>, <<"votes", BufferArray(Utf8, "votes")>> >>)
    @@ (14 :> << <<"sponsors", BufferMap(Uint64, Number64, "sponsors")>> >>)
    @@ (15 :> << <<"isExist", Bool>> >>)
    @@ (16 :> << <<"height", Uint32>>, <<"limit", Uint8>> >>)
    @@ (17 :> << >>)

Declared ==
    [votes |-> Utf8, sponsors |-> <<Uint64, Number64>>, blocksIds |-> <<Uint32, Utf8>>]

\* this.typeElement of an array or a map.
TypeElement(t, e) == IF t.at \in DOMAIN e THEN e[t.at] ELSE t.of

-----------------------------------------------------------------------------
(* Buffer of Node.                                                         *)

Digits(n, size) == [i \in 1..size |-> (n \div Base ^ (size - i)) % Base]

\* writeUIntBE: undefined becomes 0, a number out of range throws.
WriteUIntBE(v, size) ==
    CASE v = Null -> Digits(0, size)
      [] v # Null /\ v < Base ^ size -> Digits(v, size)
      [] OTHER -> Null

ReadUIntBE(b, o, size) == FoldLeft(LAMBDA n, d: n * Base + d, 0, SubSeq(b, o + 1, o + size))

Text(v) == IF v = Null THEN << >> ELSE v

\* The bytes of a text: its characters when all are of one byte.
FromText(v) ==
    IF \A i \in DOMAIN v : v[i] < Ascii THEN v
    ELSE FlattenSeq([i \in 1..Len(v) |-> IF v[i] < Ascii THEN <<v[i]>>
                                         ELSE <<Ascii + v[i] \div Ascii, Ascii + (v[i] % Ascii)>>])

RECURSIVE ToText(_)
ToText(b) ==
    CASE b = << >> -> << >>
      [] b # << >> /\ Head(b) < Ascii -> <<Head(b)>> \o ToText(Tail(b))
      [] OTHER -> IF Len(b) = 1 THEN <<Null>>
                  ELSE <<(b[1] - Ascii) * Ascii + b[2] - Ascii>> \o ToText(SubSeq(b, 3, Len(b)))

\* Everything thrown while parts are written ends the whole.
Concat(parts) == IF \E i \in DOMAIN parts : parts[i] = Null THEN Null ELSE FlattenSeq(parts)

Total(numbers) == FoldLeft(LAMBDA x, y: x + y, 0, numbers)

-----------------------------------------------------------------------------
(* getLength: how many bytes create allots.                                *)

RECURSIVE LengthOf(_, _, _)

LengthUtf8(v) == 1 + 2 + Len(FromText(Text(v)))

LengthItems(t, v, e) == Total([i \in 1..Len(v) |-> LengthOf(t, v[i], e)])

LengthArray(t, v, e) == 1 + 1 + 4 + LengthItems(TypeElement(t, e), v, e)

\* The pairs of a map: MapObject.
LengthPairs(types, v, e) ==
    Total([i \in 1..Len(v) |-> LengthOf(types[1], v[i][1], e) + LengthOf(types[2], v[i][2], e)])

\* Mutant: SimpleArray reserves a type byte too.
LengthMap_SimpleArrayTyped(t, v, e) == 1 + 1 + 1 + 1 + 4 + LengthPairs(TypeElement(t, e), v, e)

LengthMap(t, v, e) == 1 + 1 + 1 + 4 + LengthPairs(TypeElement(t, e), v, e)

LengthObject(t, v, e) ==
    LET s == Schemas[t.schema]
    IN  1 + 1 + Total([i \in 1..Len(s) |-> LengthOf(s[i][2], v[s[i][1]], e)])

LengthOf(t, v, e) ==
    CASE t.type = "Uint" -> 1 + t.size
      [] t.type = "64" -> 1 + 8
      [] t.type = "Bool" -> 1 + 1
      [] t.type = "Utf8" -> LengthUtf8(v)
      [] t.type = "Buffer" -> Len(v)
      [] t.type = "Array" -> LengthArray(t, v, e)
      [] t.type = "Map" -> LengthMap(t, v, e)
      [] t.type = "Object" -> LengthObject(t, v, e)

-----------------------------------------------------------------------------
(* write.                                                                  *)

RECURSIVE Write(_, _, _)

WriteTypeId(id) == Digits(id, 1)

\* A number of more than 64 binary digits is cut behind the 64th: its lowest
\* digits are lost, and nothing throws.
Leading64(n) ==
    IF n[1] < Base ^ 4 THEN n
    ELSE LET k == CHOOSE k \in 1..n[1] :
                      n[1] \div 2 ^ k < Base ^ 4 /\ Base ^ 4 <= n[1] \div 2 ^ (k - 1)
         IN  <<n[1] \div 2 ^ k, ((n[1] % 2 ^ k) * Base ^ 4 + n[2]) \div 2 ^ k>>

Write64(t, v) ==
    LET n == IF v = Null THEN <<0, 0>> ELSE Leading64(v)
    IN  Concat(<<WriteTypeId(t.id), WriteUIntBE(n[1], 4), WriteUIntBE(n[2], 4)>>)

WriteBool(t, v) == Concat(<<WriteTypeId(t.id), WriteUIntBE(IF v THEN 1 ELSE 0, 1)>>)

\* Mutant: the length of the string instead of Buffer.byteLength.
WriteUtf8_Characters(t, v) ==
    Concat(<<WriteTypeId(t.id), WriteUIntBE(Len(Text(v)), 2), FromText(Text(v))>>)

WriteUtf8(t, v) ==
    LET body == FromText(Text(v))
    IN  Concat(<<WriteTypeId(t.id), WriteUIntBE(Len(body), 2), body>>)

WriteArray(t, v, e) ==
    LET of == TypeElement(t, e)
    IN  IF v = Null THEN Null
        ELSE Concat(<<WriteTypeId(t.id), WriteTypeId(of.id), WriteUIntBE(LengthItems(of, v, e), 4)>>
                    \o [i \in 1..Len(v) |-> Write(of, v[i], e)])

\* SimpleArray.
WritePairs(types, v, e) ==
    Concat(<<WriteUIntBE(LengthPairs(types, v, e), 4)>>
           \o [i \in 1..Len(v) |-> Concat(<<Write(types[1], v[i][1], e), Write(types[2], v[i][2], e)>>)])

WriteMap(t, v, e) ==
    IF v = Null THEN Null
    ELSE Concat(<<WriteTypeId(t.id), WriteTypeId(t.of[1].id), WriteTypeId(t.of[2].id),
                  WritePairs(TypeElement(t, e), v, e)>>)

WriteObject(t, v, e) ==
    LET s == Schemas[t.schema]
    IN  IF v = Null THEN Null
        ELSE Concat(<<WriteTypeId(t.id), WriteTypeId(t.schema)>>
                    \o [i \in 1..Len(s) |-> Write(s[i][2], v[s[i][1]], e)])

Write(t, v, e) ==
    CASE t.type = "Uint" -> Concat(<<WriteTypeId(t.id), WriteUIntBE(v, t.size)>>)
      [] t.type = "64" -> Write64(t, v)
      [] t.type = "Bool" -> WriteBool(t, v)
      [] t.type = "Utf8" -> WriteUtf8(t, v)
      [] t.type = "Buffer" -> v
      [] t.type = "Array" -> WriteArray(t, v, e)
      [] t.type = "Map" -> WriteMap(t, v, e)
      [] t.type = "Object" -> WriteObject(t, v, e)

\* What does not fit throws, what is left over stays 0; an error is logged.
Create(t, v, e) ==
    LET w == Write(t, v, e)
    IN  IF w = Null THEN Null
        ELSE LET length == LengthOf(t, v, e)
             IN  IF Len(w) > length THEN Null ELSE w \o [i \in 1..length - Len(w) |-> 0]

CreateBufferObject(v, schema, e) == Create(BufferObject(schema), v, e)
CreateBufferArray(v, schema, e) == Create(BufferArray(BufferObject(schema), "new"), v, e)
CreateBufferUtf8(v) == Create(Utf8, v, Declared)

-----------------------------------------------------------------------------
(* read, from offset o.                                                    *)

Result(value, o, e) == [value |-> value, offset |-> o, elements |-> e, threw |-> FALSE]
Threw(e) == [value |-> Null, offset |-> 0, elements |-> e, threw |-> TRUE]

RECURSIVE Read(_, _, _, _)

ReadUint(t, b, o, e) ==
    IF o + 1 + t.size > Len(b) THEN Threw(e)
    ELSE Result(ReadUIntBE(b, o + 1, t.size), o + 1 + t.size, e)

Read64(b, o, e) ==
    IF o + 9 > Len(b) THEN Threw(e)
    ELSE Result(<<ReadUIntBE(b, o + 1, 4), ReadUIntBE(b, o + 5, 4)>>, o + 9, e)

ReadBool(b, o, e) == IF o + 2 > Len(b) THEN Threw(e) ELSE Result(b[o + 2] # 0, o + 2, e)

\* toString ends where the buffer does, without an error.
ReadUtf8(b, o, e) ==
    IF o + 3 > Len(b) THEN Threw(e)
    ELSE LET size == ReadUIntBE(b, o + 1, 2)
             end == IF o + 3 + size > Len(b) THEN Len(b) ELSE o + 3 + size
         IN  Result(ToText(SubSeq(b, o + 4, end)), o + 3 + size, e)

RECURSIVE ReadItems(_, _, _, _, _, _)
ReadItems(t, b, o, end, e, res) ==
    IF o >= end THEN Result(res, o, e)
    ELSE LET r == Read(t, b, o, e)
         IN  IF r.threw THEN r ELSE ReadItems(t, b, r.offset, end, r.elements, Append(res, r.value))

\* MapObject.read.
ReadPair(types, b, o, e) ==
    LET key == Read(types[1], b, o, e)
        val == Read(types[2], b, key.offset, key.elements)
    IN  CASE key.threw -> key
          [] ~key.threw /\ val.threw -> val
          [] OTHER -> Result(<<key.value, val.value>>, val.offset, val.elements)

RECURSIVE ReadPairs(_, _, _, _, _, _)
ReadPairs(types, b, o, end, e, res) ==
    IF o >= end THEN Result(res, o, e)
    ELSE LET r == ReadPair(types, b, o, e)
         IN  IF r.threw THEN r ELSE ReadPairs(types, b, r.offset, end, r.elements, Append(res, r.value))

\* The type of the elements found in the buffer stays in the schema.
Keep(t, of, e) == IF t.at \in DOMAIN e THEN [e EXCEPT ![t.at] = of] ELSE e

ReadArray(t, b, o, e) ==
    IF o + 6 > Len(b) \/ b[o + 2] \notin DOMAIN MapPrimitiveCode THEN Threw(e)
    ELSE LET of == MapPrimitiveCode[b[o + 2]]
         IN  ReadItems(of, b, o + 6, o + 6 + ReadUIntBE(b, o + 2, 4), Keep(t, of, e), << >>)

ReadMap(t, b, o, e) ==
    IF o + 3 > Len(b) \/ ~ {b[o + 2], b[o + 3]} \subseteq DOMAIN MapPrimitiveCode THEN Threw(e)
    ELSE LET types == <<MapPrimitiveCode[b[o + 2]], MapPrimitiveCode[b[o + 3]]>>
             kept == Keep(t, types, e)
         IN  IF o + 7 > Len(b) THEN Threw(kept)
             ELSE ReadPairs(types, b, o + 7, o + 7 + ReadUIntBE(b, o + 3, 4), kept, << >>)

\* Fields beyond the end of the buffer are left out.
ReadField(b, r, field) ==
    IF r.threw \/ r.offset >= Len(b) THEN r
    ELSE LET x == Read(field[2], b, r.offset, r.elements)
         IN  IF x.threw THEN x ELSE [x EXCEPT !.value = r.value @@ (field[1] :> x.value)]

ReadObject(b, o, e) ==
    IF o + 2 > Len(b) \/ b[o + 2] \notin DOMAIN Schemas THEN Threw(e)
    ELSE FoldLeft(LAMBDA r, field: ReadField(b, r, field), Result(<< >>, o + 2, e), Schemas[b[o + 2]])

ReadBuffer(b, o, e) ==
    IF o >= Len(b) \/ b[o + 1] \notin DOMAIN MapPrimitiveCode THEN Threw(e)
    ELSE Read(MapPrimitiveCode[b[o + 1]], b, o, e)

Read(t, b, o, e) ==
    CASE t.type = "Uint" -> ReadUint(t, b, o, e)
      [] t.type = "64" -> Read64(b, o, e)
      [] t.type = "Bool" -> ReadBool(b, o, e)
      [] t.type = "Utf8" -> ReadUtf8(b, o, e)
      [] t.type = "Buffer" -> ReadBuffer(b, o, e)
      [] t.type = "Array" -> ReadArray(t, b, o, e)
      [] t.type = "Map" -> ReadMap(t, b, o, e)
      [] t.type = "Object" -> ReadObject(b, o, e)

\* The error is caught and logged: undefined.
Deserialize(b, o, e) ==
    LET r == ReadBuffer(b, o, e) IN [value |-> r.value, end |-> r.offset, elements |-> r.elements]

-----------------------------------------------------------------------------
(* What the services make buffers of.                                      *)

\* The schema of the asset of a transaction by its type, in tens.
AssetSchema(type) ==
    CASE type = 0 -> 8 [] type = 1 -> 9 [] type = 2 -> 10 [] type = 3 -> 11
      [] type = 4 -> 12 [] type = 6 -> 13 [] OTHER -> 17

SerializeAssetTransaction(trs, e) ==
    [trs EXCEPT !.asset = CreateBufferObject(trs.asset, AssetSchema(trs.type), e)]

\* The fields of a block with its transactions as a buffer.
WithTransactions(block, e) ==
    [block EXCEPT !.transactions =
        CreateBufferArray([i \in 1..Len(@) |-> SerializeAssetTransaction(@[i], e)], 7, e)]

ByteSerialize(block, e) == CreateBufferObject(WithTransactions(block, e), 5, e)

\* sendBlocks.
ByteArrayBlock(blocks, e) ==
    CreateBufferArray([i \in 1..Len(blocks) |-> WithTransactions(blocks[i], e)], 5, e)

Serialize(m, e) ==
    CASE m.kind = "object" -> CreateBufferObject(m.value, m.schema, e)
      [] m.kind = "peers" -> CreateBufferArray(m.value, m.schema, e)
      [] m.kind = "block" -> ByteSerialize(m.value, e)
      [] m.kind = "blocks" -> ByteArrayBlock(m.value, e)
      [] m.kind = "transaction" ->
            CreateBufferObject(SerializeAssetTransaction(m.value, e), m.schema, e)

\* Request around the data, and behind the id of the request.
Request(data, e) ==
    IF data = Null THEN Null ELSE CreateBufferObject([code |-> Code, data |-> data], 0, e)

Pack(data, e) == Concat(<<CreateBufferUtf8(RequestId), Request(data, e)>>)

Unpack(b, e) ==
    LET head == ReadUtf8(b, 0, e)
        body == Deserialize(b, head.offset, e)
    IN  [body EXCEPT !.value = ("requestId" :> head.value) @@ IF @ = Null THEN << >> ELSE @]

-----------------------------------------------------------------------------
Nothing == [kind |-> "none"]
NotRead == [value |-> Null, end |-> 0]

Init ==
    /\ phase = "idle" /\ channel = "none" /\ sent = Nothing /\ bytes = Null /\ got = NotRead
    /\ elements = Declared

Emit(on, m, b) ==
    /\ phase' = "sent" /\ channel' = on /\ sent' = m /\ bytes' = b
    /\ got' = NotRead /\ UNCHANGED elements

Broadcast(c) ==
    /\ phase = "idle"
    /\ Emit("BROADCAST", Data(c), Request(Serialize(Data(c), elements), elements))

\* requestRPC and responseRPC.
Rpc(c) ==
    /\ phase = "idle"
    /\ Emit("RPC", Data(c), Pack(Serialize(Data(c), elements), elements))

SendFullHeaders(c) ==
    /\ phase = "idle"
    /\ Emit("HEADERS", Data(c), Serialize(Data(c), elements))

Receive(on, r) ==
    /\ phase = "sent" /\ channel = on
    /\ phase' = "received"
    /\ IF bytes = Null THEN UNCHANGED <<got, elements>> \* Buffer.isBuffer
       ELSE got' = [value |-> r.value, end |-> r.end] /\ elements' = r.elements
    /\ UNCHANGED <<channel, sent, bytes>>

OnBroadcast == Receive("BROADCAST", Deserialize(bytes, 0, elements))
OnRPC == Receive("RPC", Unpack(bytes, elements))
OnHeadersReceive == Receive("HEADERS", Deserialize(bytes, 0, elements))

\* A block or a transaction that was read goes on to other nodes.
Relay ==
    /\ phase = "received" /\ sent.kind \in {"block", "transaction"} /\ channel = "BROADCAST"
    /\ got.value # Null /\ got.value.data.relay < MaxRelay
    /\ LET m == [sent EXCEPT !.value = [got.value.data EXCEPT !.relay = @ + 1]]
       IN  Emit("BROADCAST", m, Request(Serialize(m, elements), elements))

\* The message is dealt with, the next one may come.
Handled ==
    /\ phase = "received"
    /\ phase' = "idle" /\ channel' = "none" /\ sent' = Nothing /\ bytes' = Null /\ got' = NotRead
    /\ UNCHANGED elements

Next ==
    \/ \E c \in Broadcasts : Broadcast(c)
    \/ \E c \in Calls : Rpc(c)
    \/ \E c \in Headers : SendFullHeaders(c)
    \/ OnBroadcast
    \/ OnRPC
    \/ OnHeadersReceive
    \/ Relay
    \/ Handled

Spec == Init /\ [][Next]_vars
=============================================================================
