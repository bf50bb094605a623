--------------------------------- MODULE Codec ---------------------------------
(***************************************************************************)
(* The bytes of AMQP: what serializer.js and connection.js write, and what *)
(* parser.js reads.                                                        *)
(*                                                                         *)
(* A buffer is the sequence of its octets, of ByteBits bits each (8 in the *)
(* code; a smaller number keeps the integers of a long long within TLC's). *)
(* JavaScript's bitwise operators work on words of 4 octets: that is what  *)
(* the code gets wrong, and what the model keeps. A string is the sequence *)
(* of its octets, a table a sequence of <<key, value>>; nested tables,     *)
(* arrays and dates in a table are left out, and a double is its image     *)
(* (jspack).                                                               *)
(***************************************************************************)
EXTENDS Integers, Sequences, SequencesExt, SeqFilter

CONSTANTS ByteBits,   \* bits of an octet
          FrameEnd    \* Indicators.FRAME_END

\* The powers of 2, as a function: of 2 ^ n the provers know nothing.
Pow2[n \in Nat] == IF n = 0 THEN 1 ELSE 2 * Pow2[n - 1]

Base     == Pow2[ByteBits]
Octet    == 0 .. Base - 1
WordBits == 4 * ByteBits

\* What an octet weighs at its place in an integer, by the protocol.
Weight(place) == Pow2[ByteBits * place]

\* The flags of the five properties fit into a short.
ASSUME CodecAssumption == /\ ByteBits \in Nat /\ ByteBits >= 3
                          /\ FrameEnd \in Octet

Drop(b, n) == SubSeq(b, n + 1, Len(b))
Take(b, n) == IF n < Len(b) THEN SubSeq(b, 1, n) ELSE b

-------------------------------------------------------------------------------
(* Integers.                                                               *)

\* What a bitwise operator makes of a number: ToInt32.
ToWord(n) ==
  LET m == n % Pow2[WordBits]
  IN  IF m < Pow2[WordBits - 1] THEN m ELSE m - Pow2[WordBits]

\* n << k: the count too is taken modulo the word.
ShiftLeft(n, k) == ToWord(n * Pow2[k % WordBits])

\* Slip: only shorts.
SerializeIntShort(size, n) ==
  [i \in 1 .. size |-> IF size - i >= 2 THEN 0
                       ELSE (n \div Weight(size - i)) % Base]

\* The masks above the low word are 0 as 32-bit integers.
SerializeInt(size, n) ==
  [i \in 1 .. size |-> IF size - i >= 4 THEN 0
                       ELSE (n \div Weight(size - i)) % Base]

\* An octet at its place in an integer: the parser of the client shifts it, the
\* server weighs it.
AtPlace(reader, octet, place) ==
  IF reader = "client" THEN ShiftLeft(octet, ByteBits * place) ELSE octet * Weight(place)

Number(reader, b) ==
  LET sum[i \in 0 .. Len(b)] ==
        IF i = 0 THEN 0 ELSE sum[i - 1] + AtPlace(reader, b[i], Len(b) - i)
  IN  sum[Len(b)]

ParseInt(b) == Number("client", b)

-------------------------------------------------------------------------------
(* Strings and tables.                                                     *)

SerializeShortString(s) == SerializeInt(1, Len(s)) \o s
SerializeLongString(s)  == SerializeInt(4, Len(s)) \o s

\* What can be written: a short string, a value of a table, a table.
Text  == {s \in Seq(Octet) : Len(s) < Base}
Value == [type : {"string", "bytes"}, v : Seq(Octet)] \cup [type : {"int"}, v : Nat]
         \cup [type : {"double"}, v : {s \in Seq(Octet) : Len(s) = 8}]
         \cup [type : {"bool"}, v : BOOLEAN]
Table == Seq(Text \X Value)

TypeCode == [string |-> 1, int |-> 2, double |-> 3, bool |-> 4, bytes |-> 5]

SerializeValue(value) ==
  <<TypeCode[value.type]>> \o
    CASE value.type \in {"string", "bytes"} -> SerializeLongString(value.v)
      [] value.type = "int"    -> SerializeInt(4, value.v)
      [] value.type = "double" -> value.v
      [] value.type = "bool"   -> SerializeInt(1, IF value.v THEN 1 ELSE 0)

Entry(e) == SerializeShortString(e[1]) \o SerializeValue(e[2])

Entries(table) == [i \in 1 .. Len(table) |-> Entry(table[i])]

SerializeTable(table) == SerializeLongString(FlattenSeq(Entries(table)))

\* What was read, and the octets left.
Read(value, b, n) == [value |-> value, rest |-> Drop(b, n)]

ReadInt(reader, size, b) == Read(Number(reader, Take(b, size)), b, size)

ReadString(reader, size, b) ==
  LET length == Number(reader, Take(b, size))
  IN  Read(Take(Drop(b, size), length), b, size + length)

ReadValue(reader, b) ==
  LET type == CHOOSE t \in DOMAIN TypeCode : TypeCode[t] = b[1]
      r == CASE type \in {"string", "bytes"} -> ReadString(reader, 4, Tail(b))
             [] type = "int"    -> ReadInt(reader, 4, Tail(b))
             [] type = "double" -> Read(Take(Tail(b), 8), b, 9)
             [] type = "bool"   -> Read(b[2] > 0, b, 2)
  IN  [r EXCEPT !.value = [type |-> type, v |-> @]]

\* Entries are read up to the end of the table, of which there are no more than
\* octets.
ReadTable(reader, b) ==
  LET end == Len(b) - 4 - Number(reader, Take(b, 4))
      entries[i \in 0 .. Len(b)] ==
        IF i = 0 THEN Read(<<>>, b, 4)
        ELSE LET before == entries[i - 1]
                 key    == ReadString(reader, 1, before.rest)
                 value  == ReadValue(reader, key.rest)
             IN  IF Len(before.rest) <= end THEN before
                 ELSE [value |-> Append(before.value, <<key.value, value.value>>),
                       rest  |-> value.rest]
  IN  entries[Len(b)]

-------------------------------------------------------------------------------
(* Fields: sequences of [name, domain], and their arguments by name.       *)

F(name, domain) == [name |-> name, domain |-> domain]

\* The last of a run of bits, where the octet they share ends.
LastBit(fields, i) == i = Len(fields) \/ fields[i + 1].domain # "bit"

SerializeField(domain, param) ==
  CASE domain = "octet"     -> SerializeInt(1, param)
    [] domain = "short"     -> SerializeInt(2, param)
    [] domain = "long"      -> SerializeInt(4, param)
    [] domain = "timestamp" -> SerializeInt(8, param)
    [] domain = "longlong"  -> param
    [] domain = "shortstr"  -> SerializeShortString(param)
    [] domain = "longstr"   -> SerializeLongString(param)
    [] domain = "table"     -> SerializeTable(param)

\* A field that has no argument is skipped (strict calls give them all).
SerializeFields(fields, args) ==
  LET Write(acc, i) ==
        LET f    == fields[i]
            bits == acc.bits + IF args[f.name] THEN Pow2[acc.index] ELSE 0
        IN  CASE f.name \notin DOMAIN args -> acc
              [] f.name \in DOMAIN args /\ f.domain # "bit" ->
                   [acc EXCEPT !.bytes = @ \o SerializeField(f.domain, args[f.name])]
              [] f.name \in DOMAIN args /\ f.domain = "bit" /\ ~LastBit(fields, i) ->
                   [acc EXCEPT !.bits = bits, !.index = @ + 1]
              [] OTHER -> [bytes |-> Append(acc.bytes, bits), bits |-> 0, index |-> 0]
      written[i \in 0 .. Len(fields)] ==
        IF i = 0 THEN [bytes |-> <<>>, bits |-> 0, index |-> 0]
        ELSE Write(written[i - 1], i)
  IN  written[Len(fields)].bytes

ReadField(reader, domain, b) ==
  CASE domain = "octet"     -> ReadInt(reader, 1, b)
    [] domain = "short"     -> ReadInt(reader, 2, b)
    [] domain = "long"      -> ReadInt(reader, 4, b)
    [] domain = "timestamp" -> ReadInt(reader, 8, b)
    [] domain = "longlong"  -> Read(Take(b, 8), b, 8)
    [] domain = "shortstr"  -> ReadString(reader, 1, b)
    [] domain = "longstr"   -> ReadString(reader, 4, b)
    [] domain = "table"     -> ReadTable(reader, b)

\* The arguments and one more.
With(name, value, args) ==
  [n \in {name} \cup DOMAIN args |-> IF n = name THEN value ELSE args[n]]

ReadFields(reader, fields, b) ==
  LET Parse(acc, i) ==
        LET f == fields[i]
            r == IF f.domain = "bit"
                 THEN Read((acc.rest[1] \div Pow2[acc.index]) % 2 = 1,
                           acc.rest, IF LastBit(fields, i) THEN 1 ELSE 0)
                 ELSE ReadField(reader, f.domain, acc.rest)
        IN  [args  |-> With(f.name, r.value, acc.args), rest |-> r.rest,
             index |-> IF f.domain = "bit" /\ ~LastBit(fields, i) THEN acc.index + 1 ELSE 0]
      parsed[i \in 0 .. Len(fields)] ==
        IF i = 0 THEN [args |-> <<>>, rest |-> b, index |-> 0]
        ELSE Parse(parsed[i - 1], i)
  IN  parsed[Len(fields)]

-------------------------------------------------------------------------------
(* Frames.                                                                 *)

METHOD == 1
HEADER == 2
BODY   == 3

HeaderSize == 7

Frame(type, channel, payload) ==
  <<type>> \o SerializeInt(2, channel) \o SerializeInt(4, Len(payload))
    \o payload \o <<FrameEnd>>

\* One property of each domain the class has, in the order it has them.
BasicFields == <<F("contentType", "shortstr"), F("headers", "table"),
                 F("priority", "octet"), F("messageId", "shortstr"),
                 F("timestamp", "timestamp")>>

PublishFields == <<F("reserved1", "short"), F("exchange", "shortstr"),
                   F("routingKey", "shortstr"), F("mandatory", "bit"),
                   F("immediate", "bit")>>

DeliverFields == <<F("consumerTag", "shortstr"), F("deliveryTag", "longlong"),
                   F("redelivered", "bit"), F("exchange", "shortstr"),
                   F("routingKey", "shortstr")>>

MethodPayload(class, index, fields, args) ==
  SerializeInt(2, class) \o SerializeInt(2, index) \o SerializeFields(fields, args)

\* The values JavaScript takes for true: not 0 nor the empty string.
Truthy(f, value) ==
  CASE f.domain \in {"octet", "timestamp"} -> value # 0
    [] f.domain = "shortstr" -> value # <<>>
    [] OTHER -> TRUE

\* The flag of the i-th property: 1 << (15 - i), counted from 0.
Flag(i) == Pow2[2 * ByteBits - i]

FlagsOf(properties) ==
  LET flags[i \in 0 .. Len(BasicFields)] ==
        IF i = 0 THEN 0
        ELSE LET f == BasicFields[i]
             IN  flags[i - 1] + IF f.name \in DOMAIN properties
                                   /\ Truthy(f, properties[f.name]) THEN Flag(i) ELSE 0
  IN  flags[Len(BasicFields)]

HeaderPayload(size, properties) ==
  SerializeInt(2, 60) \o SerializeInt(2, 0) \o SerializeInt(8, size)
    \o SerializeInt(2, FlagsOf(properties)) \o SerializeFields(BasicFields, properties)

\* The type of the content has a default: application/octet-stream.
WithDefaults(given) ==
  IF "contentType" \in DOMAIN given THEN given ELSE With("contentType", <<1>>, given)

SendHeader(channel, size, given) ==
  Frame(HEADER, channel, HeaderPayload(size, WithDefaults(given)))

\* Slip: the last, shorter frame is forgotten.
SendBodyWholeFrames(channel, body, maxFrameBuffer) ==
  LET max == maxFrameBuffer - 8
  IN  [i \in 1 .. Len(body) \div max |->
        Frame(BODY, channel, Take(Drop(body, (i - 1) * max), max))]

\* The body, cut into frames that fit the negotiated size.
SendBody(channel, body, maxFrameBuffer) ==
  LET max == maxFrameBuffer - 8
  IN  [i \in 1 .. (Len(body) + max - 1) \div max |->
        Frame(BODY, channel, Take(Drop(body, (i - 1) * max), max))]

ReadMethod(reader, fields, payload) ==
  ReadFields(reader, fields, Drop(payload, 4)).args

\* The size of the body.
ReadSize(reader, payload) == Number(reader, Take(Drop(payload, 4), 8))

\* The properties the flags announce, and what is left.
ReadHeader(reader, payload) ==
  LET flags == Number(reader, Take(Drop(payload, 12), 2))
      announced == {BasicFields[i] : i \in {j \in DOMAIN BasicFields :
                                               (flags \div Flag(j)) % 2 = 1}}
  IN  ReadFields(reader, Filter(BasicFields, announced), Drop(payload, 14))

-------------------------------------------------------------------------------
(* What a reader reads as it was written.                                  *)

\* The largest number it reads so, and one more: ToInt32 has a sign.
Limit(reader) == IF reader = "client" THEN Pow2[WordBits - 1] ELSE Pow2[WordBits]

ValueFits(reader, value) ==
  /\ value \in Value
  /\ value.type \in {"string", "bytes"} => Len(value.v) < Limit(reader)
  /\ value.type = "int" => value.v < Limit(reader)

TableFits(reader, table) ==
  /\ table \in Table
  /\ \A i \in 1 .. Len(table) : ValueFits(reader, table[i][2])
  /\ Len(FlattenSeq(Entries(table))) < Limit(reader)

FieldFits(reader, domain, v) ==
  /\ domain = "octet" => v \in Nat /\ v < Base
  /\ domain = "short" => v \in Nat /\ v < Weight(2)
  /\ domain \in {"long", "timestamp"} => v \in Nat /\ v < Limit(reader)
  /\ domain = "longlong" => v \in Seq(Octet) /\ Len(v) = 8
  /\ domain = "shortstr" => v \in Text
  /\ domain = "longstr" => v \in Seq(Octet) /\ Len(v) < Limit(reader)
  /\ domain = "table" => TableFits(reader, v)

\* The properties none of which is lost on the way: none is 0 nor the empty
\* string, and none is more than the reader's arithmetic can tell.
Survives(reader, properties) ==
  \A i \in 1 .. Len(BasicFields) : BasicFields[i].name \in DOMAIN properties =>
    /\ Truthy(BasicFields[i], properties[BasicFields[i].name])
    /\ FieldFits(reader, BasicFields[i].domain, properties[BasicFields[i].name])
===============================================================================
