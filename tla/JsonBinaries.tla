----------------------------- MODULE JsonBinaries -----------------------------
(***************************************************************************)
(* The binary formats of json.hpp on values at the limits of their types   *)
(* and lengths, and on short sequences of bytes.                           *)
(***************************************************************************)
EXTENDS JsonCbor, JsonMsgPack, JsonBson, JsonUbjson, JsonInputs

\* 2^k - 1 and 2^k.
AllOnes(k) ==
    [n \in 1 .. 8 |-> LET r == k - 8 * (8 - n)
                      IN  IF r >= 8 THEN 255 ELSE IF r <= 0 THEN 0 ELSE 2 ^ r - 1]
PowerOfTwo(k) == [n \in 1 .. 8 |-> IF k \div 8 = 8 - n THEN 2 ^ (k % 8) ELSE 0]

Limits == {0, 1, 5, 7, 8, 15, 16, 31, 32, 63}
Magnitudes == {AllOnes(k) : k \in Limits \cup {64}} \cup {PowerOfTwo(k) : k \in Limits}
              \cup {Size(23), Size(24), Size(33)}
Integer(b) == <<"integer", b>>
IntegerValues ==
    {UnsignedInteger(b) : b \in Magnitudes} \cup {Integer(b) : b \in {b \in Magnitudes : ~IsNegative(b)}}
    \cup {Integer(Complement(b)) : b \in {b \in Magnitudes : ~IsNegative(b)}}

\* Zero, one, one third, floats at either end of their range and just outside it, the
\* infinities and a NaN.
DoubleValues ==
    {Float(FromSingle(b)) : b \in {0, 128} \X {0, 63, 127, 128} \X {0, 255} \X {0, 1, 255}}
    \cup {Float(<<63, 213, 85, 85, 85, 85, 85, 85>>), Float(<<71, 239, 255, 255, 240, 0, 0, 0>>),
          Float(<<54, 144, 0, 0, 0, 0, 0, 0>>), Float(<<54, 160, 0, 0, 0, 0, 0, 0>>),
          Float(<<127, 248, 0, 0, 0, 0, 0, 1>>), Float(<<255, 240, 0, 0, 0, 0, 0, 0>>)}

\* bound: arrays and binary values, which some readers take apart, are shorter than strings.
ShortLengths == {0, 1, 2, 3, 4, 8, 15, 16, 17, 23, 24}
Lengths == ShortLengths \cup {31, 32, 127, 128, 255, 256}
Letters(n) == Fill(n, 97)
StringValues == {String(Letters(n)) : n \in Lengths}
BinaryValues ==
    {Binary(t, Letters(n)) : n \in ShortLengths, t \in {<<>>, Size(0), Size(42), Size(255)}}
    \cup {Binary(t, Letters(1)) : t \in {Size(256), AllOnes(16), PowerOfTwo(16), AllOnes(64)}}

\* What containers are filled with: values of one type and of several.
Fillings ==
    {Null, Boolean(TRUE), UnsignedInteger(Size(1)), UnsignedInteger(Size(200)), Integer(Fill(8, 255)),
     UnsignedInteger(AllOnes(64)), Float(FromSingle(<<63, 128, 0, 0>>)), String(<<97>>),
     Binary(<<>>, <<1, 2>>), Array(<<>>), Array(<<Null>>), Object(NoMembers),
     Object(Member(<<97>>, Null)), UnsignedInteger(PowerOfTwo(15))}
ContainerValues ==
    {Array(<<x, y>>) : x, y \in Fillings}
    \cup {Object(With(Member(<<>>, x), <<98>>, y)) : x, y \in Fillings}
    \cup {Array(Fill(n, Null)) : n \in ShortLengths}
    \cup {Object([k \in {<<m>> : m \in 1 .. n} |-> Null]) : n \in {0, 1, 3, 15, 16, 23, 24}}
    \cup {Object(Member(Letters(n), Null)) : n \in Lengths}

\* BSON documents are objects.
BinaryInputs ==
    LET all == IntegerValues \cup DoubleValues \cup StringValues \cup BinaryValues \cup ContainerValues
    IN  all \cup {Object(Member(<<97>>, v)) : v \in {v \in all : v[1] # "object"}}

\* The bytes that short inputs are made of: the markers of each format.
ByteAlphabet == {0, 1, 2, 16, 24, 35, 36, 56, 78, 84, 85, 91, 93, 95, 97, 105, 129, 159, 161, 191,
                 199, 212, 216, 224, 249, 255}

(***************************************************************************)
(* The formats with their options.                                         *)
(***************************************************************************)
Formats ==
    {<<"cbor", "store">>, <<"cbor", "ignore">>, <<"msgpack">>, <<"bson">>}
    \cup {<<"ubjson", o[1], o[2], bj>> : o \in {<<FALSE, FALSE>>, <<TRUE, FALSE>>, <<TRUE, TRUE>>},
                                         bj \in BOOLEAN}

Writes(f, v) == f[1] # "bson" \/ ~Threw(WriteBson(v))
Written(f, v) ==
    CASE f[1] = "cbor" -> WriteCbor(v)
      [] f[1] = "msgpack" -> WriteMsgPack(v)
      [] f[1] = "bson" -> WriteBson(v)[2]
      [] f[1] = "ubjson" -> WriteUbjson(v, f[2], f[3], TRUE, f[4])
ReadBack(f, s) ==
    CASE f[1] = "cbor" -> FromCbor(s, f[2])
      [] f[1] = "msgpack" -> FromMsgPack(s)
      [] f[1] = "bson" -> FromBson(s)
      [] f[1] = "ubjson" -> FromUbjson(s, f[4])

\* What a format keeps of a binary value and of a NaN.
BinaryKept(f, b) ==
    LET low == IF b.subtype = <<>> THEN 0 ELSE b.subtype[8]
    IN  CASE f = <<"cbor", "store">> -> <<"binary", b>>
          [] f = <<"cbor", "ignore">> -> Binary(<<>>, b.bytes)
          [] f[1] = "msgpack" ->
                Binary(IF b.subtype = <<>> THEN <<>> ELSE Size(low), b.bytes)
          [] f[1] = "bson" -> Binary(Size(low), b.bytes)
          [] f[1] = "ubjson" ->
                Array([k \in DOMAIN b.bytes |-> UnsignedInteger(Size(b.bytes[k]))])

\* The value without what a format does not keep, such as the type of an integer that
\* is not negative.
RECURSIVE Kept(_, _)
Kept(f, v) ==
    CASE v[1] = "integer" -> <<IF IsNegative(v[2]) THEN "integer" ELSE "unsigned", v[2]>>
      [] v[1] = "float" ->
            Float(IF f[1] = "cbor" /\ IsNaN(v[2]) THEN Double(0, 2047, 512, 10) ELSE v[2])
      [] v[1] = "binary" -> BinaryKept(f, v[2])
      [] v[1] \in {"array", "object"} -> <<v[1], [k \in DOMAIN v[2] |-> Kept(f, v[2][k])]>>
      [] OTHER -> v

\* The sizes in a BSON document are those of its parts: the reader of this library does
\* not look at them, others go by them (json.hpp:16300, calc_bson_object_size).
HasItsSize(s) == Small(Unsigned(Reverse(SubSeq(s, 1, 4)))) = Len(s)
BsonSizesTrue ==
    kind = "binary" /\ input # <<>> /\ input[1][1] \in {"array", "object"} /\ ~BsonThrows(input[1]) =>
        HasItsSize(WriteBsonDocument(input[1]))

\* The value of the input: the one that is given, or what f reads from the bytes.
GivenValue(f) ==
    IF kind = "bytes" THEN ReadBack(f, input) ELSE IF input = <<>> THEN Discarded ELSE input[1]
ReadsBack(f, v) ==
    v # Discarded /\ Writes(f, v) => Kept(f, ReadBack(f, Written(f, v))) = Kept(f, v)

\* A value that is written in a binary format reads back, and so does what was read
\* from any bytes: the width chosen for a number or a length is one that holds it, and
\* the reader takes the same number of bytes.  The sizes in BSON are true
\* (json.hpp:15128, write_cbor, and the other writers; json.hpp:9564,
\* parse_cbor_internal, and the other readers).
BinaryReadsBack ==
    /\ kind \in {"binary", "bytes"} => \A f \in Formats : ReadsBack(f, GivenValue(f))
    /\ BsonSizesTrue

\* The first and the last prefixes of what was written are refused, and so is what is
\* followed by another byte.
PartsRefused(f, s) ==
    /\ \A k \in {k \in 0 .. Len(s) - 1 : k < 12 \/ k > Len(s) - 6} : ReadBack(f, SubSeq(s, 1, k)) = Discarded
    /\ \A c \in {0, 93, 255} : ReadBack(f, Append(s, c)) = Discarded

\* No format takes a part of a value for a value, or a value and a byte more: lengths
\* and numbers are checked against the end of the input wherever it comes
\* (json.hpp:12032, unexpect_eof; json.hpp:9277, sax_parse).
TruncationDetected ==
    kind = "binary" /\ input # <<>> =>
        \A f \in Formats :
            Writes(f, input[1]) => PartsRefused(f, Written(f, input[1]))

=============================================================================
