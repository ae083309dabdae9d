------------------------------- MODULE JsonBson -------------------------------
(***************************************************************************)
(* include/nlohmann/json.hpp: BSON, write_bson of binary_writer and        *)
(* parse_bson_internal of binary_reader.  Its numbers are little endian.   *)
(***************************************************************************)
EXTENDS JsonPatch, JsonBytes

Int32(n) == Reverse(Narrow(Size(n), 4))

(***************************************************************************)
(* The sizes, which come before what they are the sizes of.                *)
(***************************************************************************)
CalcBsonStringSize(s) == 4 + Len(s) + 1

RECURSIVE CalcBsonDocumentSize(_)
\* calc_bson_element_size without the header.
CalcBsonValueSize(v) ==
    CASE v[1] \in {"object", "array"} -> CalcBsonDocumentSize(v)
      [] v[1] = "binary" -> 4 + Len(v[2].bytes) + 1
      [] v[1] = "boolean" -> 1
      [] v[1] = "float" -> 8
      [] v[1] \in {"integer", "unsigned"} ->
            IF FitsSigned(v[2], 4) /\ (v[1] = "unsigned" => ~IsNegative(v[2])) THEN 4 ELSE 8
      [] v[1] = "string" -> CalcBsonStringSize(v[2])
      [] v[1] = "null" -> 0

\* The names of the elements: keys, or the indices of an array.
BsonNames(v) ==
    IF v[1] = "object" THEN InOrder(DOMAIN v[2]) ELSE [k \in DOMAIN v[2] |-> IndexText(k - 1)]
BsonElement(v, k) == IF v[1] = "object" THEN v[2][BsonNames(v)[k]] ELSE v[2][k]

\* calc_bson_object_size, calc_bson_array_size.
CalcBsonDocumentSize(v) ==
    FoldLeft(+, 5, [k \in DOMAIN BsonNames(v) |->
                       1 + Len(BsonNames(v)[k]) + 1 + CalcBsonValueSize(BsonElement(v, k))])

\* A name with a zero in it throws when the sizes are worked out.
RECURSIVE BsonBadName(_)
BsonBadName(v) ==
    /\ v[1] \in {"array", "object"}
    /\ \E k \in DOMAIN BsonNames(v) : 0 \in Range(BsonNames(v)[k]) \/ BsonBadName(BsonElement(v, k))

\* An unsigned number that no int64 holds throws when it is written.
RECURSIVE BsonTooLarge(_)
BsonTooLarge(v) ==
    \/ v[1] = "unsigned" /\ IsNegative(v[2])
    \/ v[1] \in {"array", "object"} /\ \E k \in DOMAIN v[2] : BsonTooLarge(v[2][k])

BsonThrows(v) == BsonBadName(v) \/ BsonTooLarge(v)

RECURSIVE WriteBsonDocument(_)
\* The type of an element and its bytes.
WriteBsonValue(v) ==
    LET int32 == CalcBsonValueSize(v) = 4
    IN  CASE v[1] = "object" -> <<3, WriteBsonDocument(v)>>
          [] v[1] = "array" -> <<4, WriteBsonDocument(v)>>
          [] v[1] = "binary" ->
                <<5, Int32(Len(v[2].bytes)) \o <<IF v[2].subtype = <<>> THEN 0 ELSE v[2].subtype[8]>>
                     \o v[2].bytes>>
          [] v[1] = "boolean" -> <<8, <<IF v[2] THEN 1 ELSE 0>>>>
          [] v[1] = "float" -> <<1, Reverse(v[2])>>
          [] v[1] \in {"integer", "unsigned"} ->
                <<IF int32 THEN 16 ELSE 18, Reverse(Narrow(v[2], IF int32 THEN 4 ELSE 8))>>
          [] v[1] = "string" -> <<2, Int32(Len(v[2]) + 1) \o v[2] \o <<0>>>>
          [] v[1] = "null" -> <<10, <<>>>>
\* write_bson_object, write_bson_array.
WriteBsonDocument(v) ==
    LET entry(k) == LET e == WriteBsonValue(BsonElement(v, k))
                    IN  <<e[1]>> \o BsonNames(v)[k] \o <<0>> \o e[2]
    IN  Int32(CalcBsonDocumentSize(v))
        \o FlattenSeq([k \in DOMAIN BsonNames(v) |-> entry(k)]) \o <<0>>

WriteBson(v) ==
    CASE v[1] # "object" -> Throw(317)
      [] v[1] = "object" /\ BsonThrows(v) -> Throw(IF BsonBadName(v) THEN 409 ELSE 407)
      [] OTHER -> <<"bytes", WriteBsonDocument(v)>>

(***************************************************************************)
(* Reading.  The size of a document is not looked at.                      *)
(***************************************************************************)
\* get_bson_cstr: the bytes before the next zero.
BsonCstr(s, i) ==
    LET zeros == {k \in i .. Len(s) : s[k] = 0}
        end == CHOOSE k \in zeros : \A j \in zeros : k <= j
    IN  IF zeros = {} THEN Bad ELSE Got(end + 1, SubSeq(s, i, end - 1))

BsonInt32(s, i) == As(GetNumber(s, i, 4, TRUE), Signed)

RECURSIVE BsonElements(_, _, _, _)
ReadBsonDocument(s, i, array) ==
    LET elements(r) == BsonElements(s, r.next, array, IF array THEN Array(<<>>) ELSE Object(NoMembers))
    IN  Then(GetNumber(s, i, 4, TRUE), elements)
\* parse_bson_element_internal.
ReadBsonValue(s, i, type) ==
    LET integer(b) == <<"integer", Signed(b)>>
        double(b) == <<"float", b>>
        \* The length of a string counts the zero at its end.
        text(r) == LET rest(t) == IF t.next > Len(s) THEN Bad ELSE Got(t.next + 1, String(t.value))
                   IN  IF IsNegative(r.value) \/ r.value = Size(0) THEN Bad
                       ELSE Then(GetBytes(s, r.next, Small(r.value) - 1), rest)
        bytes(r) == LET content(sub) == LET with(b) == Binary(Unsigned(sub.value), b)
                                        IN  As(GetBytes(s, sub.next, Small(r.value)), with)
                    IN  IF IsNegative(r.value) THEN Bad ELSE Then(GetNumber(s, r.next, 1, FALSE), content)
    IN  CASE type = 1 -> As(GetNumber(s, i, 8, TRUE), double)
          [] type = 2 -> Then(BsonInt32(s, i), text)
          [] type = 3 -> ReadBsonDocument(s, i, FALSE)
          [] type = 4 -> ReadBsonDocument(s, i, TRUE)
          [] type = 5 -> Then(BsonInt32(s, i), bytes)
          [] type = 8 -> Got(i + 1, Boolean(At(s, i) # 0))
          [] type = 10 -> Got(i, Null)
          [] type = 16 -> As(GetNumber(s, i, 4, TRUE), integer)
          [] type = 18 -> As(GetNumber(s, i, 8, TRUE), integer)
          [] OTHER -> Bad
\* parse_bson_element_list.
BsonElements(s, i, array, read) ==
    LET value(key) == LET more(r) == BsonElements(s, r.next, array,
                                       IF array THEN Array(Append(read[2], r.value))
                                       ELSE Object(With(read[2], key.value, r.value)))
                      IN  Then(ReadBsonValue(s, key.next, s[i]), more)
    IN  CASE At(s, i) = 0 -> Got(i + 1, read)
          [] At(s, i) = EOF -> Bad
          [] OTHER -> Then(BsonCstr(s, i + 1), value)

FromBson(s) == Whole(s, ReadBsonDocument(s, 1, FALSE))

=============================================================================
