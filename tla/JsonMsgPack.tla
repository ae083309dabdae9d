------------------------------ MODULE JsonMsgPack ------------------------------
(***************************************************************************)
(* include/nlohmann/json.hpp: MessagePack, write_msgpack of binary_writer  *)
(* and parse_msgpack_internal of binary_reader.                            *)
(***************************************************************************)
EXTENDS JsonBytes

\* A length that is part of the first byte if it is less than limit; first is the
\* marker for the least of the widths that come after it.
MsgPackHead(fix, limit, markers, n) ==
    LET w == CHOOSE w \in DOMAIN markers :
                /\ FitsUnsigned(Size(n), w)
                /\ \A u \in DOMAIN markers : FitsUnsigned(Size(n), u) => w <= u
    IN  IF n < limit THEN <<fix + n>> ELSE <<markers[w]>> \o Narrow(Size(n), w)

\* The first bytes that hold a small number, length or count themselves.
PositiveFixint == 0 .. 127
Fixmap == 128 .. 143
Fixarray == 144 .. 159
Fixstr == 160 .. 191
NegativeFixint == 224 .. 255

StringMarkers == [w \in {1, 2, 4} |-> 217 + WidthCode(w)]
ArrayMarkers == [w \in {2, 4} |-> 219 + WidthCode(w)]
MapMarkers == [w \in {2, 4} |-> 221 + WidthCode(w)]
BinMarkers == [w \in {1, 2, 4} |-> 196 + WidthCode(w)]
ExtMarkers == [w \in {1, 2, 4} |-> 199 + WidthCode(w)]

MsgPackUnsigned(b) ==
    IF FitsUnsigned(b, 1) /\ b[8] < 128 THEN <<b[8]>>
    ELSE <<204 + WidthCode(Width(b))>> \o Narrow(b, Width(b))

\* Negative: down to -32 in one byte, otherwise in the least signed type.
MsgPackInteger(b) ==
    LET w == CHOOSE w \in {1, 2, 4, 8} : FitsSigned(b, w) /\ (w > 1 => ~FitsSigned(b, w \div 2))
    IN  IF ~IsNegative(b) THEN MsgPackUnsigned(b)
        ELSE IF FitsSigned(b, 1) /\ b[8] >= 224 THEN <<b[8]>>
        ELSE <<208 + WidthCode(w)>> \o Narrow(b, w)

MsgPackFloat(d) == IF FitsSingle(d) THEN <<202>> \o ToSingle(d) ELSE <<203>> \o d

MsgPackString(s) == MsgPackHead(160, 32, StringMarkers, Len(s)) \o s

FixedSizes == <<1, 2, 4, 8, 16>>

\* With a subtype an extension, of which the subtype is one byte.
MsgPackBinary(b) ==
    LET n == Len(b.bytes)
        fixed == {k \in DOMAIN FixedSizes : FixedSizes[k] = n}
    IN  CASE b.subtype = <<>> -> MsgPackHead(0, 0, BinMarkers, n) \o b.bytes
          [] b.subtype # <<>> /\ fixed # {} ->
                <<211 + CHOOSE k \in fixed : TRUE, b.subtype[8]>> \o b.bytes
          [] OTHER -> MsgPackHead(0, 0, ExtMarkers, n) \o <<b.subtype[8]>> \o b.bytes

RECURSIVE WriteMsgPack(_)
WriteMsgPack(v) ==
    LET keys == InOrder(DOMAIN v[2])
    IN  CASE v = Null -> <<192>>
          [] v[1] = "boolean" -> IF v[2] THEN <<195>> ELSE <<194>>
          [] v[1] = "integer" -> MsgPackInteger(v[2])
          [] v[1] = "unsigned" -> MsgPackUnsigned(v[2])
          [] v[1] = "float" -> MsgPackFloat(v[2])
          [] v[1] = "string" -> MsgPackString(v[2])
          [] v[1] = "binary" -> MsgPackBinary(v[2])
          [] v[1] = "array" ->
                MsgPackHead(144, 16, ArrayMarkers, Len(v[2]))
                \o FlattenSeq([k \in DOMAIN v[2] |-> WriteMsgPack(v[2][k])])
          [] v[1] = "object" ->
                MsgPackHead(128, 16, MapMarkers, Len(keys))
                \o FlattenSeq([k \in DOMAIN keys |->
                                  MsgPackString(keys[k]) \o WriteMsgPack(v[2][keys[k]])])

(***************************************************************************)
(* Reading.                                                                *)
(***************************************************************************)
\* The length after a marker.
MsgPackLength(s, i, markers) ==
    LET w == CHOOSE w \in DOMAIN markers : markers[w] = s[i]
    IN  As(As(GetNumber(s, i + 1, w, FALSE), Unsigned), Small)

\* get_msgpack_string.
ReadMsgPackString(s, i) ==
    LET bytes(r) == GetBytes(s, r.next, r.value)
    IN  CASE At(s, i) \in Fixstr -> GetBytes(s, i + 1, s[i] - 160)
          [] At(s, i) \in Range(StringMarkers) -> Then(MsgPackLength(s, i, StringMarkers), bytes)
          [] OTHER -> Bad

\* An extension from its subtype on, with that many bytes of content.
ReadExtension(s, i, n) ==
    LET content(sub) == LET with(bytes) == Binary(Unsigned(sub.value), bytes)
                        IN  As(GetBytes(s, sub.next, n), with)
    IN  Then(GetNumber(s, i, 1, FALSE), content)

\* get_msgpack_binary.
ReadMsgPackBinary(s, i) ==
    LET bytes(r) == GetBytes(s, r.next, r.value)
        plain(b) == Binary(<<>>, b)
        extension(r) == ReadExtension(s, r.next, r.value)
    IN  CASE s[i] \in Range(BinMarkers) -> As(Then(MsgPackLength(s, i, BinMarkers), bytes), plain)
          [] s[i] \in Range(ExtMarkers) -> Then(MsgPackLength(s, i, ExtMarkers), extension)
          [] s[i] \in 212 .. 216 -> ReadExtension(s, i + 1, FixedSizes[s[i] - 211])

\* A number from its marker on.
ReadMsgPackNumber(s, i) ==
    LET number(n) == GetNumber(s, i + 1, n, FALSE)
        unsigned(b) == <<"unsigned", Unsigned(b)>>
        integer(b) == <<"integer", Signed(b)>>
        single(b) == <<"float", FromSingle(b)>>
        double(b) == <<"float", b>>
    IN  CASE s[i] \in PositiveFixint -> Got(i + 1, unsigned(<<s[i]>>))
          [] s[i] \in NegativeFixint -> Got(i + 1, integer(<<s[i]>>))
          [] s[i] = 202 -> As(number(4), single)
          [] s[i] = 203 -> As(number(8), double)
          [] s[i] \in 204 .. 207 -> As(number(2 ^ (s[i] - 204)), unsigned)
          [] s[i] \in 208 .. 211 -> As(number(2 ^ (s[i] - 208)), integer)

RECURSIVE ReadMsgPack(_, _), MsgPackItems(_, _, _, _), MsgPackMembers(_, _, _, _)
MsgPackItems(s, i, left, items) ==
    LET more(r) == MsgPackItems(s, r.next, left - 1, Append(items, r.value))
    IN  IF left = 0 THEN Got(i, Array(items)) ELSE Then(ReadMsgPack(s, i), more)
MsgPackMembers(s, i, left, members) ==
    LET value(key) == LET more(r) == MsgPackMembers(s, r.next, left - 1,
                                                    With(members, key.value, r.value))
                      IN  Then(ReadMsgPack(s, key.next), more)
    IN  IF left = 0 THEN Got(i, Object(members)) ELSE Then(ReadMsgPackString(s, i), value)
\* parse_msgpack_internal.
ReadMsgPack(s, i) ==
    LET items(r) == MsgPackItems(s, r.next, r.value, <<>>)
        members(r) == MsgPackMembers(s, r.next, r.value, NoMembers)
        b == s[i]
    IN  IF i > Len(s) THEN Bad
        ELSE CASE b \in Fixmap -> MsgPackMembers(s, i + 1, b - 128, NoMembers)
               [] b \in Fixarray -> MsgPackItems(s, i + 1, b - 144, <<>>)
               [] b \in Fixstr \cup Range(StringMarkers) -> As(ReadMsgPackString(s, i), String)
               [] b = 192 -> Got(i + 1, Null)
               [] b = 193 -> Bad
               [] b \in {194, 195} -> Got(i + 1, Boolean(b = 195))
               [] b \in (196 .. 201) \cup (212 .. 216) -> ReadMsgPackBinary(s, i)
               [] b \in {220, 221} -> Then(MsgPackLength(s, i, ArrayMarkers), items)
               [] b \in {222, 223} -> Then(MsgPackLength(s, i, MapMarkers), members)
               [] OTHER -> ReadMsgPackNumber(s, i)

FromMsgPack(s) == Whole(s, ReadMsgPack(s, 1))

=============================================================================
