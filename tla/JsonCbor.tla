------------------------------- MODULE JsonCbor -------------------------------
(***************************************************************************)
(* include/nlohmann/json.hpp: CBOR (RFC 8949), write_cbor of binary_writer *)
(* and parse_cbor_internal of binary_reader.                               *)
(***************************************************************************)
EXTENDS JsonBytes

\* The first byte is a major type and a length of up to 23, or the number of bytes that
\* hold it; the cases of the code for each type of value have this form.
CborHead(major, b) ==
    LET n == Width(b)
    IN  IF FitsUnsigned(b, 1) /\ b[8] <= 23 THEN <<32 * major + b[8]>>
        ELSE <<32 * major + 24 + WidthCode(n)>> \o Narrow(b, n)

CborInteger(b) == IF IsNegative(b) THEN CborHead(1, Complement(b)) ELSE CborHead(0, b)

CborFloat(d) ==
    CASE IsNaN(d) -> <<249, 126, 0>>
      [] IsInfinite(d) -> <<249, IF d[1] < 128 THEN 124 ELSE 252, 0>>
      [] OTHER -> IF FitsSingle(d) THEN <<250>> \o ToSingle(d) ELSE <<251>> \o d

CborString(s) == CborHead(3, Size(Len(s))) \o s

\* The subtype is written as a tag, in full.
CborTag(subtype) ==
    IF subtype = <<>> THEN <<>>
    ELSE <<216 + WidthCode(Width(subtype))>> \o Narrow(subtype, Width(subtype))

RECURSIVE WriteCbor(_)
WriteCbor(v) ==
    LET keys == InOrder(DOMAIN v[2])
    IN  CASE v = Null -> <<246>>
          [] v[1] = "boolean" -> IF v[2] THEN <<245>> ELSE <<244>>
          [] v[1] = "integer" -> CborInteger(v[2])
          [] v[1] = "unsigned" -> CborHead(0, v[2])
          [] v[1] = "float" -> CborFloat(v[2])
          [] v[1] = "string" -> CborString(v[2])
          [] v[1] = "binary" ->
                CborTag(v[2].subtype) \o CborHead(2, Size(Len(v[2].bytes))) \o v[2].bytes
          [] v[1] = "array" ->
                CborHead(4, Size(Len(v[2]))) \o FlattenSeq([k \in DOMAIN v[2] |-> WriteCbor(v[2][k])])
          [] v[1] = "object" ->
                CborHead(5, Size(Len(keys)))
                \o FlattenSeq([k \in DOMAIN keys |-> CborString(keys[k]) \o WriteCbor(v[2][keys[k]])])

(***************************************************************************)
(* Reading.                                                                *)
(***************************************************************************)
Break == 255
Indefinite == -1

\* Mutant: the number after the first byte is one byte shorter.
MutantCborLength(s, i) ==
    LET low == At(s, i) % 32
    IN  CASE low <= 23 -> Got(i + 1, Size(low))
          [] low \in 24 .. 27 -> As(GetNumber(s, i + 1, <<1, 1, 4, 8>>[low - 23], FALSE), Unsigned)
          [] OTHER -> Bad
\* The number in and after the first byte.
CborLength(s, i) ==
    LET low == At(s, i) % 32
    IN  CASE low <= 23 -> Got(i + 1, Size(low))
          [] low \in 24 .. 27 -> As(GetNumber(s, i + 1, 2 ^ (low - 24), FALSE), Unsigned)
          [] OTHER -> Bad

\* The length of an array or an object; a length of 2^64 - 1 is taken for indefinite.
CborCount(s, i) ==
    LET count(b) == IF b = Fill(8, 255) THEN Indefinite ELSE Small(b)
    IN  IF At(s, i) % 32 = 31 THEN Got(i + 1, Indefinite) ELSE As(CborLength(s, i), count)

\* get_cbor_string (major type 3) and get_cbor_binary (2): some bytes, or chunks of
\* them up to a break.
RECURSIVE CborBytes(_, _, _), CborChunks(_, _, _, _)
CborBytes(s, i, major) ==
    LET bytes(r) == GetBytes(s, r.next, Small(r.value))
    IN  IF At(s, i) \div 32 # major THEN Bad
        ELSE IF At(s, i) % 32 = 31 THEN CborChunks(s, i + 1, major, <<>>)
        ELSE Then(CborLength(s, i), bytes)
CborChunks(s, i, major, read) ==
    LET more(r) == CborChunks(s, r.next, major, read \o r.value)
    IN  IF At(s, i) = Break THEN Got(i + 1, read) ELSE Then(CborBytes(s, i, major), more)

Plain(bytes) == Binary(<<>>, bytes)
NegativeInteger(b) == <<"integer", Complement(b)>>
UnsignedInteger(b) == <<"unsigned", b>>
Float(d) == <<"float", d>>

\* The simple values and the floating-point numbers.
CborSimple(s, i) ==
    CASE s[i] = 244 -> Got(i + 1, Boolean(FALSE))
      [] s[i] = 245 -> Got(i + 1, Boolean(TRUE))
      [] s[i] = 246 -> Got(i + 1, Null)
      [] s[i] = 249 -> As(As(GetBytes(s, i + 1, 2), FromHalf), Float)
      [] s[i] = 250 -> As(As(GetNumber(s, i + 1, 4, FALSE), FromSingle), Float)
      [] s[i] = 251 -> As(GetNumber(s, i + 1, 8, FALSE), Float)
      [] OTHER -> Bad

RECURSIVE ReadCbor(_, _, _), CborItems(_, _, _, _, _), CborMembers(_, _, _, _, _)
\* The elements of an array, as many as are left.
CborItems(s, i, left, tag_handler, items) ==
    LET next == IF left = Indefinite THEN Indefinite ELSE left - 1
        more(r) == CborItems(s, r.next, next, tag_handler, Append(items, r.value))
    IN  CASE left = 0 -> Got(i, Array(items))
          [] left = Indefinite /\ At(s, i) = Break -> Got(i + 1, Array(items))
          [] OTHER -> Then(ReadCbor(s, i, tag_handler), more)
CborMembers(s, i, left, tag_handler, members) ==
    LET next == IF left = Indefinite THEN Indefinite ELSE left - 1
        value(key) == LET more(r) == CborMembers(s, r.next, next, tag_handler,
                                                 With(members, key.value, r.value))
                      IN  Then(ReadCbor(s, key.next, tag_handler), more)
    IN  CASE left = 0 -> Got(i, Object(members))
          [] left = Indefinite /\ At(s, i) = Break -> Got(i + 1, Object(members))
          [] OTHER -> Then(CborBytes(s, i, 3), value)
\* A tag is an error, is skipped, or is kept as the subtype of the binary value that
\* must then follow.
ReadTagged(s, i, tag_handler) ==
    LET long == s[i] \in 216 .. 219
        skip(r) == ReadCbor(s, r.next, tag_handler)
        store(r) == LET with(bytes) == Binary(r.value, bytes)
                    IN  As(CborBytes(s, r.next, 2), with)
    IN  CASE s[i] \notin (198 .. 212) \cup (216 .. 219) \/ tag_handler = "error" -> Bad
          [] long /\ tag_handler = "store" -> Then(CborLength(s, i), store)
          [] long /\ tag_handler = "ignore" -> Then(CborLength(s, i), skip)
          [] OTHER -> ReadCbor(s, i + 1, tag_handler)
\* parse_cbor_internal.
ReadCbor(s, i, tag_handler) ==
    LET items(r) == CborItems(s, r.next, r.value, tag_handler, <<>>)
        members(r) == CborMembers(s, r.next, r.value, tag_handler, NoMembers)
        major == s[i] \div 32
    IN  IF i > Len(s) THEN Bad
        ELSE CASE major = 0 -> As(CborLength(s, i), UnsignedInteger)
               [] major = 1 -> As(CborLength(s, i), NegativeInteger)
               [] major = 2 -> As(CborBytes(s, i, 2), Plain)
               [] major = 3 -> As(CborBytes(s, i, 3), String)
               [] major = 4 -> Then(CborCount(s, i), items)
               [] major = 5 -> Then(CborCount(s, i), members)
               [] major = 6 -> ReadTagged(s, i, tag_handler)
               [] major = 7 -> CborSimple(s, i)

FromCbor(s, tag_handler) == Whole(s, ReadCbor(s, 1, tag_handler))

=============================================================================
