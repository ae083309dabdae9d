------------------------------ MODULE JsonUbjson ------------------------------
(***************************************************************************)
(* include/nlohmann/json.hpp: UBJSON and BJData, write_ubjson of           *)
(* binary_writer and parse_ubjson_internal of binary_reader.  bj says that *)
(* the format is BJData, which is little endian and has more integers.     *)
(* The annotated n-dimensional arrays of BJData are left out.              *)
(***************************************************************************)
EXTENDS JsonBytes

\* The integers: marker, width, whether they are signed, whether only BJData has them.
UbIntegers ==
    << [marker |-> 105, width |-> 1, signed |-> TRUE, bj |-> FALSE],     \* i
       [marker |-> 85, width |-> 1, signed |-> FALSE, bj |-> FALSE],     \* U
       [marker |-> 73, width |-> 2, signed |-> TRUE, bj |-> FALSE],      \* I
       [marker |-> 117, width |-> 2, signed |-> FALSE, bj |-> TRUE],     \* u
       [marker |-> 108, width |-> 4, signed |-> TRUE, bj |-> FALSE],     \* l
       [marker |-> 109, width |-> 4, signed |-> FALSE, bj |-> TRUE],     \* m
       [marker |-> 76, width |-> 8, signed |-> TRUE, bj |-> FALSE],      \* L
       [marker |-> 77, width |-> 8, signed |-> FALSE, bj |-> TRUE] >>    \* M

HighPrecision == 72     \* H
OpenArray == 91
CloseArray == 93
OpenObject == 123
CloseObject == 125
NoOp == 78              \* N
TypeMark == 36          \* $
CountMark == 35         \* #

\* What BJData does not allow as the type of a container.
ExcludedTypes == {OpenArray, OpenObject, 83, HighPrecision, 84, 70, NoOp, 90}

InOrderOf(bytes, bj) == IF bj THEN Reverse(bytes) ELSE bytes

\* The integers that hold the value, of which the first is taken.
Fitting(b, negative, bj) ==
    {k \in DOMAIN UbIntegers :
        LET t == UbIntegers[k]
        IN  /\ t.bj => bj
            /\ IF t.signed THEN FitsSigned(b, t.width) /\ (IsNegative(b) => negative)
               ELSE FitsUnsigned(b, t.width) /\ ~negative}

IntegerMarker(b, negative, bj) ==
    LET fit == Fitting(b, negative, bj)
    IN  IF fit = {} THEN HighPrecision
        ELSE UbIntegers[CHOOSE k \in fit : \A j \in fit : k <= j].marker

(***************************************************************************)
(* The decimal text of an unsigned number, for a high-precision number.    *)
(***************************************************************************)
DivideByTen(b) ==
    LET step(d, byte) == LET n == 256 * d.remainder + byte
                         IN  [quotient |-> Append(d.quotient, n \div 10), remainder |-> n % 10]
    IN  FoldLeft(step, [quotient |-> <<>>, remainder |-> 0], b)
RECURSIVE DecimalText(_)
DecimalText(b) ==
    LET text(d) == (IF d.quotient = Size(0) THEN <<>> ELSE DecimalText(d.quotient)) \o <<48 + d.remainder>>
    IN  Apply(text, DivideByTen(b))

\* The number that a text of digits stands for; <<>> if it needs more than 64 bits.
FromDecimal(text) ==
    LET step(byte, m) == LET n == 10 * byte + m.carry
                         IN  [product |-> <<n % 256>> \o m.product, carry |-> n \div 256]
        shifted(b, digit) ==
            IF b = <<>> THEN <<>>
            ELSE LET m == FoldRight(step, b, [product |-> <<>>, carry |-> digit - 48])
                 IN  IF m.carry > 0 THEN <<>> ELSE m.product
    IN  FoldLeft(shifted, Size(0), text)

(***************************************************************************)
(* Writing.                                                                *)
(***************************************************************************)
\* write_number_with_ubjson_prefix.
RECURSIVE UbNumber(_, _, _, _)
UbNumber(b, negative, add_prefix, bj) ==
    LET marker == IntegerMarker(b, negative, bj)
        width == UbIntegers[CHOOSE k \in DOMAIN UbIntegers : UbIntegers[k].marker = marker].width
        text == DecimalText(b)
    IN  (IF add_prefix THEN <<marker>> ELSE <<>>)
        \o IF marker = HighPrecision THEN UbNumber(Size(Len(text)), FALSE, TRUE, bj) \o text
           ELSE InOrderOf(Narrow(b, width), bj)
UbSize(n, bj) == UbNumber(Size(n), FALSE, TRUE, bj)

UbPrefix(v, bj) ==
    CASE v[1] = "null" -> 90
      [] v[1] = "boolean" -> IF v[2] THEN 84 ELSE 70
      [] v[1] \in {"integer", "unsigned"} ->
            IntegerMarker(v[2], v[1] = "integer" /\ IsNegative(v[2]), bj)
      [] v[1] = "float" -> 68
      [] v[1] = "string" -> 83
      [] v[1] \in {"array", "binary"} -> OpenArray
      [] v[1] = "object" -> OpenObject

RECURSIVE WriteUbjson(_, _, _, _, _)
\* A container, from its elements in order and what comes before each of them.
UbContainer(open, close, elements, names, use_count, use_type, bj) ==
    LET first == UbPrefix(elements[1], bj)
        typed == /\ use_type /\ elements # <<>>
                 /\ \A k \in DOMAIN elements : UbPrefix(elements[k], bj) = first
                 /\ ~(bj /\ first \in ExcludedTypes)
    IN  open \o (IF typed THEN <<TypeMark, first>> ELSE <<>>)
        \o (IF use_count THEN <<CountMark>> \o UbSize(Len(elements), bj) ELSE <<>>)
        \o FlattenSeq([k \in DOMAIN elements |->
               names[k] \o WriteUbjson(elements[k], use_count, use_type, ~typed, bj)])
        \o (IF use_count THEN <<>> ELSE <<close>>)

\* A binary value is an array of bytes of type U.
UbBinary(open, bytes, use_count, use_type, bj) ==
    open \o (IF use_type /\ bytes # <<>> THEN <<TypeMark, 85>> ELSE <<>>)
    \o (IF use_count THEN <<CountMark>> \o UbSize(Len(bytes), bj) ELSE <<>>)
    \o (IF use_type THEN bytes ELSE FlattenSeq([k \in DOMAIN bytes |-> <<85, bytes[k]>>]))
    \o (IF use_count THEN <<>> ELSE <<CloseArray>>)

WriteUbjson(v, use_count, use_type, add_prefix, bj) ==
    LET marker == IF add_prefix THEN <<UbPrefix(v, bj)>> ELSE <<>>
        keys == InOrder(DOMAIN v[2])
    IN  CASE v[1] \in {"null", "boolean"} -> marker
          [] v[1] \in {"integer", "unsigned"} ->
                UbNumber(v[2], v[1] = "integer" /\ IsNegative(v[2]), add_prefix, bj)
          [] v[1] = "float" -> marker \o InOrderOf(v[2], bj)
          [] v[1] = "string" -> marker \o UbSize(Len(v[2]), bj) \o v[2]
          [] v[1] = "binary" -> UbBinary(marker, v[2].bytes, use_count, use_type, bj)
          [] v[1] = "array" ->
                UbContainer(marker, CloseArray, v[2], [k \in DOMAIN v[2] |-> <<>>],
                            use_count, use_type, bj)
          [] v[1] = "object" ->
                UbContainer(marker, CloseObject, [k \in DOMAIN keys |-> v[2][keys[k]]],
                            [k \in DOMAIN keys |-> UbSize(Len(keys[k]), bj) \o keys[k]],
                            use_count, use_type, bj)

(***************************************************************************)
(* Reading.                                                                *)
(***************************************************************************)
NoSize == -1

\* get_ignore_noop: where the next byte is that is no NoOp.
SkipNoOp(s, i) ==
    CHOOSE k \in i .. Len(s) + 1 : At(s, k) # NoOp /\ \A j \in i .. k - 1 : s[j] = NoOp

\* An integer from its marker on, with the kind of integer.
UbIntegerAt(s, i, bj) ==
    LET kinds == {k \in DOMAIN UbIntegers : UbIntegers[k].marker = At(s, i) /\ (UbIntegers[k].bj => bj)}
        t == UbIntegers[CHOOSE k \in kinds : TRUE]
        value(b) == [b |-> IF t.signed THEN Signed(b) ELSE Unsigned(b), signed |-> t.signed]
    IN  IF kinds = {} THEN Bad ELSE As(GetNumber(s, i + 1, t.width, bj), value)

\* get_ubjson_string; a negative length reads nothing.
UbString(s, i, bj) ==
    LET bytes(r) == GetBytes(s, r.next, IF r.value.signed /\ IsNegative(r.value.b) THEN 0
                                        ELSE Small(r.value.b))
    IN  Then(UbIntegerAt(s, i, bj), bytes)

\* get_ubjson_size_value; a negative one is an error.
UbSizeValue(s, i, bj) ==
    LET size(r) == IF r.value.signed /\ IsNegative(r.value.b) THEN Bad ELSE Got(r.next, r.value.b)
    IN  Then(UbIntegerAt(s, SkipNoOp(s, i), bj), size)

\* get_ubjson_size_type.  If there is no size, reading goes on at the byte that was
\* looked at last, also after a size of 2^64 - 1.
NoType == 0
UbSized(type, r) ==
    CASE r.next = 0 -> Bad
      [] r.next # 0 /\ r.value = Fill(8, 255) -> Got(r.next - 1, [size |-> NoSize, type |-> type])
      [] OTHER -> Got(r.next, [size |-> Small(r.value), type |-> type])
UbSizeType(s, i, bj) ==
    LET first == SkipNoOp(s, i)
        type == s[first + 1]
        hash == SkipNoOp(s, first + 2)
    IN  CASE At(s, first) = TypeMark ->
                IF first = Len(s) \/ (bj /\ type \in ExcludedTypes) THEN Bad
                ELSE IF At(s, hash) # CountMark THEN Bad
                ELSE UbSized(type, UbSizeValue(s, hash + 1, bj))
          [] At(s, first) = CountMark -> UbSized(NoType, UbSizeValue(s, first + 1, bj))
          [] OTHER -> Got(first, [size |-> NoSize, type |-> NoType])

\* get_ubjson_high_precision_number, for a text of digits; other texts, which the
\* writer does not produce, are left out.
UbHighPrecision(s, i, bj) ==
    LET text(r) == GetBytes(s, r.next, Small(r.value))
        number(r) ==
            LET t == r.value
                b == FromDecimal(t)
            IN  IF /\ t # <<>> /\ Range(t) \subseteq Digits /\ (t[1] = Zero => Len(t) = 1)
                   /\ b # <<>>
                THEN Got(r.next, <<"unsigned", b>>) ELSE Bad
    IN  Then(Then(UbSizeValue(s, i, bj), text), number)

RECURSIVE UbValue(_, _, _, _), UbItems(_, _, _, _, _), UbMembers(_, _, _, _, _)
\* parse_ubjson_internal at a byte that is the type.
UbValueAt(s, i, bj) == IF i > Len(s) THEN Bad ELSE UbValue(s, i + 1, s[i], bj)
\* An element: without a type of the container it has its own.
UbElement(s, i, type, bj) ==
    IF type = NoType THEN UbValueAt(s, SkipNoOp(s, i), bj) ELSE UbValue(s, i, type, bj)
\* The elements of an array: as many as are left, or all before the end mark, which is
\* looked at before each of them.
UbItems(s, i, of, bj, items) ==
    LET counted(r) == UbItems(s, r.next, [of EXCEPT !.size = @ - 1], bj, Append(items, r.value))
        open(r) == UbItems(s, SkipNoOp(s, r.next), of, bj, Append(items, r.value))
    IN  CASE of.size = NoSize ->
                IF At(s, i) = CloseArray THEN Got(i + 1, Array(items))
                ELSE Then(UbValueAt(s, i, bj), open)
          [] of.size # NoSize /\ (of.size = 0 \/ of.type = NoOp) -> Got(i, Array(items))
          [] OTHER -> Then(UbElement(s, i, of.type, bj), counted)
UbMembers(s, i, of, bj, members) ==
    LET counted(key) ==
            LET more(r) == UbMembers(s, r.next, [of EXCEPT !.size = @ - 1], bj,
                                     With(members, key.value, r.value))
            IN  Then(UbElement(s, key.next, of.type, bj), more)
        open(key) ==
            LET more(r) == UbMembers(s, SkipNoOp(s, r.next), of, bj,
                                     With(members, key.value, r.value))
            IN  Then(UbElement(s, key.next, NoType, bj), more)
    IN  CASE of.size = NoSize ->
                IF At(s, i) = CloseObject THEN Got(i + 1, Object(members))
                ELSE Then(UbString(s, i, bj), open)
          [] of.size = 0 -> Got(i, Object(members))
          [] OTHER -> Then(UbString(s, i, bj), counted)
\* get_ubjson_value: what follows the type.
UbValue(s, i, prefix, bj) ==
    LET kinds == {k \in DOMAIN UbIntegers : UbIntegers[k].marker = prefix /\ (UbIntegers[k].bj => bj)}
        t == UbIntegers[CHOOSE k \in kinds : TRUE]
        integer(b) == IF t.signed THEN <<"integer", Signed(b)>> ELSE <<"unsigned", Unsigned(b)>>
        float(d) == <<"float", d>>
        char(b) == String(b)
        items(r) == UbItems(s, r.next, r.value, bj, <<>>)
        members(r) == UbMembers(s, r.next, r.value, bj, NoMembers)
    IN  CASE prefix = 84 -> Got(i, Boolean(TRUE))
          [] prefix = 70 -> Got(i, Boolean(FALSE))
          [] prefix = 90 -> Got(i, Null)
          [] kinds # {} -> As(GetNumber(s, i, t.width, bj), integer)
          [] prefix = 104 /\ bj -> As(As(GetNumber(s, i, 2, TRUE), FromHalf), float)
          [] prefix = 100 -> As(As(GetNumber(s, i, 4, bj), FromSingle), float)
          [] prefix = 68 -> As(GetNumber(s, i, 8, bj), float)
          [] prefix = HighPrecision -> UbHighPrecision(s, i, bj)
          [] prefix = 67 -> IF At(s, i) > 127 THEN Bad ELSE As(GetBytes(s, i, 1), char)
          [] prefix = 83 -> As(UbString(s, i, bj), String)
          [] prefix = OpenArray -> Then(UbSizeType(s, i, bj), items)
          [] prefix = OpenObject -> Then(UbSizeType(s, i, bj), members)
          [] OTHER -> Bad

\* Strict: only NoOps may follow.
FromUbjson(s, bj) ==
    LET end(r) == Got(SkipNoOp(s, r.next), r.value)
    IN  Whole(s, Then(UbValueAt(s, SkipNoOp(s, 1), bj), end))

=============================================================================
