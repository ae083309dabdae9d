------------------------------ MODULE PqxxValues ------------------------------
(***************************************************************************)
(* The conversions of libpqxx on short inputs: rows of fields, texts of    *)
(* numbers, dates and pairs of ranges.                                     *)
(***************************************************************************)
EXTENDS PqxxNumbers, JsonInputs

CONSTANT RowBytes       \* the bytes fields are made of

\* A row is a sequence of bytes, of breaks between fields, and of nulls.
FieldBreak == -1
NullMark == -2
RowAlphabet == RowBytes \cup {FieldBreak, NullMark}
RECURSIVE SplitRow(_, _)
SplitRow(t, field) ==
    CASE t = <<>> -> <<field>>
      [] t # <<>> /\ t[1] = FieldBreak -> <<field>> \o SplitRow(Tail(t), <<>>)
      [] OTHER -> SplitRow(Tail(t), Append(field, t[1]))
RowFields(t) ==
    LET parts == SplitRow(t, <<>>)
    IN  [i \in DOMAIN parts |-> IF parts[i] = <<NullMark>> THEN NullField ELSE parts[i]]
FieldsOk(enc, fields) ==
    \A i \in DOMAIN fields : fields[i] # NullField =>
        NullMark \notin ToSet(fields[i]) /\ IsText(enc, fields[i])

\* Pieces of numbers: a blank, a sign, digits up to and past the limits, a letter.
TextAlphabet == {<<32>>, <<45>>, <<48>>, <<51, 50, 55, 54>>, <<55>>, <<56>>, <<120>>}
DateAlphabet ==
    {<<y, m, d>> : y \in {-32767, -32766, -4712, -1000, -999, -1, 0, 1, 9, 10, 99, 100, 999, 1000, 1900,
                          2000, 2023, 9999, 10000, 32767},
                   m \in {1, 2, 9, 10, 12}, d \in {1, 9, 10, 28, 29, 30, 31}}
RangeValues == 0 .. 2
RangeBounds == {NoBound} \cup {Inclusive(v) : v \in RangeValues} \cup {Exclusive(v) : v \in RangeValues}
RangeAlphabet == {r \in RangeBounds \X RangeBounds : IsRange(r)}

\* What stream_to writes of a row, in any encoding that the fields are texts of,
\* stream_from takes apart into the same fields, the nulls apart from the texts
\* that look like them, and it never needs more of m_row than it has resized it
\* to.
TakenApart(row, fields, length) == row.fields = fields /\ row.used <= length + 1
CopyReadsBack ==
    kind = "row" =>
        LET fields == RowFields(input)
        IN  \A enc \in Encodings : FieldsOk(enc, fields) =>
                LET line == WriteRow(enc, fields)
                IN  TakenApart(ParseLine(enc, line), fields, Len(line))

\* The encodings in which a byte below 128 is always a glyph of its own.
AsciiSafe == {"MONOBYTE", "EUC_CN", "EUC_JP", "EUC_JIS_2004", "EUC_KR", "EUC_TW", "UTF8"}

\* In those encodings an array of strings and nulls, a composite value of several
\* strings and a binary string are read back from the text that they are written
\* as: no quote, comma, brace or backslash in a string ends it early.
QuotedReadsBack ==
    kind = "row" =>
        LET fields == RowFields(input)
            Element(f) == IF f = NullField THEN [found |-> "null_value", value |-> <<>>]
                          ELSE [found |-> "string_value", value |-> f]
            array == <<[found |-> "row_start", value |-> <<>>]>>
                     \o [i \in DOMAIN fields |-> Element(fields[i])]
                     \o <<[found |-> "row_end", value |-> <<>>]>>
        IN  /\ \A enc \in AsciiSafe : FieldsOk(enc, fields) =>
                  /\ ParseArray(enc, ArrayIntoBuf(fields)) = array
                  /\ Len(fields) > 1 /\ NullField \notin ToSet(fields) =>
                        ParseComposite(enc, CompositeIntoBuf(fields), Len(fields)) = fields
            /\ \A i \in DOMAIN fields : fields[i] # NullField /\ FieldsOk("MONOBYTE", <<fields[i]>>) =>
                  UnescBin(EscBin(fields[i])) = fields[i]

\* What the library writes as text for the server, as a line of COPY or as a quoted
\* value, reads back as what it was (stream_to.cxx:130, escape_field_to_buffer;
\* array.cxx:167, parse_array_step).
TextReadsBack == CopyReadsBack /\ QuotedReadsBack

\* The number that a text spells, by its digits.
\* (More than 8 characters hold two pieces of 4 digits, a number out of range.)
Spelled(t) ==
    LET s == SkipBlanks(t)
        digits == IF s # <<>> /\ s[1] = 45 THEN Tail(s) ELSE s
        value == IF digits = s THEN DigitsToInt(digits) ELSE -DigitsToInt(digits)
    IN  IF /\ digits # <<>> /\ Len(digits) <= 8 /\ \A i \in DOMAIN digits : IsDigitByte(digits[i])
           /\ BetweenInc(value, Bottom, Top)
        THEN value ELSE NotANumber
\* The intersection of two ranges holds exactly the values that both hold; a
\* range that encompasses another holds all its values; and a range is read back
\* from its text.
IsOnly(ranges, r) == Len(ranges) = 1 /\ SameRange(ranges[1], r)
RangesAgree ==
    kind = "ranges" =>
        /\ \A i \in DOMAIN input : IsOnly(RangeFromString(RangeIntoBuf(input[i])), input[i])
        /\ Len(input) = 2 =>
              LET r == input[1]
                  s == input[2]
                  both == Intersection(r, s)
              IN  \A v \in -1 .. 3 :
                    /\ RangeContains(both, v) <=> (RangeContains(r, v) /\ RangeContains(s, v))
                    /\ RangeEncompasses(r, s) /\ RangeContains(s, v) => RangeContains(r, v)

\* A text is read as the number that its digits spell, after blanks and perhaps a
\* sign, or refused where it is no number or does not fit in 16 bits; and a
\* number or a date is read back from the text that it is written as, the
\* greatest and the least included, no two dates being written alike; ranges too.
NumbersReadBack ==
    /\ kind = "text" =>
          LET text == Bytes(input)
              value == FromStringInteger(text)
          IN  /\ value = Spelled(text)
              /\ value # NotANumber => FromStringInteger(ShortToBuf(value)) = value
    /\ kind = "date" =>
          \A i \in DOMAIN input :
              DateFromString(DateIntoBuf(input[i])) = IF IsDate(input[i]) THEN input[i] ELSE NoDate
    /\ RangesAgree

=============================================================================
