------------------------------- MODULE JsonLexer -------------------------------
(***************************************************************************)
(* include/nlohmann/json.hpp, class lexer: from bytes to tokens.  Bytes    *)
(* are 0 .. 255.  A position is the index of the next byte to read, so     *)
(* get() is At(s, i) followed by i + 1, and unget() is not moving.         *)
(*                                                                         *)
(* The server reads the configuration and every request body with this     *)
(* code.  Error messages and line counts are left out; the integer types   *)
(* have IntegerBits bits instead of 64.                                    *)
(***************************************************************************)
EXTENDS Integers, Sequences

CONSTANT IntegerBits

ASSUME IntegerBitsAssumption == IntegerBits \in 2 .. 30

EOF == -1
At(s, i) == IF i <= Len(s) THEN s[i] ELSE EOF

Quote == 34
Backslash == 92
Slash == 47
Star == 42
Minus == 45
Plus == 43
Dot == 46
Zero == 48
Digits == 48 .. 57
Exponents == {69, 101}
NewLines == {10, 13}
Blanks == {32, 9} \cup NewLines

\* A token: its type, where the next one starts, the token buffer.
Token(type, next, buffer) == [type |-> type, next |-> next, buffer |-> buffer]
LexError == Token("parse_error", 0, <<>>)

(***************************************************************************)
(* Strings.                                                                *)
(***************************************************************************)
AnyFollow == 128 .. 191

\* The bytes that may come second in a character of three or four bytes: neither an
\* encoding that could be shorter, nor a surrogate, nor what is above the last plane.
SecondBytes(lead) ==
    CASE lead = 224 -> 160 .. 191
      [] lead = 237 -> 128 .. 159
      [] lead = 240 -> 144 .. 191
      [] lead = 244 -> 128 .. 143
      [] OTHER -> AnyFollow

\* The ranges of the bytes that must follow a lead byte; none for a byte that
\* cannot start a character of two or more bytes.
FollowRanges(lead) ==
    CASE lead \in 194 .. 223 -> <<AnyFollow>>
      [] lead \in 224 .. 239 -> <<SecondBytes(lead), AnyFollow>>
      [] lead \in 240 .. 244 -> <<SecondBytes(lead), AnyFollow, AnyFollow>>
      [] OTHER -> <<>>

\* next_byte_in_range: the bytes after position i are in the ranges.
NextBytesInRange(s, i, ranges) ==
    ranges # <<>> /\ \A k \in DOMAIN ranges : At(s, i + k) \in ranges[k]

HexDigit(c) ==
    CASE c \in Digits -> c - 48
      [] c \in 65 .. 70 -> c - 55
      [] c \in 97 .. 102 -> c - 87
      [] OTHER -> -1

\* The code unit of the four hex digits at i, or -1.
GetCodepoint(s, i) ==
    LET d == [k \in 0 .. 3 |-> HexDigit(At(s, i + k))]
    IN  IF \E k \in 0 .. 3 : d[k] = -1 THEN -1
        ELSE 4096 * d[0] + 256 * d[1] + 16 * d[2] + d[3]

\* A code point as UTF-8.
EncodeUtf8(cp) ==
    CASE cp < 128 -> <<cp>>
      [] cp \in 128 .. 2047 -> <<192 + cp \div 64, 128 + (cp % 64)>>
      [] cp \in 2048 .. 65535 ->
            <<224 + cp \div 4096, 128 + ((cp \div 64) % 64), 128 + (cp % 64)>>
      [] OTHER ->
            <<240 + cp \div 262144, 128 + ((cp \div 4096) % 64), 128 + ((cp \div 64) % 64),
              128 + (cp % 64)>>

\* The part of scan_string after \u (at i): the bytes it adds and how many input
\* bytes it takes; none on an error.  A high surrogate must be followed by a low
\* one.
UnicodeEscape(s, i) ==
    LET c1 == GetCodepoint(s, i)
        c2 == GetCodepoint(s, i + 6)
        followed == At(s, i + 4) = Backslash /\ At(s, i + 5) = 117
    IN  CASE c1 = -1 -> <<>>
          [] c1 \in 55296 .. 56319 ->
                IF followed /\ c2 \in 56320 .. 57343
                THEN <<EncodeUtf8(1024 * c1 + c2 - 56613888), 10>>
                ELSE <<>>
          [] c1 \in 56320 .. 57343 -> <<>>
          [] OTHER -> <<EncodeUtf8(c1), 4>>

\* What \c stands for.
SimpleEscapes ==
    [c \in {34, 92, 47, 98, 102, 110, 114, 116} |->
        CASE c = 98 -> 8 [] c = 102 -> 12 [] c = 110 -> 10 [] c = 114 -> 13
          [] c = 116 -> 9 [] OTHER -> c]

\* One escape sequence, its backslash at i: bytes added and input bytes taken.
ScanEscape(s, i) ==
    LET c == At(s, i + 1)
        u == UnicodeEscape(s, i + 2)
    IN  CASE c \in DOMAIN SimpleEscapes -> <<<<SimpleEscapes[c]>>, 2>>
          [] c = 117 /\ u # <<>> -> <<u[1], u[2] + 2>>
          [] OTHER -> <<>>

\* A control character must be escaped.
IsControl(c) == c \in 0 .. 31
IsPlain(c) == c \in (32 .. 127) \ {Quote, Backslash}

RECURSIVE ScanString(_, _, _)
ScanBeyond(escape, s, i, buffer) ==
    IF escape = <<>> THEN LexError ELSE ScanString(s, i + escape[2], buffer \o escape[1])
ScanString(s, i, buffer) ==
    LET c == At(s, i)
        ranges == FollowRanges(c)
    IN  CASE c = Quote -> Token("value_string", i + 1, buffer)
          [] c = Backslash -> ScanBeyond(ScanEscape(s, i), s, i, buffer)
          [] IsPlain(c) -> ScanString(s, i + 1, Append(buffer, c))
          [] c # EOF /\ ~IsControl(c) /\ NextBytesInRange(s, i, ranges) ->
                ScanString(s, i + 1 + Len(ranges),
                           buffer \o SubSeq(s, i, i + Len(ranges)))
          [] OTHER -> LexError

(***************************************************************************)
(* Numbers: the state machine of scan_number.                              *)
(***************************************************************************)
AfterInteger(c) ==
    IF c = Dot THEN "decimal1" ELSE IF c \in Exponents THEN "exponent" ELSE "done"

\* Mutant: a leading zero may be followed by digits.
MutantAfterZero(c) == IF c \in Digits THEN "any1" ELSE AfterInteger(c)

\* The states scan_number_zero and scan_number_any1.
AfterZero(c) == AfterInteger(c)
AfterDigits(c) == IF c \in Digits THEN "any1" ELSE AfterInteger(c)

NumberStep(state, c) ==
    CASE state \in {"init", "minus"} ->
            IF c = Zero THEN "zero" ELSE IF c \in Digits THEN "any1"
            ELSE IF state = "init" /\ c = Minus THEN "minus" ELSE "error"
      [] state = "zero" -> AfterZero(c)
      [] state = "any1" -> AfterDigits(c)
      [] state = "decimal1" -> IF c \in Digits THEN "decimal2" ELSE "error"
      [] state = "decimal2" ->
            IF c \in Digits THEN "decimal2"
            ELSE IF c \in Exponents THEN "exponent" ELSE "done"
      [] state = "exponent" ->
            IF c \in {Plus, Minus} THEN "sign" ELSE IF c \in Digits THEN "any2" ELSE "error"
      [] state = "sign" -> IF c \in Digits THEN "any2" ELSE "error"
      [] state = "any2" -> IF c \in Digits THEN "any2" ELSE "done"

\* number_type after a state.
NumberType(state, type) ==
    CASE state = "minus" -> "value_integer"
      [] state \in {"decimal1", "exponent"} -> "value_float"
      [] OTHER -> type

\* strtoull and strtoll on a string of digits with an optional minus.
RECURSIVE DigitsValue(_)
DigitsValue(t) ==
    IF t = <<>> THEN 0 ELSE 10 * DigitsValue(SubSeq(t, 1, Len(t) - 1)) + t[Len(t)] - 48
IntegerValue(t) == IF t # <<>> /\ t[1] = Minus THEN -DigitsValue(Tail(t)) ELSE DigitsValue(t)

\* An integer that does not fit its type becomes a float.
NumberToken(type, next, text) ==
    LET fits == \/ type = "value_unsigned" /\ IntegerValue(text) < 2 ^ IntegerBits
                \/ type = "value_integer" /\ IntegerValue(text) >= -(2 ^ (IntegerBits - 1))
    IN  Token(IF fits THEN type ELSE "value_float", next, text)

RECURSIVE ScanNumber(_, _, _, _, _)
ScanNumber(s, i, state, type, text) ==
    LET next == NumberStep(state, At(s, i))
    IN  CASE next = "error" -> LexError
          [] next = "done" -> NumberToken(type, i, text)
          [] OTHER ->
                ScanNumber(s, i + 1, next, NumberType(next, type), Append(text, At(s, i)))

(***************************************************************************)
(* The scanner.                                                            *)
(***************************************************************************)
RECURSIVE SkipWhitespace(_, _)
SkipWhitespace(s, i) == IF At(s, i) \in Blanks THEN SkipWhitespace(s, i + 1) ELSE i

\* scan_comment from the character after the first '/': the position after the
\* comment, or 0.
RECURSIVE LineComment(_, _)
LineComment(s, i) ==
    IF At(s, i) \in NewLines \cup {EOF, 0} THEN i + 1 ELSE LineComment(s, i + 1)
\* After a star that does not end the comment the next character is put back.
AfterStar(i) == i + 1

RECURSIVE BlockComment(_, _)
BlockComment(s, i) ==
    CASE At(s, i) \in {EOF, 0} -> 0
      [] At(s, i) = Star /\ At(s, i + 1) = Slash -> i + 2
      [] At(s, i) = Star /\ At(s, i + 1) # Slash -> BlockComment(s, AfterStar(i))
      [] OTHER -> BlockComment(s, i + 1)
ScanComment(s, i) ==
    CASE At(s, i) = Slash -> LineComment(s, i + 1)
      [] At(s, i) = Star -> BlockComment(s, i + 1)
      [] OTHER -> 0

RECURSIVE SkipComments(_, _)
SkipComments(s, i) ==
    LET k == SkipWhitespace(s, i)
        after == ScanComment(s, k + 1)
    IN  IF At(s, k) # Slash THEN k ELSE IF after = 0 THEN 0 ELSE SkipComments(s, after)

Literals == [literal_true |-> <<116, 114, 117, 101>>,
             literal_false |-> <<102, 97, 108, 115, 101>>,
             literal_null |-> <<110, 117, 108, 108>>]

ScanLiteral(s, i, type) ==
    IF SubSeq(s, i, i + Len(Literals[type]) - 1) = Literals[type]
    THEN Token(type, i + Len(Literals[type]), <<>>) ELSE LexError

Structural ==
    [c \in {91, 93, 123, 125, 58, 44} |->
        CASE c = 91 -> "begin_array" [] c = 93 -> "end_array"
          [] c = 123 -> "begin_object" [] c = 125 -> "end_object"
          [] c = 58 -> "name_separator" [] c = 44 -> "value_separator"]

\* The token that starts at i, which is no blank.
ScanToken(s, i) ==
    LET c == At(s, i)
    IN  CASE c \in DOMAIN Structural -> Token(Structural[c], i + 1, <<>>)
          [] c = Quote -> ScanString(s, i + 1, <<>>)
          [] c \in Digits \cup {Minus} -> ScanNumber(s, i, "init", "value_unsigned", <<>>)
          [] c \in {EOF, 0} -> Token("end_of_input", i, <<>>)
          [] c \in {116, 102, 110} /\ i + 3 <= Len(s) ->
                LET types == {l \in DOMAIN Literals : Literals[l][1] = c}
                IN  IF \A l \in types : i + Len(Literals[l]) - 1 <= Len(s)
                    THEN ScanLiteral(s, i, CHOOSE l \in types : TRUE) ELSE LexError
          [] OTHER -> LexError

\* skip_bom: where the text starts, or 0.
SkipBom(s) ==
    IF At(s, 1) # 239 THEN 1 ELSE IF At(s, 2) = 187 /\ At(s, 3) = 191 THEN 4 ELSE 0

Scan(s, i, ignore_comments) ==
    LET start == IF i = 1 THEN SkipBom(s) ELSE i
        first == IF start = 0 THEN 0
                 ELSE IF ignore_comments THEN SkipComments(s, start)
                 ELSE SkipWhitespace(s, start)
    IN  IF first = 0 THEN LexError ELSE ScanToken(s, first)

\* All the tokens of a text up to the end or the first error.
RECURSIVE TokensFrom(_, _, _)
TokensFrom(s, t, ignore_comments) ==
    <<t>> \o (IF t.type \in {"parse_error", "end_of_input"} THEN <<>>
              ELSE TokensFrom(s, Scan(s, t.next, ignore_comments), ignore_comments))
Tokens(s, i, ignore_comments) == TokensFrom(s, Scan(s, i, ignore_comments), ignore_comments)

=============================================================================
