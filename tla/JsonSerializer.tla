---------------------------- MODULE JsonSerializer ----------------------------
(***************************************************************************)
(* include/nlohmann/json.hpp, class serializer: from values to text.  The  *)
(* server answers every request with it.                                   *)
(***************************************************************************)
EXTENDS JsonParser

CONSTANT BufferSize     \* of string_buffer, 512 in the code

ASSUME BufferSizeAssumption == BufferSize \in Nat /\ BufferSize >= 16

(***************************************************************************)
(* decode: the automaton that checks UTF-8.                                *)
(***************************************************************************)
UTF8_ACCEPT == 0
UTF8_REJECT == 1

\* The class of a byte, utf8d[byte].
ByteType(byte) ==
    CASE byte \in 0 .. 127 -> 0
      [] byte \in 128 .. 143 -> 1
      [] byte \in 144 .. 159 -> 9
      [] byte \in 160 .. 191 -> 7
      [] byte \in {192, 193} \cup 245 .. 255 -> 8
      [] byte \in 194 .. 223 -> 2
      [] byte = 224 -> 10
      [] byte = 237 -> 4
      [] byte = 240 -> 11
      [] byte \in 241 .. 243 -> 6
      [] byte = 244 -> 5
      [] OTHER -> 3

\* The state after a byte of the class, utf8d[256 + 16 * state + type].
NextState(state, type) ==
    CASE state = 0 -> <<0, 1, 2, 3, 5, 8, 7, 1, 1, 1, 4, 6>>[type + 1]
      [] state = 2 /\ type \in {1, 7, 9} -> 0
      [] <<state, type>> \in ({3} \X {1, 7, 9}) \cup {<<4, 7>>, <<5, 1>>, <<5, 9>>} -> 2
      [] <<state, type>> \in ({7} \X {1, 7, 9}) \cup {<<6, 7>>, <<6, 9>>, <<8, 1>>} -> 3
      [] OTHER -> UTF8_REJECT

\* The code point so far.
NextCodepoint(state, codep, byte) ==
    IF state # UTF8_ACCEPT THEN (byte % 64) + 64 * codep
    ELSE IF ByteType(byte) > 8 THEN 0 ELSE byte % (2 ^ (8 - ByteType(byte)))

(***************************************************************************)
(* dump_escaped.                                                           *)
(***************************************************************************)
HexText(n) ==
    LET digit(d) == IF d < 10 THEN 48 + d ELSE 87 + d
    IN  <<digit(n \div 4096), digit((n \div 256) % 16), digit((n \div 16) % 16), digit(n % 16)>>

EscapeU(n) == <<Backslash, 117>> \o HexText(n)

ShortEscapes == {8, 9, 10, 12, 13, Quote, Backslash}

\* What an accepted code point adds to the buffer; without an escape it is its last
\* byte, the others are there already.
EscapeCodepoint(cp, byte, ensure_ascii) ==
    CASE cp \in ShortEscapes ->
            <<Backslash, CHOOSE c \in DOMAIN SimpleEscapes : SimpleEscapes[c] = cp>>
      [] cp \notin ShortEscapes /\ (cp <= 31 \/ (ensure_ascii /\ cp >= 127)) ->
            IF cp <= 65535 THEN EscapeU(cp)
            ELSE EscapeU(55232 + cp \div 1024) \o EscapeU(56320 + (cp % 1024))
      [] OTHER -> <<byte>>

Replacement(ensure_ascii) ==
    IF ensure_ascii THEN EscapeU(65533) ELSE <<239, 191, 189>>

EscapeStart == [state |-> UTF8_ACCEPT, codepoint |-> 0, buffer |-> <<>>,
                accepted |-> 0, undumped |-> 0, out |-> <<>>, thrown |-> FALSE]

\* The buffer is written out when a longest escape no longer fits.
Flush(e) ==
    LET full == BufferSize - Len(e.buffer) < 13
        f == IF full THEN [e EXCEPT !.out = @ \o e.buffer, !.buffer = <<>>] ELSE e
    IN  [f EXCEPT !.accepted = Len(f.buffer), !.undumped = 0]

\* UTF8_REJECT: throw, or drop what has been kept of the broken character.
Reject(e, error_handler, ensure_ascii) ==
    LET kept == [e EXCEPT !.buffer = SubSeq(@, 1, e.accepted), !.undumped = 0,
                          !.state = UTF8_ACCEPT]
    IN  CASE error_handler = "strict" -> [e EXCEPT !.thrown = TRUE]
          [] error_handler = "ignore" -> kept
          [] error_handler = "replace" ->
                Flush([kept EXCEPT !.buffer = @ \o Replacement(ensure_ascii)])

\* Mutant: the byte that ends a broken character is dropped with it.
MutantRereads(e) == FALSE
\* A byte that is rejected inside a character is looked at again.
Rereads(e) == e.undumped > 0

RECURSIVE EscapeFrom(_, _, _, _, _)
EscapeFrom(s, i, e, error_handler, ensure_ascii) ==
    IF i > Len(s) \/ e.thrown THEN e
    ELSE LET codepoint == NextCodepoint(e.state, e.codepoint, s[i])
             state == NextState(e.state, ByteType(s[i]))
             f == [e EXCEPT !.state = state, !.codepoint = codepoint]
         IN  CASE state = UTF8_ACCEPT ->
                    EscapeFrom(s, i + 1,
                               Flush([f EXCEPT !.buffer =
                                        @ \o EscapeCodepoint(codepoint, s[i], ensure_ascii)]),
                               error_handler, ensure_ascii)
               [] state = UTF8_REJECT ->
                    EscapeFrom(s, IF Rereads(e) THEN i ELSE i + 1,
                               Reject(f, error_handler, ensure_ascii),
                               error_handler, ensure_ascii)
               [] OTHER ->
                    EscapeFrom(s, i + 1,
                               [f EXCEPT !.undumped = @ + 1,
                                         !.buffer = IF ensure_ascii THEN @ ELSE Append(@, s[i])],
                               error_handler, ensure_ascii)

\* The escaped string, or thrown.  A character that the string ends in is broken too.
DumpEscaped(s, error_handler, ensure_ascii) ==
    LET e == EscapeFrom(s, 1, EscapeStart, error_handler, ensure_ascii)
        whole == e.state = UTF8_ACCEPT
    IN  [thrown |-> e.thrown \/ (~whole /\ error_handler = "strict"),
         text |-> CASE whole -> e.out \o e.buffer
                    [] ~whole /\ error_handler = "replace" ->
                         e.out \o SubSeq(e.buffer, 1, e.accepted) \o Replacement(ensure_ascii)
                    [] OTHER -> e.out \o SubSeq(e.buffer, 1, e.accepted)]

(***************************************************************************)
(* Numbers.                                                                *)
(***************************************************************************)
\* count_digits goes in steps of four.
RECURSIVE CountDigits(_)
CountDigits(x) ==
    IF x < 10000 THEN IF x < 10 THEN 1 ELSE IF x < 100 THEN 2 ELSE IF x < 1000 THEN 3 ELSE 4
    ELSE 4 + CountDigits(x \div 10000)

\* dump_integer: n_chars characters are filled from the end, two digits at a time.
RECURSIVE FillDigits(_, _)
FillDigits(x, n) ==
    IF x >= 100
    THEN FillDigits(x \div 100, n - 2) \o <<48 + ((x % 100) \div 10), 48 + (x % 10)>>
    ELSE IF x >= 10 THEN <<48 + (x \div 10), 48 + (x % 10)>> ELSE <<48 + x>>

DumpInteger(x) ==
    LET abs_value == IF x < 0 THEN -(x + 1) + 1 ELSE x
        digits == FillDigits(abs_value, CountDigits(abs_value))
    IN  IF x = 0 THEN <<Zero>>
        ELSE SubSeq(IF x < 0 THEN <<Minus>> \o digits ELSE digits, 1,
                    CountDigits(abs_value) + IF x < 0 THEN 1 ELSE 0)

Zeros(n) == [k \in 1 .. n |-> Zero]

AppendExponent(e) ==
    LET k == IF e < 0 THEN -e ELSE e
    IN  <<IF e < 0 THEN Minus ELSE Plus>>
        \o (IF k < 10 THEN <<Zero, 48 + k>>
            ELSE IF k < 100 THEN <<48 + (k \div 10), 48 + (k % 10)>>
            ELSE <<48 + (k \div 100), 48 + ((k % 100) \div 10), 48 + (k % 10)>>)

MinExp == -4
MaxExp == 15

\* What tells a whole floating-point number from an integer.
WholeTail == <<Dot, Zero>>

FormatBuffer(digits, exponent) ==
    LET k == Len(digits)
        n == k + exponent
    IN  CASE k <= n /\ n <= MaxExp -> digits \o Zeros(n - k) \o WholeTail
          [] k > n /\ 0 < n /\ n <= MaxExp ->
                SubSeq(digits, 1, n) \o <<Dot>> \o SubSeq(digits, n + 1, k)
          [] MinExp < n /\ n <= 0 -> <<Zero, Dot>> \o Zeros(-n) \o digits
          [] OTHER ->
                <<digits[1]>> \o (IF k = 1 THEN <<>> ELSE <<Dot>> \o Tail(digits))
                \o <<101>> \o AppendExponent(n - 1)

\* to_chars, with the shortest digits that grisu2 finds taken for the number itself.
ToChars(x) ==
    (IF x.negative THEN <<Minus>> ELSE <<>>)
    \o (IF x.digits = <<>> THEN <<Zero, Dot, Zero>> ELSE FormatBuffer(x.digits, x.exponent))

DumpFloat(x) == IF IsFinite(x) THEN ToChars(x) ELSE Literals.literal_null

(***************************************************************************)
(* dump.                                                                   *)
(***************************************************************************)
NewLine(pretty, indent) == IF pretty THEN <<10>> \o [k \in 1 .. indent |-> 32] ELSE <<>>

Quoted(s, ensure_ascii) ==
    <<Quote>> \o DumpEscaped(s, "strict", ensure_ascii).text \o <<Quote>>

\* The members of an object or the elements of an array between brackets.
Bracketed(open, close, parts, pretty, indent, step) ==
    LET inner == NewLine(pretty, indent + step)
        RECURSIVE joined(_)
        joined(k) == IF k = 1 THEN inner \o parts[1]
                     ELSE joined(k - 1) \o <<44>> \o inner \o parts[k]
    IN  IF parts = <<>> THEN <<open, close>>
        ELSE <<open>> \o joined(Len(parts)) \o NewLine(pretty, indent) \o <<close>>

RECURSIVE Dump(_, _, _, _, _)
Dump(v, pretty, ensure_ascii, step, indent) ==
    LET colon == IF pretty THEN <<58, 32>> ELSE <<58>>
        inner == indent + step
        keys == IF v[1] = "object" THEN InOrder(DOMAIN v[2]) ELSE <<>>
    IN  CASE v[1] = "object" ->
                Bracketed(123, 125,
                          [k \in DOMAIN keys |->
                              Quoted(keys[k], ensure_ascii) \o colon
                              \o Dump(v[2][keys[k]], pretty, ensure_ascii, step, inner)],
                          pretty, indent, step)
          [] v[1] = "array" ->
                Bracketed(91, 93,
                          [k \in DOMAIN v[2] |-> Dump(v[2][k], pretty, ensure_ascii, step, inner)],
                          pretty, indent, step)
          [] v[1] = "string" -> Quoted(v[2], ensure_ascii)
          [] v[1] = "boolean" -> IF v[2] THEN Literals.literal_true ELSE Literals.literal_false
          [] v[1] \in {"integer", "unsigned"} -> DumpInteger(v[2])
          [] v[1] = "float" -> DumpFloat(v[2])
          [] v[1] = "null" -> Literals.literal_null

=============================================================================
