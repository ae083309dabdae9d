------------------------------ MODULE JsonTexts ------------------------------
(***************************************************************************)
(* The lexer, the parser and the serializer of json.hpp on short inputs,   *)
(* against reference definitions written from the grammar of JSON (RFC     *)
(* 8259) and of UTF-8 (RFC 3629).                                          *)
(***************************************************************************)
EXTENDS JsonSerializer, JsonInputs

CONSTANT StringBytes    \* the bytes strings are made of

\* Tokens as the lexer makes them, with two keys and one number.
Tok(type) == Token(type, 0, <<>>)
TokenAlphabet ==
    {Tok(Structural[c]) : c \in DOMAIN Structural}
    \cup {Token("value_string", 0, <<97>>), Token("value_string", 0, <<98>>),
          Token("value_unsigned", 0, <<Zero>>), Tok("parse_error")}
EndOfInput == Tok("end_of_input")

NumberAlphabet == {Minus, Plus, Dot, Zero, 57, 101, 32}

\* Pieces of strings: a high and a low surrogate, a letter, a newline, an escape
\* that is none, a lead byte and a continuation byte.
Surrogate(c, d) == <<Backslash, 117, 100, c, d, 100>>
High == Surrogate(56, 51)
Low == Surrogate(101, 48)
Piece == {High, Low, <<Backslash, 117, 48, 48, 52, 49>>, <<Backslash, 110>>,
          <<Backslash, 117, 48, 48, 103, 48>>, <<237>>, <<160>>, <<128>>}

\* Brackets, a digit, blanks and what comments are made of.
CommentAlphabet == {91, 93, Zero, 32, 10, Slash, Star}

\* Values up to a depth.
Decimal(negative, digits, exponent) ==
    <<"float", [negative |-> negative, digits |-> digits, exponent |-> exponent]>>
Leaves ==
    {Null, Boolean(TRUE), Boolean(FALSE), String(<<>>), String(<<34, 10, 240, 144, 128, 128>>),
     Decimal(FALSE, <<>>, 0)}
    \cup {<<"unsigned", n>> : n \in {0, 9, 10, 99, 100, 999, 1000, 9999, 10000, 99999, 100000}}
    \cup {<<"integer", -n>> : n \in {1, 10, 2 ^ (IntegerBits - 1)}}
    \cup {Decimal(b, d, e) : b \in BOOLEAN, d \in {<<49>>, <<49, 48, 50>>}, e \in -8 .. 18}
    \cup {Decimal(FALSE, <<57>>, e) : e \in {-290, 290}}
Inner == {Null, String(<<92>>), <<"unsigned", 7>>, Array(<<>>), Object(NoMembers)}
Nested ==
    {Array(a) : a \in UNION {[1 .. n -> Inner] : n \in 0 .. 3}}
    \cup {Object(f) : f \in UNION {[K -> Inner] : K \in SUBSET {<<>>, <<97>>, <<97, 34>>}}}
Values ==
    Leaves \cup Nested \cup {Array(<<v>>) : v \in Nested}
    \cup {Object(Member(<<98>>, v)) : v \in Nested}


(***************************************************************************)
(* The grammar of texts, by recursive descent.                             *)
(***************************************************************************)
Failed == [next |-> 0, value |-> Null]
TypeAt(t, i) == IF i <= Len(t) THEN t[i].type ELSE "end_of_input"

RECURSIVE RefValue(_, _), RefElements(_, _, _), RefMembers(_, _, _)
RefValue(t, i) ==
    CASE TypeAt(t, i) \in Scalars -> [next |-> i + 1, value |-> ScalarValue(t[i])]
      [] TypeAt(t, i) = "begin_array" ->
            IF TypeAt(t, i + 1) = "end_array" THEN [next |-> i + 2, value |-> Array(<<>>)]
            ELSE RefElements(t, i + 1, <<>>)
      [] TypeAt(t, i) = "begin_object" ->
            IF TypeAt(t, i + 1) = "end_object" THEN [next |-> i + 2, value |-> Object(NoMembers)]
            ELSE RefMembers(t, i + 1, NoMembers)
      [] OTHER -> Failed
RefElements(t, i, elements) ==
    LET v == RefValue(t, i)
        all == Append(elements, v.value)
    IN  CASE v.next = 0 -> Failed
          [] v.next # 0 /\ TypeAt(t, v.next) = "value_separator" -> RefElements(t, v.next + 1, all)
          [] v.next # 0 /\ TypeAt(t, v.next) = "end_array" ->
                [next |-> v.next + 1, value |-> Array(all)]
          [] OTHER -> Failed
RefMembers(t, i, members) ==
    LET v == RefValue(t, i + 2)
        all == With(members, t[i].buffer, v.value)
    IN  CASE TypeAt(t, i) # "value_string" \/ TypeAt(t, i + 1) # "name_separator"
                \/ v.next = 0 -> Failed
          [] TypeAt(t, v.next) = "value_separator" -> RefMembers(t, v.next + 1, all)
          [] TypeAt(t, v.next) = "end_object" -> [next |-> v.next + 1, value |-> Object(all)]
          [] OTHER -> Failed

RefParse(t) ==
    LET v == RefValue(t, 1) IN IF v.next = Len(t) + 1 THEN v.value ELSE Discarded

\* The parser accepts exactly the texts of the grammar and builds the value the
\* grammar gives them, the last one of members with equal keys; no text is accepted
\* after an error (json.hpp:12347, sax_parse_internal).
ParsesTheGrammar ==
    kind = "tokens" => ParseTokens(Append(input, EndOfInput)) = RefParse(input)

\* What a callback that refuses an event right inside the outermost value drops there.
RefusedAt(event, v) ==
    CASE event \in {"start_object", "end_object"} -> v[1] = "object"
      [] event \in {"start_array", "end_array"} -> v[1] = "array"
      [] event = "value" -> v[1] \notin {"object", "array"}
      [] OTHER -> FALSE

\* The value without what is deeper than depth, without members of the name key and,
\* right inside the outermost value, without what is refused at the event.
RECURSIVE Prune(_, _, _, _)
Prune(v, depth, key, event) ==
    LET prune(x) == Prune(x, depth - 1, key, "none")
        names == {k \in DOMAIN v[2] : k # key /\ ~RefusedAt(event, v[2][k])}
        elements == SelectSeq(v[2], LAMBDA x : ~RefusedAt(event, x))
    IN  CASE v[1] = "array" ->
                Array(IF depth = 0 THEN <<>>
                      ELSE [k \in DOMAIN elements |-> prune(elements[k])])
          [] v[1] = "object" ->
                Object(IF depth = 0 THEN NoMembers ELSE [k \in names |-> prune(v[2][k])])
          [] OTHER -> v

Filters ==
    {<<depth, key, "none">> : depth \in {0, 1, 3}, key \in {<<98>>, <<99>>}}
    \cup {<<3, key, event>> : key \in {<<98>>, <<99>>},
              event \in {"start_object", "end_object", "start_array", "end_array", "value"}}

\* The outermost value without the placeholders of members that were dropped.
Swept(v) ==
    IF v[1] = "object"
    THEN Object(Restrict(v[2], {k \in DOMAIN v[2] : v[2][k] # Discarded})) ELSE v

\* A callback that goes by the depth, by the names of members or by the event keeps
\* exactly what it says, whatever the stale entries of key_keep_stack: the three stacks
\* of the callback parser stay in step.  Refusing by depth or name, or refusing objects,
\* leaves nothing behind.  A member whose key was kept and whose value is then refused,
\* as a scalar, at start_array or at end_array, may stay as a discarded placeholder in
\* its object, never in an array, and that is all that is left of it
\* (json.hpp:6981, json_sax_dom_callback_parser).
CallbackFilters ==
    kind = "tokens" /\ Accept(Append(input, EndOfInput)) =>
        \A f \in Filters :
            LET t == Append(input, EndOfInput)
                left == ParseFiltered(f, t)
            IN  /\ Swept(left) = Prune(ParseTokens(t), f[1], f[2], f[3])
                /\ f[3] \in {"none", "start_object", "end_object"} => Swept(left) = left

(***************************************************************************)
(* The grammar of numbers: int [frac] [exp].                               *)
(***************************************************************************)
AllDigits(t) == t # <<>> /\ \A k \in DOMAIN t : t[k] \in Digits
IsInt(t) ==
    LET u == IF t # <<>> /\ t[1] = Minus THEN Tail(t) ELSE t
    IN  AllDigits(u) /\ (u[1] = Zero => Len(u) = 1)
IsFrac(t) == t = <<>> \/ (t[1] = Dot /\ AllDigits(Tail(t)))
IsExp(t) ==
    t = <<>> \/ (/\ t[1] \in Exponents /\ Len(t) > 1
                 /\ AllDigits(IF t[2] \in {Plus, Minus} THEN SubSeq(t, 3, Len(t)) ELSE Tail(t)))
IsNumber(t) ==
    \E i, k \in 0 .. Len(t) :
        i <= k /\ IsInt(SubSeq(t, 1, i)) /\ IsFrac(SubSeq(t, i + 1, k)) /\ IsExp(SubSeq(t, k + 1, Len(t)))

(***************************************************************************)
(* The grammar of UTF-8.                                                   *)
(***************************************************************************)
Scalar(b) ==
    CASE Len(b) = 1 -> b[1]
      [] Len(b) = 2 -> 64 * (b[1] - 192) + b[2] - 128
      [] Len(b) = 3 -> 4096 * (b[1] - 224) + 64 * (b[2] - 128) + b[3] - 128
      [] Len(b) = 4 -> 262144 * (b[1] - 240) + 4096 * (b[2] - 128) + 64 * (b[3] - 128) + b[4] - 128

\* The bytes of one character: the shortest encoding of a scalar value.
IsChar(b) ==
    /\ Len(b) \in 1 .. 4
    /\ \A k \in 2 .. Len(b) : b[k] \in 128 .. 191
    /\ b[1] \in <<0 .. 127, 192 .. 223, 224 .. 239, 240 .. 247>>[Len(b)]
    /\ Scalar(b) <= 1114111 /\ Scalar(b) \notin 55296 .. 57343
    /\ Scalar(b) >= <<0, 128, 2048, 65536>>[Len(b)]

\* The length of the character at the start of b, or 0.
CharLength(b) ==
    LET ls == {k \in 1 .. Len(b) : IsChar(SubSeq(b, 1, k))}
    IN  IF ls = {} THEN 0 ELSE CHOOSE k \in ls : TRUE

\* How many bytes at the start of b are the beginning of some character.
BeginsChar(b) == \E cont \in {<<128>>, <<160>>, <<144>>, <<128, 128>>, <<160, 128>>, <<144, 128>>,
                            <<144, 128, 128>>, <<128, 128, 128>>} : IsChar(b \o cont)
BrokenLength(b) ==
    LET ls == {k \in 1 .. Len(b) : BeginsChar(SubSeq(b, 1, k))}
    IN  IF ls = {} THEN 1 ELSE CHOOSE k \in ls : \A j \in ls : j <= k

\* The string with every longest broken character replaced.
RECURSIVE Repair(_, _)
Repair(b, replacement) ==
    IF b = <<>> THEN <<>>
    ELSE LET n == CharLength(b)
             m == BrokenLength(b)
         IN  IF n > 0 THEN SubSeq(b, 1, n) \o Repair(SubSeq(b, n + 1, Len(b)), replacement)
             ELSE replacement \o Repair(SubSeq(b, m + 1, Len(b)), replacement)

IsUtf8(b) == Repair(b, <<256>>) = b

\* What a sequence of pieces stands for: a pair of surrogates is one character, and
\* one without the other is an error.
RECURSIVE RefPieces(_, _)
RefPieces(p, i) ==
    LET rest(k) == RefPieces(p, k)
        put(bytes, k) == IF rest(k) = <<256>> THEN <<256>> ELSE bytes \o rest(k)
    IN  CASE i > Len(p) -> <<>>
          [] i < Len(p) /\ p[i] = High /\ p[i + 1] = Low -> put(<<240, 159, 152, 141>>, i + 2)
          [] i <= Len(p) /\ Len(p[i]) = 1 -> put(p[i], i + 1)
          [] i <= Len(p) /\ p[i] = <<Backslash, 110>> -> put(<<10>>, i + 1)
          [] i <= Len(p) /\ p[i] = <<Backslash, 117, 48, 48, 52, 49>> -> put(<<65>>, i + 1)
          [] OTHER -> <<256>>

(***************************************************************************)
(* Texts and values.                                                       *)
(***************************************************************************)
\* A text with a blank for every comment; <<0>> if a comment is not closed.
RECURSIVE WithoutComments(_)
WithoutComments(t) ==
    LET newlines == {k \in DOMAIN t : t[k] = 10}
        line == IF newlines = {} THEN Len(t) ELSE CHOOSE k \in newlines : \A j \in newlines : k <= j
        closes == {k \in 4 .. Len(t) : t[k - 1] = Star /\ t[k] = Slash}
        block == CHOOSE k \in closes : \A j \in closes : k <= j
        after(k) == WithoutComments(SubSeq(t, k + 1, Len(t)))
    IN  CASE t = <<>> -> <<>>
          [] t # <<>> /\ t[1] # Slash -> <<t[1]>> \o WithoutComments(Tail(t))
          [] Len(t) > 1 /\ t[1] = Slash /\ t[2] = Slash -> <<32>> \o after(line)
          [] Len(t) > 1 /\ t[1] = Slash /\ t[2] = Star /\ closes # {} -> <<32>> \o after(block)
          [] OTHER -> <<Slash>>

\* scan_number takes the longest number at the start of the text, or reports an error
\* when what looks like one does not end as one; it is an integer when it has neither
\* a fraction nor an exponent and fits (json.hpp:8341, scan_number).
ScansNumbers ==
    kind = "number" /\ input # <<>> /\ input[1] \in Digits \cup {Minus} =>
        LET t == ScanNumber(input, 1, "init", "value_unsigned", <<>>)
            prefixes == {k \in 1 .. Len(input) : IsNumber(SubSeq(input, 1, k))}
            ends == t.next - 1
            text == SubSeq(input, 1, ends)
            whole == \A k \in DOMAIN text : text[k] \in Digits \cup {Minus}
        IN  IF t.type = "parse_error"
            THEN \A k \in prefixes :
                    (\A j \in prefixes : j <= k)
                        => k < Len(input) /\ input[k + 1] \in {Dot} \cup Exponents
            ELSE /\ ends \in prefixes /\ \A k \in prefixes : k <= ends
                 /\ t.buffer = text
                 /\ (t.type = "value_float") <=>
                       (~whole \/ ~(IntegerValue(text)
                           \in (IF text[1] = Minus THEN -(2 ^ (IntegerBits - 1)) .. 0
                                ELSE 0 .. 2 ^ IntegerBits - 1)))

\* scan_string accepts exactly the strings whose escapes are complete, whose
\* surrogates come in pairs and whose bytes are UTF-8, and decodes them
\* (json.hpp:7626, scan_string; json.hpp:7541, get_codepoint).
DecodedAs(token, meant) ==
    LET raw == Repair(meant, <<256>>) = meant   \* no character's bytes are mixed with escapes
    IN  IF meant # <<256>> /\ raw
        THEN token.type = "value_string" /\ token.buffer = meant
        ELSE token.type = "parse_error"
StringsDecoded ==
    kind = "pieces" =>
        DecodedAs(ScanString(Append(FlattenSeq(input), Quote), 1, <<>>), RefPieces(input, 1))

\* With ignore_comments a comment is a blank, wherever it is and however it ends, and
\* an open one is an error (json.hpp:8216, scan_comment).
CommentsAreBlanks ==
    kind = "comment" => Parse(input, TRUE) = Parse(WithoutComments(input), FALSE)

\* The lexer is right about numbers, about strings and about comments.
ScansTokens == ScansNumbers /\ StringsDecoded /\ CommentsAreBlanks

\* A string that is written reads back as it was, whatever the buffer was flushed
\* at.  Broken UTF-8 makes dump() throw when it is strict; otherwise each longest
\* broken character is left out or replaced, and nothing else is lost
\* (json.hpp:18399, dump_escaped, with json.hpp:7626, scan_string).
ReadAs(token, text, repaired) ==
    token.type = "value_string" /\ token.next = Len(text) + 2 /\ token.buffer = repaired
StringsReadBack ==
    kind = "string" =>
        \A ascii \in BOOLEAN :
            /\ DumpEscaped(input, "strict", ascii).thrown <=> ~IsUtf8(input)
            /\ \A h \in {"ignore", "replace"} :
                  LET text == DumpEscaped(input, h, ascii).text
                  IN  /\ ReadAs(ScanString(Append(text, Quote), 1, <<>>), text,
                                Repair(input, IF h = "ignore" THEN <<>> ELSE <<239, 191, 189>>))
                      /\ ascii => \A k \in DOMAIN text : text[k] < 128

\* What dump() writes, indented or not, parses to the same value: literals, strings,
\* containers, integers at the limits of dump_integer's tables and floating-point
\* numbers in each of the layouts of format_buffer; binary, discarded and non-finite
\* values are not among the inputs (json.hpp:18115, dump; json.hpp:17887, format_buffer).
ValuesReadBack ==
    kind = "value" /\ input # <<>> =>
        \A pretty, ascii \in BOOLEAN :
            Parse(Dump(input[1], pretty, ascii, 2, 0), FALSE) = input[1]

\* What dump() writes reads back: the values, and every string however broken.
DumpReadsBack == StringsReadBack /\ ValuesReadBack

=============================================================================
