------------------------------ MODULE JsonParser ------------------------------
(***************************************************************************)
(* include/nlohmann/json.hpp: class parser, which turns tokens into SAX    *)
(* events without recursion, and the two consumers that build a value from *)
(* the events, json_sax_dom_parser and json_sax_dom_callback_parser.       *)
(*                                                                         *)
(* A value is a pair of its type and its content: the elements of an array *)
(* are a sequence, the members of an object a function from keys, and a    *)
(* floating-point number is a decimal fraction.                            *)
(***************************************************************************)
EXTENDS JsonLexer, SequencesExt, FiniteSets

CONSTANT MaxExponent    \* floating-point numbers with a larger one overflow

Null == <<"null", 0>>
Boolean(b) == <<"boolean", b>>
String(s) == <<"string", s>>
Array(elements) == <<"array", elements>>
Object(members) == <<"object", members>>
NoMembers == [k \in {} |-> Null]
Discarded == <<"discarded", 0>>
Member(key, value) == [k \in {key} |-> value]
\* operator[] and insertion: the last value of a key stays.
With(members, key, value) ==
    [k \in DOMAIN members \cup {key} |-> IF k = key THEN value ELSE members[k]]

\* op(v), where TLC evaluates v once.
Apply(op(_), v) == CHOOSE r \in {op(x) : x \in {v}} : TRUE

\* The order of the members of an object.
KeyLess(a, b) ==
    \E k \in 1 .. Len(b) :
        /\ \A j \in 1 .. k - 1 : j <= Len(a) /\ a[j] = b[j]
        /\ k > Len(a) \/ a[k] < b[k]
InOrder(keys) ==
    [n \in 1 .. Cardinality(keys) |->
        CHOOSE k \in keys : Cardinality({j \in keys : KeyLess(j, k)}) = n - 1]

(***************************************************************************)
(* parser::sax_parse_internal.  mode says what the loop expects next and   *)
(* states is the stack of open arrays (TRUE) and objects (FALSE).          *)
(***************************************************************************)
ParserStart == [mode |-> "value", states |-> <<>>, event |-> <<"none", 0>>]

Scalars == {"value_string", "value_unsigned", "value_integer", "value_float", "literal_true",
            "literal_false", "literal_null"}

\* strtod: a decimal fraction, its digits without zeros at either end and the
\* exponent of the last one.
DecimalValue(text) ==
    LET negative == text[1] = Minus
        e == SelectInSeq(text, LAMBDA c : c \in Exponents)
        point == SelectInSeq(text, LAMBDA c : c = Dot)
        mantissaEnd == IF e = 0 THEN Len(text) ELSE e - 1
        digits == SelectSeq(SubSeq(text, 1, mantissaEnd), LAMBDA c : c \in Digits)
        written == IF e = 0 THEN 0
                   ELSE IntegerValue(SelectSeq(SubSeq(text, e + 1, Len(text)),
                                               LAMBDA c : c # Plus))
        fraction == IF point = 0 THEN 0 ELSE mantissaEnd - point
        significant == {k \in DOMAIN digits : digits[k] # Zero}
        first == CHOOSE k \in significant : \A j \in significant : k <= j
        last == CHOOSE k \in significant : \A j \in significant : k >= j
    IN  IF significant = {} THEN [negative |-> negative, digits |-> <<>>, exponent |-> 0]
        ELSE [negative |-> negative, digits |-> SubSeq(digits, first, last),
              exponent |-> written - fraction + Len(digits) - last]

IsFinite(decimal) == decimal.exponent + Len(decimal.digits) <= MaxExponent

ScalarValue(t) ==
    CASE t.type = "value_string" -> String(t.buffer)
      [] t.type = "value_unsigned" -> <<"unsigned", IntegerValue(t.buffer)>>
      [] t.type = "value_integer" -> <<"integer", IntegerValue(t.buffer)>>
      [] t.type = "value_float" -> <<"float", DecimalValue(t.buffer)>>
      [] t.type = "literal_true" -> Boolean(TRUE)
      [] t.type = "literal_false" -> Boolean(FALSE)
      [] t.type = "literal_null" -> Null

ParserError(p) == [p EXCEPT !.mode = "error", !.event = <<"none", 0>>]
Expect(p, mode) == [p EXCEPT !.mode = mode, !.event = <<"none", 0>>]

\* After a value: the end of the text, or whatever the container expects.
Evaluate(p, states, event) ==
    [mode |-> IF states = <<>> THEN "done" ELSE "after", states |-> states, event |-> event]

Open(p, array) ==
    [mode |-> IF array THEN "first value" ELSE "first key", states |-> Append(p.states, array),
     event |-> IF array THEN <<"start_array", 0>> ELSE <<"start_object", 0>>]

Close(p) ==
    Evaluate(p, Front(p.states),
             IF Last(p.states) THEN <<"end_array", 0>> ELSE <<"end_object", 0>>)

ParseValue(p, t) ==
    CASE t.type \in {"begin_object", "begin_array"} -> Open(p, t.type = "begin_array")
      [] t.type = "value_float" /\ ~IsFinite(DecimalValue(t.buffer)) -> ParserError(p)
      [] t.type \in Scalars -> Evaluate(p, p.states, <<"value", ScalarValue(t)>>)
      [] OTHER -> ParserError(p)

ParseKey(p, t) ==
    IF t.type = "value_string"
    THEN [p EXCEPT !.mode = "colon", !.event = <<"key", t.buffer>>] ELSE ParserError(p)

Closes(p, t) == t.type = (IF Last(p.states) THEN "end_array" ELSE "end_object")

\* Mutant: a comma may be followed by the end of the container.
MutantAfterComma(p) == Expect(p, IF Last(p.states) THEN "first value" ELSE "first key")
AfterComma(p) == Expect(p, IF Last(p.states) THEN "value" ELSE "key")

ParserStep(p, t) ==
    CASE p.mode = "error" -> p
      [] p.mode \in {"first value", "first key", "after"} /\ Closes(p, t) -> Close(p)
      [] p.mode \in {"value", "first value"} -> ParseValue(p, t)
      [] p.mode \in {"key", "first key"} -> ParseKey(p, t)
      [] p.mode = "colon" /\ t.type = "name_separator" -> Expect(p, "value")
      [] p.mode = "after" /\ t.type = "value_separator" -> AfterComma(p)
      [] OTHER -> ParserError(p)

(***************************************************************************)
(* json_sax_dom_parser.  ref_stack holds the containers under              *)
(* construction, innermost last, each with the key of its next member.     *)
(***************************************************************************)
Frame(value) == [value |-> value, key |-> <<>>]
DomStart == [root |-> Null, ref_stack |-> <<>>]

\* A value goes to the end of the array or under the key.
Attach(frame, value) ==
    IF frame.value[1] = "array"
    THEN [frame EXCEPT !.value = Array(Append(frame.value[2], value))]
    ELSE [frame EXCEPT !.value = Object(With(frame.value[2], frame.key, value))]

HandleValue(d, value) ==
    IF d.ref_stack = <<>> THEN [d EXCEPT !.root = value]
    ELSE [d EXCEPT !.ref_stack = Append(Front(@), Attach(Last(@), value))]

DomEvent(d, event) ==
    CASE event[1] = "value" -> HandleValue(d, event[2])
      [] event[1] = "key" -> [d EXCEPT !.ref_stack[Len(d.ref_stack)].key = event[2]]
      [] event[1] = "start_array" -> [d EXCEPT !.ref_stack = Append(@, Frame(Array(<<>>)))]
      [] event[1] = "start_object" -> [d EXCEPT !.ref_stack = Append(@, Frame(Object(NoMembers)))]
      [] event[1] \in {"end_array", "end_object"} ->
            HandleValue([d EXCEPT !.ref_stack = Front(@)], Last(d.ref_stack).value)
      [] OTHER -> d

(***************************************************************************)
(* json_sax_dom_callback_parser: the callback decides what stays.  A       *)
(* container that does not stay is Nothing in ref_stack, where the code    *)
(* has a null pointer.                                                     *)
(***************************************************************************)
\* Callbacks <<depth, key, event>> of the user: nothing deeper than depth stays, no
\* member of that name, and nothing right inside the outermost value for which the
\* callback is asked with that event ("none" is no event).
Keep(callback, depth, event, parsed) ==
    /\ depth <= callback[1]
    /\ event = "key" => parsed # String(callback[2])
    /\ depth = 1 => event # callback[3]

Nothing == [value |-> Discarded, key |-> <<>>]
CallbackStart == [root |-> Discarded, ref_stack |-> <<>>, keep_stack |-> <<TRUE>>,
                  key_keep_stack |-> <<>>]

\* Mutant: a value is stored whatever was decided about its key.
MutantStores(d) == d.ref_stack = <<>> \/ Last(d.ref_stack) # Nothing

\* A value that is kept goes somewhere: its container and its key are kept too.
Stores(d) ==
    \/ d.ref_stack = <<>>
    \/ Last(d.ref_stack) # Nothing
       /\ (Last(d.ref_stack).value[1] = "object" => Last(d.key_keep_stack))

\* The entry of the key is used up by a value that got as far as the object; that of a
\* refused value stays on the stack, under the entries of the keys that follow.
UseKey(d) ==
    IF d.ref_stack # <<>> /\ Last(d.ref_stack) # Nothing
       /\ Last(d.ref_stack).value[1] = "object"
    THEN [d EXCEPT !.key_keep_stack = Front(@)] ELSE d

CallbackValue(callback, d, value) ==
    IF ~Last(d.keep_stack) \/ ~Keep(callback, Len(d.ref_stack), "value", value) THEN d
    ELSE IF Stores(d) THEN HandleValue(UseKey(d), value) ELSE UseKey(d)

CallbackOpen(callback, d, event, value) ==
    LET kept == Keep(callback, Len(d.ref_stack), event, Discarded)
        f == [d EXCEPT !.keep_stack = Append(@, kept)]
    IN  IF ~kept THEN [f EXCEPT !.ref_stack = Append(@, Nothing)]
        ELSE [UseKey(f) EXCEPT !.ref_stack =
                 Append(@, IF Stores(f) THEN Frame(value) ELSE Nothing)]

CallbackKey(callback, d, key) ==
    LET kept == Keep(callback, Len(d.ref_stack), "key", String(key))
        top == Len(d.ref_stack)
        f == [d EXCEPT !.key_keep_stack = Append(@, kept)]
    IN  IF ~kept \/ d.ref_stack[top] = Nothing THEN f
        ELSE [f EXCEPT !.ref_stack[top] = Attach([@ EXCEPT !.key = key], Discarded)]

\* end_object removes the first discarded element of the enclosing container, whoever
\* left it there; end_array takes a refused array out of an array only.
Erase(frame) ==
    LET content == frame.value[2]
        gone == {k \in DOMAIN content : content[k] = Discarded}
        least == CHOOSE k \in gone : \A j \in gone \ {k} :
                    IF frame.value[1] = "array" THEN k < j ELSE KeyLess(k, j)
    IN  IF frame = Nothing \/ gone = {} THEN frame
        ELSE IF frame.value[1] = "array"
        THEN [frame EXCEPT !.value = Array(SubSeq(content, 1, least - 1)
                                           \o SubSeq(content, least + 1, Len(content)))]
        ELSE [frame EXCEPT !.value =
                 Object([k \in DOMAIN content \ {least} |-> content[k]])]

CallbackClose(callback, d, event) ==
    LET frame == Last(d.ref_stack)
        f == [d EXCEPT !.ref_stack = Front(@), !.keep_stack = Front(@)]
        kept == Keep(callback, Len(d.ref_stack) - 1, event, frame.value)
        inArray == f.ref_stack # <<>> /\ Last(f.ref_stack).value[1] = "array"
        closed == IF frame = Nothing \/ (~kept /\ event = "end_array" /\ inArray) THEN f
                  ELSE HandleValue(f, IF kept THEN frame.value ELSE Discarded)
    IN  IF event = "end_object" /\ f.ref_stack # <<>>
        THEN [closed EXCEPT !.ref_stack = Append(Front(@), Erase(Last(@)))]
        ELSE closed

CallbackEvent(callback, d, event) ==
    CASE event[1] = "value" -> CallbackValue(callback, d, event[2])
      [] event[1] = "key" -> CallbackKey(callback, d, event[2])
      [] event[1] = "start_array" -> CallbackOpen(callback, d, event[1], Array(<<>>))
      [] event[1] = "start_object" -> CallbackOpen(callback, d, event[1], Object(NoMembers))
      [] event[1] \in {"end_array", "end_object"} -> CallbackClose(callback, d, event[1])
      [] OTHER -> d

(***************************************************************************)
(* parser::parse, accept.  callback is <<>> if there is none.              *)
(***************************************************************************)
Consumer(callback) == IF callback = <<>> THEN DomStart ELSE CallbackStart
Consume(callback, d, event) ==
    IF callback = <<>> THEN DomEvent(d, event) ELSE CallbackEvent(callback, d, event)

\* The parser and the consumer after some tokens; an error stops both.
RECURSIVE Run(_, _, _, _, _)
Run(callback, tokens, i, p, d) ==
    IF i > Len(tokens) THEN [parser |-> p, dom |-> d]
    ELSE LET q == ParserStep(p, tokens[i])
         IN  Run(callback, tokens, i + 1, q, Consume(callback, d, q.event))

\* The tokens make a value and nothing follows it; a value that a callback dropped
\* altogether becomes null.
Outcome(r, last) ==
    CASE r.parser.mode # "done" \/ last.type # "end_of_input" -> Discarded
      [] r.parser.mode = "done" /\ last.type = "end_of_input" /\ r.dom.root = Discarded -> Null
      [] OTHER -> r.dom.root
ParseFiltered(callback, tokens) ==
    Outcome(Run(callback, Front(tokens), 1, ParserStart, Consumer(callback)), Last(tokens))

ParseTokens(tokens) == ParseFiltered(<<>>, tokens)
Accept(tokens) == ParseTokens(tokens) # Discarded
Parse(text, ignore_comments) == ParseTokens(Tokens(text, 1, ignore_comments))

=============================================================================
