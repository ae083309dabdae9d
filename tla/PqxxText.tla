------------------------------- MODULE PqxxText -------------------------------
(***************************************************************************)
(* The texts in which libpqxx exchanges values with the server: lines of   *)
(* COPY, arrays, composite values and binary strings.  A field is a        *)
(* sequence of bytes or NullField.  Reading takes a text glyph by glyph,   *)
(* so most readers work on its glyphs; one that throws gives Refused.      *)
(***************************************************************************)
EXTENDS PqxxEncodings, SequencesExt

NullField == <<-1>>
Refused == << <<-2>> >>

Tab == 9
Comma == 44
DoubleQuote == 34
SingleQuote == 39
ReverseSolidus == 92
LetterN == 78
NullText == <<78, 85, 76, 76>>

Bytes(glyphs) == FlattenSeq(glyphs)


(***************************************************************************)
(* Lines of COPY: stream_to and stream_from.                               *)
(***************************************************************************)
CopyLetters == 8 :> 98 @@ 12 :> 102 @@ 10 :> 110 @@ 13 :> 114 @@ 9 :> 116 @@ 11 :> 118 @@ 92 :> 92
\* Mutant: the last byte of a multibyte glyph is escaped as if it stood alone.
MutantEscapeGlyph(glyph) ==
    IF Last(glyph) \in DOMAIN CopyLetters
        THEN SubSeq(glyph, 1, Len(glyph) - 1) \o <<ReverseSolidus, CopyLetters[Last(glyph)]>> ELSE glyph
EscapeGlyph(glyph) ==
    IF Len(glyph) = 1 /\ glyph[1] \in DOMAIN CopyLetters
        THEN <<ReverseSolidus, CopyLetters[glyph[1]]>> ELSE glyph
EscapeFieldToBuffer(enc, data) ==
    Bytes([i \in DOMAIN Glyphs(enc, data) |-> EscapeGlyph(Glyphs(enc, data)[i])])
AppendToBuffer(enc, f) ==
    (IF f = NullField THEN <<ReverseSolidus, LetterN>> ELSE EscapeFieldToBuffer(enc, f)) \o <<Tab>>
\* Every field ends in a tab; the last tab is cut off.
WriteRow(enc, fields) ==
    Front(Bytes([i \in DOMAIN fields |-> AppendToBuffer(enc, fields[i])]))

Unescaped(c) ==
    IF \E d \in DOMAIN CopyLetters : CopyLetters[d] = c
        THEN CHOOSE d \in DOMAIN CopyLetters : CopyLetters[d] = c ELSE c
\* row: the fields that have ended, the one in progress (or NullField), and the
\* bytes that m_row holds.
EndField(row) ==
    [fields |-> Append(row.fields, row.field), field |-> <<>>,
     used |-> row.used + (IF row.field = NullField THEN 0 ELSE 1)]
\* What follows a null in its field takes room but is lost.
Put(row, bytes) ==
    [row EXCEPT !.field = IF @ = NullField THEN @ ELSE @ \o bytes, !.used = @ + Len(bytes)]
RefusedRow == [fields |-> Refused, field |-> <<>>, used |-> 0]
\* The byte after a backslash is taken as it is, even where it begins a glyph.
RECURSIVE ParseRest(_, _, _)
ParseRest(enc, line, row) ==
    LET width == GlyphWidth(enc, line)
        After(n) == SubSeq(line, n + 1, Len(line))
    IN  CASE line = <<>> -> EndField(row)
          [] line # <<>> /\ width = 0 -> RefusedRow
          [] line # <<>> /\ width = 1 /\ line[1] = Tab -> ParseRest(enc, After(1), EndField(row))
          [] line # <<>> /\ width = 1 /\ line[1] = ReverseSolidus ->
                CASE Len(line) = 1 -> RefusedRow
                  [] Len(line) > 1 /\ line[2] = LetterN ->
                        IF row.field # <<>> THEN RefusedRow
                        ELSE ParseRest(enc, After(2), [row EXCEPT !.field = NullField])
                  [] OTHER -> ParseRest(enc, After(2), Put(row, <<Unescaped(line[2])>>))
          [] OTHER -> ParseRest(enc, After(width), Put(row, SubSeq(line, 1, width)))
ParseLine(enc, line) == ParseRest(enc, line, [fields |-> <<>>, field |-> <<>>, used |-> 0])


(***************************************************************************)
(* Quoted texts, of arrays and composite values.                           *)
(***************************************************************************)
\* Quoting is byte by byte, whatever the encoding.
QuoteBytes(bytes) ==
    <<DoubleQuote>>
    \o Bytes([i \in DOMAIN bytes |->
                 IF bytes[i] \in {DoubleQuote, ReverseSolidus} THEN <<ReverseSolidus, bytes[i]>>
                 ELSE <<bytes[i]>>])
    \o <<DoubleQuote>>

\* The end of the quoted text that begins at i: the position after its closing
\* quote, or 0 if it has none.
RECURSIVE ScanQuoted(_, _, _)
ScanQuoted(g, i, at_quote) ==
    CASE i > Len(g) -> IF at_quote THEN i ELSE 0
      [] i <= Len(g) /\ at_quote -> IF g[i] = <<DoubleQuote>> THEN ScanQuoted(g, i + 1, FALSE) ELSE i
      [] i <= Len(g) /\ ~at_quote ->
            CASE g[i] = <<ReverseSolidus>> -> ScanQuoted(g, i + 2, FALSE)
              [] g[i] = <<DoubleQuote>> -> ScanQuoted(g, i + 1, TRUE)
              [] OTHER -> ScanQuoted(g, i + 1, FALSE)
ScanDoubleQuotedString(g, i) == ScanQuoted(g, i + 1, FALSE)
\* The glyphs from i up to the closing quote at stop - 1, without escapes.
RECURSIVE Unquote(_, _, _, _)
Unquote(g, i, stop, escapes) ==
    CASE i >= stop - 1 -> <<>>
      [] i < stop - 1 /\ (\E c \in escapes : g[i] = <<c>>) ->
            g[i + 1] \o Unquote(g, i + 2, stop, escapes)
      [] OTHER -> g[i] \o Unquote(g, i + 1, stop, escapes)
ParseDoubleQuotedString(g, i, stop) == Unquote(g, i + 1, stop, {DoubleQuote, ReverseSolidus})

\* A single-quoted text: a second quote or a backslash continues it.
RECURSIVE ScanSingle(_, _)
ScanSingle(g, i) ==
    LET here == FindChar({ReverseSolidus, SingleQuote}, g, i)
    IN  CASE here > Len(g) -> 0
          [] here <= Len(g) /\ g[here] = <<ReverseSolidus>> -> ScanSingle(g, here + 2)
          [] OTHER -> IF here < Len(g) /\ g[here + 1] = <<SingleQuote>> THEN ScanSingle(g, here + 2)
                      ELSE here + 1
ScanSingleQuotedString(g, i) == ScanSingle(g, i + 1)
ParseSingleQuotedString(g, i, stop) == Unquote(g, i + 1, stop, {SingleQuote, ReverseSolidus})

\* An unquoted text ends at a stop.  The code means to skip a stop after a
\* backslash, but has forgotten the backslash when it gets to the stop.
ScanUnquotedString(stops, g, i) == FindChar(stops, g, i)
\* A backslash is left out, unless it follows one that was.
RECURSIVE Unquoted(_, _, _, _)
Unquoted(g, i, stop, at_backslash) ==
    IF i >= stop THEN <<>>
    ELSE LET now == ~at_backslash /\ g[i] = <<ReverseSolidus>>
         IN  (IF now THEN <<>> ELSE g[i]) \o Unquoted(g, i + 1, stop, now)
ParseUnquotedString(g, i, stop) == Unquoted(g, i, stop, FALSE)

\* An array of strings.
ArrayElement(f) == (IF f = NullField THEN NullText ELSE QuoteBytes(f)) \o <<Comma>>
ArrayIntoBuf(fields) ==
    LET text == Bytes([i \in DOMAIN fields |-> ArrayElement(fields[i])])
    IN  <<123>> \o (IF fields = <<>> THEN text ELSE Front(text)) \o <<125>>

\* array_parser::get_next at position i: what it finds and where it goes on.
Juncture(found, value, stop) == [found |-> found, value |-> value, stop |-> stop]
JunctureAt(g, i) ==
    LET double == ScanDoubleQuotedString(g, i)
        single == ScanSingleQuotedString(g, i)
        unquoted == ScanUnquotedString({Comma, 59, 125}, g, i)
        text == ParseUnquotedString(g, i, unquoted)
    IN  CASE g[i] = <<0>> -> Juncture("failure", <<>>, 0)
          [] g[i] = <<123>> -> Juncture("row_start", <<>>, i + 1)
          [] g[i] = <<125>> -> Juncture("row_end", <<>>, i + 1)
          [] g[i] = <<SingleQuote>> ->
                IF single = 0 THEN Juncture("failure", <<>>, 0)
                ELSE Juncture("string_value", ParseSingleQuotedString(g, i, single), single)
          [] g[i] = <<DoubleQuote>> ->
                IF double = 0 THEN Juncture("failure", <<>>, 0)
                ELSE Juncture("string_value", ParseDoubleQuotedString(g, i, double), double)
          [] OTHER ->
                IF text = NullText THEN Juncture("null_value", <<>>, unquoted)
                ELSE Juncture("string_value", text, unquoted)
GetNext(g, i) ==
    LET j == JunctureAt(g, i)
    IN  IF j.stop \in DOMAIN g /\ g[j.stop] \in {<<Comma>>, <<59>>}
            THEN [j EXCEPT !.stop = @ + 1] ELSE j
RECURSIVE JuncturesFrom(_, _)
JuncturesFrom(g, j) ==
    <<[found |-> j.found, value |-> j.value]>>
    \o (IF j.found = "failure" \/ j.stop > Len(g) THEN <<>> ELSE JuncturesFrom(g, GetNext(g, j.stop)))
Junctures(g, i) == IF i > Len(g) THEN <<>> ELSE JuncturesFrom(g, GetNext(g, i))
ParseArray(enc, text) ==
    IF IsText(enc, text) THEN Junctures(Glyphs(enc, text), 1) ELSE <<[found |-> "failure", value |-> <<>>]>>

\* A composite value of strings that are not null.  The last comma is cut off
\* only where there are several fields.
CompositeIntoBuf(fields) ==
    LET text == Bytes([i \in DOMAIN fields |-> QuoteBytes(fields[i]) \o <<Comma>>])
    IN  <<40>> \o (IF Len(fields) > 1 THEN Front(text) ELSE text) \o <<41>>
\* One field at i, of a value whose fields are numbered up to last.
ParseCompositeField(g, i, index, last) ==
    LET quoted == ScanDoubleQuotedString(g, i)
        unquoted == ScanUnquotedString({Comma, 41, 93}, g, i)
        isNull == g[i] \in {<<Comma>>, <<41>>, <<93>>}
        stop == CASE isNull -> i
                  [] g[i] = <<DoubleQuote>> -> quoted
                  [] OTHER -> unquoted
        value == CASE isNull -> NullField
                   [] g[i] = <<DoubleQuote>> -> ParseDoubleQuotedString(g, i, quoted)
                   [] OTHER -> ParseUnquotedString(g, i, unquoted)
        fits == /\ stop \in DOMAIN g
                /\ IF index < last THEN g[stop] = <<Comma>>
                   ELSE g[stop] \in {<<41>>, <<93>>} /\ stop = Len(g)
    IN  IF i \in DOMAIN g /\ Len(g[i]) = 1 /\ fits THEN [ok |-> TRUE, value |-> value, next |-> stop + 1]
        ELSE [ok |-> FALSE, value |-> <<>>, next |-> 0]
RECURSIVE CompositeFields(_, _, _, _)
CompositeFields(g, i, index, last) ==
    IF index > last THEN <<>>
    ELSE LET field == ParseCompositeField(g, i, index, last)
         IN  IF field.ok THEN <<field.value>> \o CompositeFields(g, field.next, index + 1, last)
             ELSE Refused
ParseComposite(enc, text, count) ==
    LET g == Glyphs(enc, text)
    IN  IF text # <<>> /\ g[1] = <<40>> /\ Last(text) = 41 THEN CompositeFields(g, 2, 0, count - 1)
        ELSE Refused


(***************************************************************************)
(* Binary strings, in hexadecimal.                                         *)
(***************************************************************************)
NibbleDigit(n) == IF n < 10 THEN 48 + n ELSE 87 + n
Nibble(c) ==
    CASE BetweenInc(c, 48, 57) -> c - 48
      [] BetweenInc(c, 97, 102) -> c - 87
      [] BetweenInc(c, 65, 70) -> c - 55
      [] OTHER -> -1
EscBin(bytes) ==
    <<ReverseSolidus, 120>>
    \o Bytes([i \in DOMAIN bytes |-> <<NibbleDigit(bytes[i] \div 16), NibbleDigit(bytes[i] % 16)>>])
UnescBin(text) ==
    IF \/ Len(text) < 2 \/ Len(text) % 2 # 0
       \/ text[1] # ReverseSolidus \/ text[2] # 120
       \/ \E i \in 3 .. Len(text) : Nibble(text[i]) < 0
        THEN NullField
    ELSE [i \in 1 .. Len(text) \div 2 - 1 |->
             16 * Nibble(text[2 * i + 1]) + Nibble(text[2 * i + 2])]

=============================================================================
