---------------------------- MODULE MCConversions ----------------------------
(***************************************************************************)
(* The inputs on which the conversions of json.hpp and libpqxx are         *)
(* checked: all short texts, numbers, strings, comments, rows and          *)
(* sequences of bytes, pairs of small documents and of ranges, and values  *)
(* at the limits of the formats.                                           *)
(***************************************************************************)
EXTENDS JsonTexts, JsonDocuments, JsonBinaries, PqxxValues

CONSTANTS
    MaxTokens,      \* bound: tokens of a text
    MaxHopeless,    \* bound: tokens of a text in error, to grow it further
    MaxNumber,      \* bound: characters of a number
    MaxString,      \* bound: bytes of a string
    MaxText,        \* bound: characters of a text with comments
    MaxBytes,       \* bound: bytes of an input in a binary format
    MaxRow,         \* bound: bytes, breaks and nulls of a row
    MaxDigits       \* bound: pieces of a number for libpqxx

Alphabet ==
    CASE kind = "tokens" -> TokenAlphabet
      [] kind = "number" -> NumberAlphabet
      [] kind = "string" -> StringBytes
      [] kind = "pieces" -> Piece
      [] kind = "comment" -> CommentAlphabet
      [] kind = "documents" -> Documents
      [] kind = "value" -> Values
      [] kind = "binary" -> BinaryInputs
      [] kind = "bytes" -> ByteAlphabet
      [] kind = "row" -> RowAlphabet
      [] kind = "text" -> TextAlphabet
      [] kind = "date" -> DateAlphabet
      [] kind = "ranges" -> RangeAlphabet
Bound ==
    CASE kind = "tokens" -> MaxTokens
      [] kind = "number" -> MaxNumber
      [] kind \in {"string", "pieces"} -> MaxString
      [] kind = "comment" -> MaxText
      [] kind \in {"documents", "ranges"} -> 2
      [] kind = "bytes" -> MaxBytes
      [] kind = "row" -> MaxRow
      [] kind = "text" -> MaxDigits
      [] kind \in {"value", "binary", "date"} -> 1

Init ==
    /\ kind \in {"tokens", "number", "string", "pieces", "comment", "documents", "value", "binary", "bytes",
                "row", "text", "date", "ranges"}
    /\ input = <<>>

\* An input grows by one symbol; a text that is in error already grows less far.
Hopeless ==
    kind = "tokens" /\ Run(<<>>, input, 1, ParserStart, DomStart).parser.mode = "error"
Grow ==
    /\ Len(input) < (IF Hopeless THEN MaxHopeless ELSE Bound)
    /\ \E c \in Alphabet : input' = Append(input, c)
    /\ UNCHANGED kind

Spec == Init /\ [][Grow]_vars

=============================================================================
