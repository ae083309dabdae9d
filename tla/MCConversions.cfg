CONSTANTS
    IntegerBits = 17
    MaxExponent = 300
    BufferSize = 16
    MaxTokens = 10
    MaxHopeless = 4
    MaxNumber = 6
    MaxString = 4
    StringBytes = {34, 110, 10, 128, 160, 194, 224, 237, 240, 244}
    MaxText = 6
    MaxBytes = 3
    MaxRow = 4
    MaxDigits = 4
    RowBytes = {9, 34, 44, 48, 78, 92, 125, 129, 142, 161, 195, 227}
SPECIFICATION Spec
INVARIANTS
    ParsesTheGrammar
    CallbackFilters
    ScansTokens
    DumpReadsBack
    PathsAgree
    PatchesAgree
    ContainersAgree
    BinaryReadsBack
    TruncationDetected
    TextReadsBack
    NumbersReadBack
CHECK_DEADLOCK FALSE
