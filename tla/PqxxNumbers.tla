----------------------------- MODULE PqxxNumbers -----------------------------
(***************************************************************************)
(* Integers of 16 bits, booleans, dates and ranges in libpqxx.  A text is  *)
(* a sequence of bytes; a reader that throws gives NotANumber or NoDate.   *)
(***************************************************************************)
EXTENDS PqxxText

Bottom == -32768
Top == 32767
NotANumber == 100000
IsDigitByte(c) == BetweenInc(c, 48, 57)


(***************************************************************************)
(* Integers.                                                               *)
(***************************************************************************)
RECURSIVE NonnegToBuf(_)
NonnegToBuf(value) ==
    (IF value < 10 THEN <<>> ELSE NonnegToBuf(value \div 10)) \o <<48 + (value % 10)>>
NegToBuf(value) == <<45>> \o NonnegToBuf(value)
\* The value that has no positive counterpart is negated as an unsigned number.
BottomToBuf == NegToBuf(Bottom % (2 * (Top + 1)))
ShortToBuf(value) ==
    CASE value >= 0 -> NonnegToBuf(value)
      [] value < 0 /\ value > Bottom -> NegToBuf(-value)
      [] OTHER -> BottomToBuf

\* Digits are absorbed one by one, with checks before they can overflow.
TowardsZero(n) == IF n < 0 THEN -((-n) \div 10) ELSE n \div 10
Overflows(n) == n > TowardsZero(Top) \/ TowardsZero(Bottom) > n
AbsorbDigitPositive(n, d) ==
    IF n = NotANumber \/ Overflows(n) \/ 10 * n > Top - d THEN NotANumber ELSE 10 * n + d
AbsorbDigitNegative(n, d) ==
    IF n = NotANumber \/ Overflows(n) \/ 10 * n < Bottom + d THEN NotANumber ELSE 10 * n - d

\* The text after its leading blanks, and the digits at its start.
RECURSIVE SkipBlanks(_)
SkipBlanks(t) == IF t # <<>> /\ t[1] \in {32, Tab} THEN SkipBlanks(Tail(t)) ELSE t
RECURSIVE Absorb(_, _, _)
Absorb(t, result, negative) ==
    CASE t = <<>> -> result
      [] t # <<>> /\ ~IsDigitByte(t[1]) -> NotANumber
      [] OTHER -> Absorb(Tail(t), IF negative THEN AbsorbDigitNegative(result, t[1] - 48)
                                  ELSE AbsorbDigitPositive(result, t[1] - 48), negative)
FromStringInteger(text) ==
    LET t == SkipBlanks(text)
    IN  CASE t = <<>> -> NotANumber
          [] t # <<>> /\ IsDigitByte(t[1]) -> Absorb(t, 0, FALSE)
          [] t # <<>> /\ t[1] = 45 -> IF Len(t) = 1 THEN NotANumber ELSE Absorb(Tail(t), 0, TRUE)
          [] OTHER -> NotANumber


(***************************************************************************)
(* Dates of the calendar that has a year zero; texts have none, and mark   *)
(* the years before year 1 at their end.                                   *)
(***************************************************************************)
MinYear == -32767
MaxYear == 32767
BC == <<32, 66, 67>>
NoDate == <<MinYear - 1, 0, 0>>

IsLeap(y) == y % 4 = 0 /\ (y % 100 # 0 \/ y % 400 = 0)
DaysIn(y, m) ==
    CASE m = 2 -> IF IsLeap(y) THEN 29 ELSE 28
      [] m \in {4, 6, 9, 11} -> 30
      [] OTHER -> 31
IsDate(d) ==
    /\ d[1] \in MinYear .. MaxYear
    /\ d[2] \in 1 .. 12
    /\ d[3] \in 1 .. DaysIn(d[1], d[2])

\* Mutant: year 0 is written as itself rather than as 1 BC.
MutantYearIntoBuf(y) ==
    LET absy == IF y < 0 THEN -y ELSE y
        padding == IF absy < 10 THEN 3 ELSE IF absy < 100 THEN 2 ELSE IF absy < 1000 THEN 1 ELSE 0
    IN  [i \in 1 .. padding |-> 48] \o NonnegToBuf(absy)
YearIntoBuf(y) ==
    LET absy == (IF y < 0 THEN -y ELSE y) + (IF y <= 0 THEN 1 ELSE 0)
        padding == Cardinality({limit \in {10, 100, 1000} : absy < limit})
    IN  IF y = MinYear THEN <<51, 50, 55, 54, 56>>
        ELSE [i \in 1 .. padding |-> 48] \o ShortToBuf(absy)
MonthIntoBuf(m) == <<IF m >= 10 THEN 49 ELSE 48, 48 + (m % 10)>>
DayIntoBuf(d) == <<48 + (d \div 10), 48 + (d % 10)>>
DateIntoBuf(d) ==
    YearIntoBuf(d[1]) \o <<45>> \o MonthIntoBuf(d[2]) \o <<45>> \o DayIntoBuf(d[3])
    \o (IF d[1] <= 0 THEN BC ELSE <<>>)

\* A year is read as an int, so 32768 is no overflow.
RECURSIVE DigitsToInt(_)
DigitsToInt(t) == IF t = <<>> THEN 0 ELSE 10 * DigitsToInt(Front(t)) + Last(t) - 48
YearFromBuf(t) ==
    IF Len(t) < 4 \/ (\E i \in DOMAIN t : ~IsDigitByte(t[i])) THEN 0 ELSE DigitsToInt(t)
TwoDigits(t) == IF \A i \in 1 .. 2 : IsDigitByte(t[i]) THEN 10 * (t[1] - 48) + t[2] - 48 ELSE 0
FindYearMonthSeparator(t) ==
    LET dashes == {i \in DOMAIN t : t[i] = 45}
    IN  IF dashes = {} THEN Len(t) ELSE (CHOOSE i \in dashes : \A j \in dashes : i <= j) - 1
DateFromString(text) ==
    LET isBc == IsSuffix(BC, text)
        t == IF isBc THEN SubSeq(text, 1, Len(text) - Len(BC)) ELSE text
        ymsep == FindYearMonthSeparator(t)
        baseYear == YearFromBuf(SubSeq(t, 1, ymsep))
        date == <<IF isBc THEN 1 - baseYear ELSE baseYear,
                  TwoDigits(SubSeq(t, ymsep + 2, ymsep + 3)),
                  TwoDigits(SubSeq(t, ymsep + 5, ymsep + 6))>>
    IN  IF /\ Len(text) >= 9 /\ Len(t) - ymsep = 6
           /\ baseYear > 0
           /\ t[ymsep + 4] = 45
           /\ IsDate(date)
        THEN date ELSE NoDate


(***************************************************************************)
(* Ranges.  A bound is <<kind, value>>.                                    *)
(***************************************************************************)
NoBound == <<"none", 0>>
Inclusive(v) == <<"inclusive", v>>
Exclusive(v) == <<"exclusive", v>>
IsLimited(b) == b[1] # "none"

ExtendsDownTo(b, v) ==
    CASE b[1] = "none" -> TRUE
      [] b[1] = "inclusive" -> ~(v < b[2])
      [] b[1] = "exclusive" -> b[2] < v
ExtendsUpTo(b, v) ==
    CASE b[1] = "none" -> TRUE
      [] b[1] = "inclusive" -> ~(b[2] < v)
      [] b[1] = "exclusive" -> v < b[2]

Crossed(lower, upper) == IsLimited(lower) /\ IsLimited(upper) /\ upper[2] < lower[2]
\* What the constructor lets through.
IsRange(r) == ~Crossed(r[1], r[2])
EmptyRange == <<Exclusive(0), Exclusive(0)>>
RangeEmpty(r) ==
    /\ r[1][1] = "exclusive" \/ r[2][1] = "exclusive"
    /\ IsLimited(r[1]) /\ IsLimited(r[2])
    /\ ~(r[1][2] < r[2][2])
SameRange(r, s) == r = s \/ (RangeEmpty(r) /\ RangeEmpty(s))
RangeContains(r, v) == ExtendsDownTo(r[1], v) /\ ExtendsUpTo(r[2], v)

\* Of two lower bounds, side 1, or two upper ones, side -1, the tighter one.
Tighter(mine, other, side) ==
    CASE ~IsLimited(mine) -> other
      [] IsLimited(mine) /\ ~IsLimited(other) -> mine
      [] OTHER ->
         CASE side * mine[2] < side * other[2] -> other
           [] side * other[2] < side * mine[2] -> mine
           [] OTHER -> IF mine[1] = "exclusive" THEN mine ELSE other
Intersection(r, s) ==
    LET lower == Tighter(r[1], s[1], 1)
        upper == Tighter(r[2], s[2], -1)
    IN  IF Crossed(lower, upper) THEN EmptyRange ELSE <<lower, upper>>
RangeEncompasses(r, s) == SameRange(Intersection(r, s), s)

EmptyText == <<101, 109, 112, 116, 121>>
\* "empty", each letter in either case.
SaysEmpty(text) ==
    Len(text) = 5 /\ \A k \in 1 .. 5 : text[k] \in {EmptyText[k], EmptyText[k] - 32}
RangeIntoBuf(r) ==
    LET Value(b) == IF IsLimited(b) THEN ShortToBuf(b[2]) ELSE <<>>
    IN  IF RangeEmpty(r) THEN EmptyText
        ELSE <<IF r[1][1] = "inclusive" THEN 91 ELSE 40>> \o Value(r[1]) \o <<Comma>>
             \o Value(r[2]) \o <<IF r[2][1] = "inclusive" THEN 93 ELSE 41>>
\* A bound that is left out is null; the brackets tell which bounds count.
AsBound(f, inclusive) ==
    CASE f = NullField -> NoBound
      [] f # NullField /\ inclusive -> Inclusive(FromStringInteger(f))
      [] OTHER -> Exclusive(FromStringInteger(f))
RangeIfValid(r) == IF IsRange(r) /\ NotANumber \notin {r[1][2], r[2][2]} THEN <<r>> ELSE <<>>
RangeOfFields(fields, open, close) ==
    IF Len(fields) = 2 /\ Refused[1] \notin {fields[1], fields[2]}
    THEN RangeIfValid(<<AsBound(fields[1], open = 91), AsBound(fields[2], close = 93)>>) ELSE <<>>
RangeFromString(text) ==
    CASE SaysEmpty(text) -> <<EmptyRange>>
      [] ~SaysEmpty(text) /\ Len(text) >= 3 /\ text[1] \in {40, 91} ->
            RangeOfFields(CompositeFields(Glyphs("UTF8", text), 2, 0, 1), text[1], Last(text))
      [] OTHER -> <<>>

=============================================================================
