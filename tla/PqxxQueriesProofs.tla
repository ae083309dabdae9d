--------------------------- MODULE PqxxQueriesProofs ---------------------------
(***************************************************************************)
(* Proofs about PqxxCursor and PqxxPipeline: the inductive invariant of    *)
(* each, and what the runs check of them, for every number of rows,        *)
(* strides, iterators and queries.                                         *)
(***************************************************************************)
EXTENDS PqxxCursor, PqxxPipeline, Iteration, SequenceTheorems, FiniteSetTheorems

(***************************************************************************)
(* Types, and the inductive invariant of the cursor.                       *)
(***************************************************************************)
\* What the records of the model hold.
IteratorType == [on : BOOLEAN, pos : Nat, here : Seq(Int), read : BOOLEAN, late : BOOLEAN]
CursorType ==
    [use : {"none", "sql", "stateless", "stream", "closed"}, rows : Nat, scroll : BOOLEAN,
     open : BOOLEAN, owned : BOOLEAN, at : Nat, pos : Int, endpos : Int, at_end : {-1, 0, 1},
     stride : Nat \ {0}, realpos : Nat, reqpos : Nat, done : BOOLEAN,
     its : [Iterators -> IteratorType], got : Seq(Int), asked : Seq(Int),
     thrown : {"none", "sql_error", "internal_error"}]

\* What sql_cursor knows of its position and of its end is true, and it knows that it is
\* at an end unless it never knew where it was.
Located(c) ==
    /\ c \in CursorType
    /\ c.rows <= MaxRows
    /\ c.at <= c.rows + 1
    /\ c.pos \in {-1, c.at}
    /\ c.endpos \in {-1, c.rows + 1}
    /\ c.endpos # -1 => c.pos # -1
    /\ c.at_end = 1 => c.at = c.rows + 1
    /\ c.at_end = -1 => c.at = 0
    /\ c.pos # -1 => (c.at = c.rows + 1 => c.at_end = 1) /\ (c.at = 0 => c.at_end = -1)
    /\ c.thrown # "internal_error"

\* The rows of the block at a position.
BlockAt(c, pos) == Upto(pos + 1, Min({pos + c.stride, c.rows}))
\* A stream is where the rows that it returned end.
Streaming(c) ==
    /\ Located(c)
    /\ c.pos = c.at
    /\ c.realpos = Min({c.at, c.rows})
    /\ ~c.scroll
\* Positions are multiples of the stride, so that the blocks do not overlap.
Aligned(c, pos) == \E k \in Nat : pos = k * c.stride
\* What an iterator holds once the stream is past it, unless it came there late.
Held(c, it) ==
    it.on => /\ Aligned(c, it.pos)
             /\ ~it.late /\ (it.pos < c.realpos \/ it.read) => it.here = BlockAt(c, it.pos)

\* The rows that a retrieval of a range returns (RangeOf, for any cursor).
RangeIn(c, begin_pos, end_pos) ==
    IF begin_pos <= end_pos THEN Upto(begin_pos + 1, Min({end_pos, c.rows}))
    ELSE IF begin_pos < c.rows THEN Downto(begin_pos + 1, Max({end_pos + 2, 1}))
    ELSE Downto(c.rows, Max({end_pos + 1, 1}))
Retrieval(c) == c.asked # <<>> => c.got = RangeIn(c, c.asked[1], c.asked[2])

\* The inductive invariant: one part for each use of the cursor.
SqlInv(c) == c.use = "sql" => Located(c)
StatelessInv(c) ==
    c.use = "stateless" => Located(c) /\ c.pos = c.at /\ c.scroll /\ Retrieval(c)
StreamInv(c) ==
    c.use = "stream" => /\ Streaming(c) /\ Aligned(c, c.reqpos)
                        /\ \A i \in Iterators : Held(c, c.its[i])
CursorInv ==
    /\ cursor.use \in {"none", "sql", "stateless", "stream", "closed"}
    /\ SqlInv(cursor) /\ StatelessInv(cursor) /\ StreamInv(cursor)

(***************************************************************************)
(* The operators.                                                          *)
(***************************************************************************)
\* The smaller and the greater of two numbers.
LEMMA MinOfTwo ==
  ASSUME NEW a \in Int, NEW b \in Int
  PROVE  Min({a, b}) = IF a <= b THEN a ELSE b
<1>1. \E x \in {a, b} : \A y \in {a, b} : x <= y
  OBVIOUS
<1>2. Min({a, b}) \in {a, b} /\ \A y \in {a, b} : Min({a, b}) <= y
  BY <1>1 DEF Min
<1> QED BY <1>2

\* The larger of two numbers.
LEMMA MaxOfTwo ==
  ASSUME NEW a \in Int, NEW b \in Int
  PROVE  Max({a, b}) = IF a >= b THEN a ELSE b
<1>1. \E x \in {a, b} : \A y \in {a, b} : x >= y
  OBVIOUS
<1>2. Max({a, b}) \in {a, b} /\ \A y \in {a, b} : Max({a, b}) >= y
  BY <1>1 DEF Max
<1> QED BY <1>2

\* A sequence of consecutive numbers, and its length.
LEMMA UptoFacts ==
  ASSUME NEW a \in Int, NEW b \in Int
  PROVE  /\ Upto(a, b) \in Seq(Int)
         /\ Len(Upto(a, b)) = IF b >= a THEN b - a + 1 ELSE 0
         /\ b < a => Upto(a, b) = <<>>
<1> DEFINE n == IF b >= a THEN b - a + 1 ELSE 0
<1>1. n \in Nat
  OBVIOUS
<1>2. Upto(a, b) \in [1 .. n -> Int]
  BY DEF Upto
<1>3. Upto(a, b) \in Seq(Int)
  <2> HIDE DEF n
  <2> QED BY <1>1, <1>2, SeqDef
<1>4. DOMAIN Upto(a, b) = 1 .. n
  BY <1>2
<1>5. Len(Upto(a, b)) = n
  <2> HIDE DEF n
  <2> QED BY <1>1, <1>3, <1>4, LenProperties
<1>6. b < a => Upto(a, b) = <<>>
  BY <1>3, <1>5, EmptySeq
<1> QED BY <1>3, <1>5, <1>6

\* The same of the rows that a fetch backwards visits.
LEMMA DowntoFacts ==
  ASSUME NEW a \in Int, NEW b \in Int
  PROVE  /\ Downto(a, b) \in Seq(Int)
         /\ Len(Downto(a, b)) = IF a >= b THEN a - b + 1 ELSE 0
         /\ a < b => Downto(a, b) = <<>>
<1> DEFINE n == IF a >= b THEN a - b + 1 ELSE 0
<1>1. n \in Nat
  OBVIOUS
<1>2. Downto(a, b) \in [1 .. n -> Int]
  BY DEF Downto
<1>3. Downto(a, b) \in Seq(Int)
  <2> HIDE DEF n
  <2> QED BY <1>1, <1>2, SeqDef
<1>4. DOMAIN Downto(a, b) = 1 .. n
  BY <1>2
<1>5. Len(Downto(a, b)) = n
  <2> HIDE DEF n
  <2> QED BY <1>1, <1>3, <1>4, LenProperties
<1>6. a < b => Downto(a, b) = <<>>
  BY <1>3, <1>5, EmptySeq
<1> QED BY <1>3, <1>5, <1>6

\* Where a FETCH ends and how many rows it visits, forwards and backwards.
LEMMA Forwards ==
  ASSUME NEW c \in CursorType, NEW n \in Int, n > 0, c.at <= c.rows + 1
  PROVE  /\ Lands(c, n) = IF c.at + n <= c.rows + 1 THEN c.at + n ELSE c.rows + 1
         /\ Visits(c, n) = Upto(c.at + 1, IF c.at + n <= c.rows THEN c.at + n ELSE c.rows)
         /\ Visits(c, n) \in Seq(Int)
         /\ Len(Visits(c, n)) = IF c.at + n <= c.rows THEN n
                                ELSE IF c.at <= c.rows THEN c.rows - c.at ELSE 0
<1>1. c.at \in Nat /\ c.rows \in Nat
  BY DEF CursorType
<1> DEFINE b == IF c.at + n <= c.rows THEN c.at + n ELSE c.rows
<1>2. Min({c.at + n, c.rows + 1}) = IF c.at + n <= c.rows + 1 THEN c.at + n ELSE c.rows + 1
  BY <1>1, MinOfTwo
<1>3. Min({c.at + n, c.rows}) = b
  BY <1>1, MinOfTwo
<1>4. Visits(c, n) = Upto(c.at + 1, b)
  BY <1>3 DEF Visits
<1>5. /\ Upto(c.at + 1, b) \in Seq(Int)
      /\ Len(Upto(c.at + 1, b)) = IF b >= c.at + 1 THEN b - (c.at + 1) + 1 ELSE 0
  <2>1. c.at + 1 \in Int /\ b \in Int
    BY <1>1
  <2> HIDE DEF b
  <2> QED BY <2>1, UptoFacts
<1> QED BY <1>1, <1>2, <1>4, <1>5 DEF Lands

\* The same of FETCH and MOVE backwards, which stop before the first row.
LEMMA Backwards ==
  ASSUME NEW c \in CursorType, NEW n \in Int, n < 0, c.at <= c.rows + 1
  PROVE  /\ Lands(c, n) = IF c.at + n >= 0 THEN c.at + n ELSE 0
         /\ Visits(c, n) = Downto(c.at - 1, IF c.at + n >= 1 THEN c.at + n ELSE 1)
         /\ Visits(c, n) \in Seq(Int)
         /\ Len(Visits(c, n)) = IF c.at + n >= 1 THEN -n ELSE IF c.at >= 1 THEN c.at - 1 ELSE 0
<1>1. c.at \in Nat /\ c.rows \in Nat
  BY DEF CursorType
<1> DEFINE b == IF c.at + n >= 1 THEN c.at + n ELSE 1
<1>2. Max({c.at + n, 0}) = IF c.at + n >= 0 THEN c.at + n ELSE 0
  BY <1>1, MaxOfTwo
<1>3. Max({c.at + n, 1}) = b
  BY <1>1, MaxOfTwo
<1>4. Visits(c, n) = Downto(c.at - 1, b)
  BY <1>3 DEF Visits
<1>5. /\ Downto(c.at - 1, b) \in Seq(Int)
      /\ Len(Downto(c.at - 1, b)) = IF c.at - 1 >= b THEN (c.at - 1) - b + 1 ELSE 0
  <2>1. c.at - 1 \in Int /\ b \in Int
    BY <1>1
  <2> HIDE DEF b
  <2> QED BY <2>1, DowntoFacts
<1> QED BY <1>1, <1>2, <1>4, <1>5 DEF Lands

\* What a fetch or a move leaves alone.
SameStream(c, d) ==
    /\ d.use = c.use /\ d.rows = c.rows /\ d.scroll = c.scroll /\ d.open = c.open
    /\ d.owned = c.owned /\ d.stride = c.stride /\ d.realpos = c.realpos
    /\ d.reqpos = c.reqpos /\ d.done = c.done /\ d.its = c.its /\ d.asked = c.asked

\* adjust: after a move of n from where c was that ended at d.at and visited actual rows.
LEMMA AdjustTrue ==
  ASSUME NEW c, Located(c), NEW n \in Int, n # 0,
         NEW d \in CursorType, NEW actual \in Nat,
         SameStream(c, d), d.pos = c.pos, d.endpos = c.endpos, d.at_end = c.at_end,
         d.thrown = c.thrown,
         n > 0 => /\ d.at = IF c.at + n <= c.rows + 1 THEN c.at + n ELSE c.rows + 1
                  /\ actual = IF c.at + n <= c.rows THEN n
                              ELSE IF c.at <= c.rows THEN c.rows - c.at ELSE 0,
         n < 0 => /\ d.at = IF c.at + n >= 0 THEN c.at + n ELSE 0
                  /\ actual = IF c.at + n >= 1 THEN -n ELSE IF c.at >= 1 THEN c.at - 1 ELSE 0
  PROVE  LET f == Adjust(d, n, actual)
         IN  /\ Located(f) /\ SameStream(c, f) /\ f.at = d.at /\ f.got = d.got
             /\ f.thrown = c.thrown
             /\ c.pos # -1 => f.pos = f.at
             /\ c.endpos # -1 => f.endpos # -1
             /\ n < 0 /\ c.at + n < 1 => f.pos = f.at
             /\ n > 0 /\ c.at + n > c.rows /\ c.pos # -1 => f.endpos = c.rows + 1
<1>0. /\ c.at \in Nat /\ c.rows \in Nat /\ c.at_end \in {-1, 0, 1}
      /\ c.pos \in Int /\ c.endpos \in Int /\ c \in CursorType /\ c.at <= c.rows + 1
  BY DEF Located, CursorType
<1> DEFINE direction == IF n < 0 THEN -1 ELSE 1
           short == actual # Abs(n)
           steps == IF short THEN actual + ExtraStep(d, direction) ELSE actual
           from == IF short /\ direction < 0 /\ d.pos = -1 THEN steps ELSE d.pos
           to == IF from >= 0 THEN from + direction * steps ELSE from
           at_end == IF short THEN direction ELSE 0
           endpos == IF short /\ direction > 0 THEN to ELSE d.endpos
           moved == [d EXCEPT !.pos = to, !.at_end = at_end]
           f == Adjust(d, n, actual)
<1>1. CASE n > 0
  <2>1. direction = 1 /\ (short <=> c.at + n > c.rows)
    BY <1>0, <1>1 DEF Abs
  <2>2. steps = IF short THEN (IF c.at_end = 1 THEN 0 ELSE IF c.at <= c.rows THEN c.rows - c.at + 1 ELSE 1) ELSE n
    BY <1>0, <1>1, <2>1 DEF ExtraStep, Located
  <2>3. from = c.pos
    BY <2>1
  <2>4. to = IF c.pos = -1 THEN -1 ELSE d.at
    BY <1>0, <1>1, <2>1, <2>2, <2>3 DEF Located
  <2>5. at_end = (IF short THEN 1 ELSE 0) /\ endpos = (IF short THEN to ELSE d.endpos)
    BY <2>1
  <2>6. short /\ d.endpos >= 0 => to = d.endpos
    BY <1>0, <1>1, <2>1, <2>4 DEF Located
  <2>7. f = IF short THEN [moved EXCEPT !.endpos = to] ELSE moved
    BY <2>1, <2>6 DEF Adjust
  <2>8. to \in Int /\ d.at \in Nat /\ d.rows = c.rows
    BY <1>0, <2>4 DEF CursorType, SameStream
  <2> HIDE DEF short, to, at_end, steps, from, endpos, direction
  <2>9. endpos \in Int /\ at_end \in {-1, 0, 1}
    BY <1>0, <2>5, <2>8
  <2>10. /\ f \in CursorType /\ SameStream(d, f) /\ f.at = d.at /\ f.got = d.got
         /\ f.thrown = d.thrown /\ f.pos = to /\ f.at_end = at_end /\ f.endpos = endpos
    <3>1. CASE short
      <4>1. f = [moved EXCEPT !.endpos = to] /\ endpos = to
        BY <3>1, <2>5, <2>7
      <4> QED BY <4>1, <2>8, <2>9 DEF CursorType, SameStream
    <3>2. CASE ~short
      <4>1. f = moved /\ endpos = d.endpos
        BY <3>2, <2>5, <2>7
      <4> QED BY <4>1, <2>8, <2>9 DEF CursorType, SameStream
    <3> QED BY <3>1, <3>2
  <2> HIDE DEF f, moved
  <2>11. SameStream(c, f) /\ f.thrown = c.thrown
    BY <2>10 DEF SameStream
  <2>12. f.rows = c.rows
    BY <2>11 DEF SameStream
  <2>13. Located(f)
    BY <1>0, <1>1, <2>1, <2>4, <2>5, <2>8, <2>10, <2>11, <2>12 DEF Located
  <2>14. c.endpos # -1 => c.endpos = c.rows + 1 /\ c.pos # -1
    BY DEF Located
  <2> QED BY <1>0, <1>1, <2>1, <2>4, <2>5, <2>8, <2>10, <2>11, <2>13, <2>14 DEF f
<1>2. CASE n < 0
  <2>1. direction = -1 /\ (short <=> c.at + n < 1)
    BY <1>0, <1>2 DEF Abs
  <2>2. steps = IF short THEN (IF c.at_end = -1 THEN 0 ELSE IF c.at >= 1 THEN c.at ELSE 1) ELSE -n
    BY <1>0, <1>2, <2>1 DEF ExtraStep, Located
  <2>3. from = IF short /\ c.pos = -1 THEN steps ELSE c.pos
    BY <2>1
  <2>4. short => from = steps
    BY <1>0, <2>2, <2>3 DEF Located
  <2>5. to = IF short THEN 0 ELSE IF c.pos = -1 THEN -1 ELSE d.at
    BY <1>0, <1>2, <2>1, <2>2, <2>3, <2>4 DEF Located
  <2>6. to \in Int /\ d.at \in Nat /\ d.rows = c.rows
    BY <1>0, <2>5 DEF CursorType, SameStream
  <2>7. f = moved
    BY <2>1, <2>4 DEF Adjust
  <2>8. at_end = IF short THEN -1 ELSE 0
    BY <2>1
  <2> HIDE DEF short, to, at_end, steps, from, direction
  <2>9. at_end \in {-1, 0, 1}
    BY <2>8
  <2>10. /\ f \in CursorType /\ SameStream(d, f) /\ f.at = d.at /\ f.got = d.got
         /\ f.thrown = d.thrown /\ f.pos = to /\ f.at_end = at_end /\ f.endpos = d.endpos
    BY <2>6, <2>7, <2>9 DEF CursorType, SameStream
  <2> HIDE DEF f, moved
  <2>11. SameStream(c, f) /\ f.thrown = c.thrown
    BY <2>10 DEF SameStream
  <2>12. f.rows = c.rows
    BY <2>11 DEF SameStream
  <2>13. Located(f)
    BY <1>0, <1>2, <2>1, <2>5, <2>6, <2>8, <2>10, <2>11, <2>12 DEF Located
  <2> QED BY <1>0, <1>2, <2>1, <2>5, <2>6, <2>8, <2>10, <2>11, <2>13 DEF f
<1> QED BY <1>1, <1>2

\* What a fetch or a move of n keeps and finds out.
Shifted(c, n, f) ==
    /\ Located(f) /\ SameStream(c, f)
    /\ n = 0 \/ (n < 0 /\ ~c.scroll) => f.at = c.at
    /\ n > 0 \/ (n < 0 /\ c.scroll) => f.at = Lands(c, n)
    /\ n >= 0 \/ c.scroll => f.thrown = c.thrown
    /\ c.pos # -1 => f.pos = f.at
    /\ c.endpos # -1 => f.endpos # -1
    /\ c.scroll /\ n < 0 /\ c.at + n < 1 => f.pos = f.at
    /\ n > 0 /\ c.at + n > c.rows /\ c.pos # -1 => f.endpos = c.rows + 1

\* fetch.
LEMMA FetchTrue ==
  ASSUME NEW c, Located(c), NEW n \in Int
  PROVE  /\ Shifted(c, n, FetchRows(c, n))
         /\ n = 0 => FetchRows(c, n).got = <<>>
         /\ n > 0 \/ (n < 0 /\ c.scroll) => FetchRows(c, n).got = Visits(c, n)
<1>0. c \in CursorType /\ c.at \in Nat /\ c.rows \in Nat /\ c.at <= c.rows + 1
  BY DEF Located, CursorType
<1> DEFINE f == FetchRows(c, n)
<1>1. CASE n = 0
  <2>1. f = [c EXCEPT !.got = <<>>]
    BY <1>1 DEF FetchRows
  <2>2. <<>> \in Seq(Int)
    OBVIOUS
  <2>3. f \in CursorType /\ SameStream(c, f) /\ f.got = <<>>
        /\ f.at = c.at /\ f.pos = c.pos /\ f.endpos = c.endpos /\ f.at_end = c.at_end
        /\ f.thrown = c.thrown
    BY <1>0, <2>1, <2>2 DEF CursorType, SameStream
  <2> HIDE DEF f
  <2> QED BY <1>1, <2>3 DEF Shifted, Located, SameStream, f
<1>2. CASE n < 0 /\ ~c.scroll
  <2>1. f = [c EXCEPT !.thrown = "sql_error"]
    BY <1>2 DEF FetchRows, CursorThrows
  <2>2. f \in CursorType /\ SameStream(c, f)
        /\ f.at = c.at /\ f.pos = c.pos /\ f.endpos = c.endpos /\ f.at_end = c.at_end
        /\ f.thrown = "sql_error"
    BY <1>0, <2>1 DEF CursorType, SameStream
  <2> HIDE DEF f
  <2> QED BY <1>2, <2>2 DEF Shifted, Located, SameStream, f
<1>3. CASE n > 0 \/ (n < 0 /\ c.scroll)
  <2> DEFINE d == [c EXCEPT !.at = Lands(c, n), !.got = Visits(c, n)]
             actual == Len(Visits(c, n))
  <2>1. f = Adjust(d, n, actual)
    BY <1>3 DEF FetchRows
  <2>2. /\ n > 0 => /\ Lands(c, n) = IF c.at + n <= c.rows + 1 THEN c.at + n ELSE c.rows + 1
                    /\ actual = IF c.at + n <= c.rows THEN n
                                ELSE IF c.at <= c.rows THEN c.rows - c.at ELSE 0
        /\ n < 0 => /\ Lands(c, n) = IF c.at + n >= 0 THEN c.at + n ELSE 0
                    /\ actual = IF c.at + n >= 1 THEN -n ELSE IF c.at >= 1 THEN c.at - 1 ELSE 0
        /\ Visits(c, n) \in Seq(Int)
    BY <1>0, <1>3, Forwards, Backwards
  <2>3. Lands(c, n) \in Nat /\ actual \in Nat
    BY <1>0, <1>3, <2>2
  <2>4. /\ d \in CursorType /\ SameStream(c, d) /\ d.at = Lands(c, n) /\ d.got = Visits(c, n)
        /\ d.pos = c.pos /\ d.endpos = c.endpos /\ d.at_end = c.at_end /\ d.thrown = c.thrown
    BY <1>0, <2>2, <2>3 DEF CursorType, SameStream
  <2> HIDE DEF d, actual
  <2>5. n # 0
    BY <1>3
  <2>6. /\ Located(f) /\ SameStream(c, f) /\ f.at = d.at /\ f.got = d.got
        /\ f.thrown = c.thrown
        /\ c.pos # -1 => f.pos = f.at
        /\ c.endpos # -1 => f.endpos # -1
        /\ n < 0 /\ c.at + n < 1 => f.pos = f.at
        /\ n > 0 /\ c.at + n > c.rows /\ c.pos # -1 => f.endpos = c.rows + 1
    BY <2>1, <2>2, <2>3, <2>4, <2>5, AdjustTrue
  <2> HIDE DEF f
  <2> QED BY <1>3, <2>4, <2>5, <2>6 DEF Shifted, f
<1>4. n = 0 \/ n < 0 \/ n > 0
  OBVIOUS
<1> QED BY <1>1, <1>2, <1>3, <1>4

\* move, which returns no rows.
LEMMA MoveTrue ==
  ASSUME NEW c, Located(c), NEW n \in Int
  PROVE  /\ Shifted(c, n, MoveRows(c, n))
         /\ MoveRows(c, n).got = c.got
<1> DEFINE f == FetchRows(c, n)
           m == [f EXCEPT !.got = c.got]
<1>1. Shifted(c, n, f) /\ c.got \in Seq(Int) /\ f \in CursorType
  <2>1. Shifted(c, n, f)
    BY FetchTrue
  <2>2. c.got \in Seq(Int)
    BY DEF Located, CursorType
  <2>3. f \in CursorType
    BY <2>1 DEF Shifted, Located
  <2> QED BY <2>1, <2>2, <2>3
<1> HIDE DEF f
<1>2. /\ m \in CursorType /\ SameStream(f, m) /\ m.got = c.got /\ m.at = f.at /\ m.pos = f.pos
      /\ m.endpos = f.endpos /\ m.at_end = f.at_end /\ m.thrown = f.thrown
  BY <1>1 DEF CursorType, SameStream
<1>3. MoveRows(c, n) = m
  BY DEF MoveRows, f
<1> HIDE DEF m
<1>4. Shifted(c, n, m)
  BY <1>1, <1>2 DEF Shifted, Located, SameStream
<1> QED BY <1>2, <1>3, <1>4

(***************************************************************************)
(* Streams.                                                                *)
(***************************************************************************)
\* What reading or skipping rows of a stream leaves alone.
SameButPlace(c, d) ==
    /\ d.use = c.use /\ d.rows = c.rows /\ d.scroll = c.scroll /\ d.open = c.open
    /\ d.owned = c.owned /\ d.stride = c.stride /\ d.reqpos = c.reqpos
    /\ d.asked = c.asked /\ d.thrown = c.thrown

\* fetchblock returns the next rows.
LEMMA FetchBlockTrue ==
  ASSUME NEW c, Streaming(c)
  PROVE  LET b == FetchBlock(c)
         IN  /\ Streaming(b) /\ SameButPlace(c, b) /\ b.its = c.its
             /\ b.realpos <= c.realpos + c.stride /\ c.realpos <= b.realpos
             /\ b.got = Upto(c.at + 1, IF c.at + c.stride <= c.rows THEN c.at + c.stride ELSE c.rows)
<1>0. /\ c \in CursorType /\ c.at \in Nat /\ c.rows \in Nat /\ c.at <= c.rows + 1
      /\ c.stride \in Nat /\ c.stride > 0 /\ c.realpos \in Nat /\ c.pos # -1 /\ Located(c)
      /\ ~c.scroll /\ c.pos = c.at
  BY DEF Streaming, Located, CursorType
<1> DEFINE f == FetchRows(c, c.stride)
           b == [f EXCEPT !.realpos = @ + Len(f.got), !.done = @ \/ f.got = <<>>]
<1>1. c.realpos = IF c.at <= c.rows THEN c.at ELSE c.rows
  BY <1>0, MinOfTwo DEF Streaming
<1>2. /\ Shifted(c, c.stride, f) /\ f.got = Visits(c, c.stride)
  BY <1>0, FetchTrue
<1>3. /\ Lands(c, c.stride) = IF c.at + c.stride <= c.rows + 1 THEN c.at + c.stride ELSE c.rows + 1
      /\ Visits(c, c.stride) = Upto(c.at + 1, IF c.at + c.stride <= c.rows THEN c.at + c.stride ELSE c.rows)
      /\ Len(Visits(c, c.stride)) = IF c.at + c.stride <= c.rows THEN c.stride
                                ELSE IF c.at <= c.rows THEN c.rows - c.at ELSE 0
  <2> DEFINE n == c.stride
  <2>1. n \in Int /\ n > 0
    BY <1>0
  <2> HIDE DEF n
  <2>2. /\ Lands(c, n) = IF c.at + n <= c.rows + 1 THEN c.at + n ELSE c.rows + 1
        /\ Visits(c, n) = Upto(c.at + 1, IF c.at + n <= c.rows THEN c.at + n ELSE c.rows)
        /\ Len(Visits(c, n)) = IF c.at + n <= c.rows THEN n
                               ELSE IF c.at <= c.rows THEN c.rows - c.at ELSE 0
    BY <1>0, <2>1, Forwards
  <2> QED BY <2>2 DEF n
<1>4. /\ Located(f) /\ SameStream(c, f) /\ f.at = Lands(c, c.stride) /\ f.thrown = c.thrown
      /\ f.pos = f.at /\ f \in CursorType /\ f.at \in Nat /\ f.done \in BOOLEAN
  <2>1. /\ Located(f) /\ SameStream(c, f) /\ f.at = Lands(c, c.stride) /\ f.thrown = c.thrown
        /\ f.pos = f.at
    BY <1>0, <1>2 DEF Shifted
  <2>2. f \in CursorType
    BY <2>1 DEF Located
  <2>3. f.at \in Nat /\ f.done \in BOOLEAN
    BY <2>2 DEF CursorType
  <2> QED BY <2>1, <2>2, <2>3
<1> DEFINE realpos == f.realpos + Len(f.got)
           done == f.done \/ f.got = <<>>
<1>5. f.realpos = c.realpos /\ f.rows = c.rows
  BY <1>4 DEF SameStream
<1>6. realpos \in Nat /\ realpos = IF f.at <= c.rows THEN f.at ELSE c.rows
  BY <1>0, <1>1, <1>2, <1>3, <1>4, <1>5
<1>7. done \in BOOLEAN
  OBVIOUS
<1>8. FetchBlock(c) = b /\ b = [f EXCEPT !.realpos = realpos, !.done = done]
  BY DEF FetchBlock
<1> HIDE DEF f, realpos, done
<1>9. /\ b \in CursorType /\ SameButPlace(f, b) /\ b.its = f.its /\ b.got = f.got /\ b.at = f.at
      /\ b.pos = f.pos /\ b.endpos = f.endpos /\ b.at_end = f.at_end /\ b.realpos = realpos
  BY <1>4, <1>6, <1>7, <1>8 DEF CursorType, SameButPlace
<1> HIDE DEF b
<1>10. SameButPlace(c, b) /\ b.its = c.its
  BY <1>4, <1>9 DEF SameButPlace, SameStream
<1>11. Located(b)
  BY <1>4, <1>9 DEF Located, SameButPlace
<1>12. Streaming(b)
  <2>1. b.realpos = Min({b.at, b.rows})
    BY <1>0, <1>4, <1>6, <1>9, <1>10, MinOfTwo DEF SameButPlace
  <2> QED BY <1>0, <1>4, <1>9, <1>10, <1>11, <2>1 DEF Streaming, SameButPlace
<1>13. b.realpos <= c.realpos + c.stride /\ c.realpos <= b.realpos
  BY <1>0, <1>1, <1>3, <1>4, <1>6, <1>9
<1> QED BY <1>2, <1>3, <1>8, <1>9, <1>10, <1>12, <1>13

\* ignore skips as many rows as there are.
LEMMA IgnoreTrue ==
  ASSUME NEW c, Streaming(c), NEW n \in Nat, n > 0
  PROVE  LET b == Ignored(c, n)
         IN  /\ Streaming(b) /\ SameButPlace(c, b) /\ b.its = c.its /\ c.realpos <= b.realpos
             /\ b.realpos = IF c.realpos + n <= c.rows THEN c.realpos + n ELSE c.rows
             /\ c.realpos + n <= c.rows => b.at = c.realpos + n
<1>0. /\ c \in CursorType /\ c.at \in Nat /\ c.rows \in Nat /\ c.at <= c.rows + 1
      /\ c.realpos \in Nat /\ c.pos # -1 /\ Located(c)
      /\ ~c.scroll /\ c.pos = c.at
  BY DEF Streaming, Located, CursorType
<1> DEFINE f == MoveRows(c, n)
           offset == Len(Visits(c, n))
           b == [f EXCEPT !.realpos = @ + offset, !.done = @ \/ offset < n]
<1>1. c.realpos = IF c.at <= c.rows THEN c.at ELSE c.rows
  BY <1>0, MinOfTwo DEF Streaming
<1>2. Shifted(c, n, f)
  BY <1>0, MoveTrue
<1>3. /\ Lands(c, n) = IF c.at + n <= c.rows + 1 THEN c.at + n ELSE c.rows + 1
      /\ offset = IF c.at + n <= c.rows THEN n
                  ELSE IF c.at <= c.rows THEN c.rows - c.at ELSE 0
  BY <1>0, Forwards
<1>4. /\ Located(f) /\ SameStream(c, f) /\ f.at = Lands(c, n) /\ f.thrown = c.thrown
      /\ f.pos = f.at /\ f \in CursorType /\ f.at \in Nat /\ f.done \in BOOLEAN
  <2>1. /\ Located(f) /\ SameStream(c, f) /\ f.at = Lands(c, n) /\ f.thrown = c.thrown
        /\ f.pos = f.at
    BY <1>0, <1>2 DEF Shifted
  <2>2. f \in CursorType
    BY <2>1 DEF Located
  <2>3. f.at \in Nat /\ f.done \in BOOLEAN
    BY <2>2 DEF CursorType
  <2> QED BY <2>1, <2>2, <2>3
<1> DEFINE realpos == f.realpos + offset
           done == f.done \/ offset < n
<1>5. f.realpos = c.realpos /\ f.rows = c.rows
  BY <1>4 DEF SameStream
<1>6. realpos \in Nat /\ realpos = IF f.at <= c.rows THEN f.at ELSE c.rows
  BY <1>0, <1>1, <1>3, <1>4, <1>5
<1>7. done \in BOOLEAN
  OBVIOUS
<1>8. Ignored(c, n) = b /\ b = [f EXCEPT !.realpos = realpos, !.done = done]
  BY DEF Ignored
<1> HIDE DEF f, realpos, done, offset
<1>9. /\ b \in CursorType /\ SameButPlace(f, b) /\ b.its = f.its /\ b.at = f.at
      /\ b.pos = f.pos /\ b.endpos = f.endpos /\ b.at_end = f.at_end /\ b.realpos = realpos
  BY <1>4, <1>6, <1>7, <1>8 DEF CursorType, SameButPlace
<1> HIDE DEF b
<1>10. SameButPlace(c, b) /\ b.its = c.its
  BY <1>4, <1>9 DEF SameButPlace, SameStream
<1>11. Located(b)
  BY <1>4, <1>9 DEF Located, SameButPlace
<1>12. Streaming(b)
  <2>1. b.realpos = Min({b.at, b.rows})
    BY <1>0, <1>4, <1>6, <1>9, <1>10, MinOfTwo DEF SameButPlace
  <2> QED BY <1>0, <1>4, <1>9, <1>10, <1>11, <2>1 DEF Streaming, SameButPlace
<1>13. /\ c.realpos <= b.realpos
       /\ b.realpos = IF c.realpos + n <= c.rows THEN c.realpos + n ELSE c.rows
       /\ c.realpos + n <= c.rows => b.at = c.realpos + n
  BY <1>0, <1>1, <1>3, <1>4, <1>6, <1>9
<1> QED BY <1>8, <1>10, <1>12, <1>13

\* Two multiples of a stride are a stride apart.
LEMMA MultiplesApart ==
  ASSUME NEW s \in Nat, NEW j \in Nat, NEW k \in Nat, j * s < k * s
  PROVE  j * s + s <= k * s
<1>1. ASSUME NEW a \in Nat, NEW b \in Nat PROVE a * b \in Nat
  BY <1>1
<1>2. CASE k <= j
  <2>1. PICK m \in Nat : j = k + m
    BY <1>2
  <2>2. j * s = k * s + m * s
    BY <2>1
  <2>3. m * s \in Nat /\ k * s \in Nat
    BY <1>1
  <2> QED BY <2>2, <2>3
<1>3. CASE k > j
  <2>1. PICK m \in Nat : k = j + 1 + m
    <3>1. k - j - 1 \in Nat /\ k = j + 1 + (k - j - 1)
      BY <1>3
    <3> QED BY <3>1
  <2>2. k * s = j * s + s + m * s
    BY <2>1
  <2>3. m * s \in Nat /\ j * s \in Nat
    BY <1>1
  <2> QED BY <2>2, <2>3
<1> QED BY <1>2, <1>3

\* Two different positions of blocks are at least a stride apart.
LEMMA AlignedApart ==
  ASSUME NEW c \in CursorType, NEW p \in Nat, NEW q \in Nat, Aligned(c, p), Aligned(c, q), p < q
  PROVE  p + c.stride <= q
<1>1. c.stride \in Nat
  BY DEF CursorType
<1>2. PICK j \in Nat, k \in Nat : p = j * c.stride /\ q = k * c.stride
  BY DEF Aligned
<1> QED BY <1>1, <1>2, MultiplesApart

\* The block at a position is a sequence of rows.
LEMMA BlockIsSeq ==
  ASSUME NEW c \in CursorType, NEW pos \in Nat
  PROVE  BlockAt(c, pos) \in Seq(Int)
<1>1. c.stride \in Nat /\ c.rows \in Nat
  BY DEF CursorType
<1>2. Min({pos + c.stride, c.rows}) \in Int
  BY <1>1, MinOfTwo
<1> QED BY <1>2, UptoFacts DEF BlockAt

\* One block: from the position of the stream, which is not past it, to those who want it.
LEMMA ServiceOneTrue ==
  ASSUME NEW c, Streaming(c), NEW pos \in Nat, c.realpos <= pos
  PROVE  LET s == ServiceOne(c, pos)
         IN  /\ Streaming(s) /\ SameButPlace(c, s)
             /\ c.realpos <= s.realpos /\ s.realpos <= pos + c.stride
             /\ s.its = [i \in Iterators |->
                    IF c.its[i].on /\ c.its[i].pos = pos
                    THEN [c.its[i] EXCEPT !.here = BlockAt(c, pos)] ELSE c.its[i]]
<1>0. /\ c \in CursorType /\ c.at \in Nat /\ c.rows \in Nat /\ c.at <= c.rows + 1
      /\ c.realpos \in Nat /\ c.stride \in Nat /\ c.stride > 0
      /\ c.its \in [Iterators -> IteratorType]
  BY DEF Streaming, Located, CursorType
<1>1. c.realpos = IF c.at <= c.rows THEN c.at ELSE c.rows
  BY <1>0, MinOfTwo DEF Streaming
<1> DEFINE there == IF pos > c.realpos THEN Ignored(c, pos - c.realpos) ELSE c
           b == FetchBlock(there)
<1>2. /\ Streaming(there) /\ SameButPlace(c, there) /\ there.its = c.its
      /\ c.realpos <= there.realpos /\ there.realpos <= pos
      /\ (pos <= c.rows /\ there.at = pos) \/ (pos >= c.rows /\ there.at >= c.rows)
  <2>1. CASE pos > c.realpos
    <3> DEFINE n == pos - c.realpos
    <3>1. n \in Nat /\ n > 0 /\ c.realpos + n = pos
      BY <1>0, <2>1
    <3>2. there = Ignored(c, n)
      BY <2>1
    <3> HIDE DEF n, there
    <3>3. /\ Streaming(there) /\ SameButPlace(c, there) /\ there.its = c.its
          /\ c.realpos <= there.realpos
          /\ there.realpos = IF c.realpos + n <= c.rows THEN c.realpos + n ELSE c.rows
          /\ c.realpos + n <= c.rows => there.at = c.realpos + n
      BY <3>1, <3>2, IgnoreTrue
    <3>4. there.rows = c.rows /\ there.at \in Nat
      BY <3>3 DEF SameButPlace, Streaming, Located, CursorType
    <3>5. there.realpos = IF there.at <= c.rows THEN there.at ELSE c.rows
      BY <1>0, <3>3, <3>4, MinOfTwo DEF Streaming
    <3> QED BY <1>0, <3>1, <3>3, <3>4, <3>5
  <2>2. CASE ~(pos > c.realpos)
    <3>1. there = c /\ pos = c.realpos
      BY <1>0, <2>2
    <3> HIDE DEF there
    <3> QED BY <1>0, <1>1, <3>1 DEF SameButPlace
  <2> QED BY <2>1, <2>2
<1> HIDE DEF there
<1>3. /\ there.rows = c.rows /\ there.stride = c.stride /\ there.at \in Nat /\ there.realpos \in Nat
      /\ there.at <= c.rows + 1
  BY <1>2 DEF SameButPlace, Streaming, Located, CursorType
<1> DEFINE stop == IF there.at + c.stride <= c.rows THEN there.at + c.stride ELSE c.rows
<1>4. /\ Streaming(b) /\ SameButPlace(there, b) /\ b.its = c.its
      /\ b.realpos <= there.realpos + c.stride /\ there.realpos <= b.realpos
      /\ b.got = Upto(there.at + 1, stop)
  BY <1>2, <1>3, FetchBlockTrue
<1>5. b.got = BlockAt(c, pos)
  <2>1. Min({pos + c.stride, c.rows}) = IF pos + c.stride <= c.rows THEN pos + c.stride ELSE c.rows
    BY <1>0, MinOfTwo
  <2>2. CASE pos <= c.rows /\ there.at = pos
    BY <2>1, <2>2, <1>4 DEF BlockAt
  <2>3. CASE pos >= c.rows /\ there.at >= c.rows
    <3>1. stop = c.rows /\ Min({pos + c.stride, c.rows}) = c.rows
      BY <1>0, <1>3, <2>1, <2>3
    <3>2. Upto(there.at + 1, c.rows) = <<>> /\ Upto(pos + 1, c.rows) = <<>>
      <4>1. /\ there.at + 1 \in Int /\ pos + 1 \in Int /\ c.rows \in Int
            /\ c.rows < there.at + 1 /\ c.rows < pos + 1
        BY <1>0, <1>3, <2>3
      <4> QED BY <4>1, UptoFacts
    <3> QED BY <1>4, <3>1, <3>2 DEF BlockAt
  <2> QED BY <1>2, <2>2, <2>3
<1> HIDE DEF b, stop
<1> DEFINE its == [i \in Iterators |->
                    IF c.its[i].on /\ c.its[i].pos = pos
                    THEN [c.its[i] EXCEPT !.here = BlockAt(c, pos)] ELSE c.its[i]]
           s == [b EXCEPT !.its = its]
<1>6. ServiceOne(c, pos) = s
  BY <1>4, <1>5 DEF ServiceOne, Filled, b, there
<1>7. its \in [Iterators -> IteratorType]
  <2>1. BlockAt(c, pos) \in Seq(Int)
    BY <1>0, BlockIsSeq
  <2> QED BY <1>0, <2>1 DEF IteratorType
<1> HIDE DEF its
<1>8. b \in CursorType
  BY <1>4 DEF Streaming, Located
<1>9. /\ s \in CursorType /\ SameButPlace(b, s) /\ s.its = its /\ s.at = b.at
      /\ s.pos = b.pos /\ s.endpos = b.endpos /\ s.at_end = b.at_end /\ s.realpos = b.realpos
  BY <1>7, <1>8 DEF CursorType, SameButPlace
<1> HIDE DEF s
<1>10. Streaming(s)
  BY <1>4, <1>9 DEF Streaming, Located, SameButPlace
<1>11. SameButPlace(c, s)
  BY <1>2, <1>4, <1>9 DEF SameButPlace
<1>12. b.realpos \in Nat
  BY <1>8 DEF CursorType
<1>13. c.realpos <= s.realpos /\ s.realpos <= pos + c.stride
  BY <1>0, <1>2, <1>3, <1>4, <1>9, <1>12
<1> QED BY <1>6, <1>9, <1>10, <1>11, <1>13 DEF its

\* The loop of service_iterators, and its round for a position.
Todo(c) == {c.its[i].pos : i \in {i \in Iterators : c.its[i].on}}
Round(c, n, x) == IF c.realpos + n \in Todo(c) THEN ServiceOne(x, c.realpos + n) ELSE x
\* After n rounds the iterators at the next n positions have their blocks, the others are as
\* they were, and the stream is not past a position at which an iterator may still wait.
Serviced(c, n, x) ==
    /\ Streaming(x) /\ SameButPlace(c, x) /\ c.realpos <= x.realpos
    /\ \A i \in Iterators :
          /\ x.its[i].on = c.its[i].on /\ x.its[i].pos = c.its[i].pos
          /\ x.its[i].read = c.its[i].read /\ x.its[i].late = c.its[i].late
          /\ x.its[i].here =
                IF c.its[i].on /\ c.realpos <= c.its[i].pos /\ c.its[i].pos < c.realpos + n
                THEN BlockAt(c, c.its[i].pos) ELSE c.its[i].here
    /\ \A p \in Nat : Aligned(c, p) /\ c.realpos + n <= p => x.realpos <= p

\* A round keeps that.
LEMMA RoundTrue ==
  ASSUME NEW c, Streaming(c), \A i \in Iterators : Held(c, c.its[i]),
         NEW n \in Nat, NEW x, Serviced(c, n, x)
  PROVE  Serviced(c, n + 1, Round(c, n, x))
<1>0. /\ c \in CursorType /\ c.realpos \in Nat /\ c.stride \in Nat /\ c.stride > 0
      /\ c.its \in [Iterators -> IteratorType] /\ \A i \in Iterators : c.its[i].pos \in Nat
      /\ x \in CursorType /\ x.realpos \in Nat
      /\ Streaming(x) /\ SameButPlace(c, x) /\ c.realpos <= x.realpos
      /\ x.stride = c.stride /\ x.rows = c.rows
  <2>1. c \in CursorType /\ x \in CursorType
    BY DEF Streaming, Located, Serviced
  <2>2. \A i \in Iterators : c.its[i].pos \in Nat
    BY <2>1 DEF CursorType, IteratorType
  <2> QED BY <2>1, <2>2 DEF CursorType, Serviced, SameButPlace
<1> DEFINE pos == c.realpos + n
<1>1. pos \in Nat
  BY <1>0
<1>2. CASE pos \in Todo(c)
  <2>1. PICK j \in Iterators : c.its[j].on /\ c.its[j].pos = pos
    BY <1>2 DEF Todo
  <2>2. Aligned(c, pos)
    BY <2>1 DEF Held
  <2>3. x.realpos <= pos
    BY <1>1, <2>2 DEF Serviced
  <2> DEFINE s == ServiceOne(x, pos)
  <2> HIDE DEF pos
  <2>4. /\ Streaming(s) /\ SameButPlace(x, s)
        /\ x.realpos <= s.realpos /\ s.realpos <= pos + c.stride
        /\ s.its = [i \in Iterators |->
                    IF x.its[i].on /\ x.its[i].pos = pos
                    THEN [x.its[i] EXCEPT !.here = BlockAt(x, pos)] ELSE x.its[i]]
    BY <1>0, <1>1, <2>3, ServiceOneTrue
  <2>5. s.realpos \in Nat
    BY <2>4 DEF Streaming, Located, CursorType
  <2> HIDE DEF s
  <2>6. SameButPlace(c, s) /\ c.realpos <= s.realpos
    BY <1>0, <2>4, <2>5 DEF SameButPlace
  <2>7. BlockAt(x, pos) = BlockAt(c, pos)
    BY <1>0 DEF BlockAt
  <2>8. ASSUME NEW i \in Iterators
        PROVE  /\ s.its[i].on = c.its[i].on /\ s.its[i].pos = c.its[i].pos
               /\ s.its[i].read = c.its[i].read /\ s.its[i].late = c.its[i].late
               /\ s.its[i].here =
                     IF c.its[i].on /\ c.realpos <= c.its[i].pos /\ c.its[i].pos < c.realpos + (n + 1)
                     THEN BlockAt(c, c.its[i].pos) ELSE c.its[i].here
    <3>1. /\ x.its[i].on = c.its[i].on /\ x.its[i].pos = c.its[i].pos
          /\ x.its[i].read = c.its[i].read /\ x.its[i].late = c.its[i].late
          /\ x.its[i].here =
                IF c.its[i].on /\ c.realpos <= c.its[i].pos /\ c.its[i].pos < c.realpos + n
                THEN BlockAt(c, c.its[i].pos) ELSE c.its[i].here
      BY DEF Serviced
    <3>2. x.its[i] \in IteratorType
      BY <1>0 DEF CursorType
    <3>3. CASE c.its[i].on /\ c.its[i].pos = pos
      <4>1. s.its[i] = [x.its[i] EXCEPT !.here = BlockAt(c, pos)]
        BY <2>4, <2>7, <3>1, <3>3
      <4>2. /\ s.its[i].on = c.its[i].on /\ s.its[i].pos = c.its[i].pos
            /\ s.its[i].read = c.its[i].read /\ s.its[i].late = c.its[i].late
            /\ s.its[i].here = BlockAt(c, pos)
        BY <3>1, <3>2, <4>1 DEF IteratorType
      <4>3. c.realpos <= c.its[i].pos /\ c.its[i].pos < c.realpos + (n + 1)
        BY <1>0, <3>3 DEF pos
      <4> QED BY <3>3, <4>2, <4>3
    <3>4. CASE ~(c.its[i].on /\ c.its[i].pos = pos)
      <4>1. s.its[i] = x.its[i]
        BY <2>4, <3>1, <3>4
      <4>2. c.its[i].on => (c.its[i].pos < c.realpos + (n + 1) <=> c.its[i].pos < c.realpos + n)
        BY <1>0, <3>4 DEF pos
      <4> QED BY <3>1, <4>1, <4>2
    <3> QED BY <3>3, <3>4
  <2>9. ASSUME NEW p \in Nat, Aligned(c, p), c.realpos + (n + 1) <= p
        PROVE  s.realpos <= p
    <3>1. pos < p
      BY <1>0, <2>9 DEF pos
    <3>2. pos + c.stride <= p
      BY <1>0, <1>1, <2>2, <2>9, <3>1, AlignedApart
    <3> QED BY <1>0, <1>1, <2>4, <2>5, <3>2
  <2>10. Round(c, n, x) = s
    BY <1>2 DEF Round, s, pos
  <2> QED BY <2>4, <2>6, <2>8, <2>9, <2>10 DEF Serviced
<1>3. CASE pos \notin Todo(c)
  <2>1. Round(c, n, x) = x
    BY <1>3 DEF Round
  <2>2. ASSUME NEW i \in Iterators, c.its[i].on
        PROVE  c.its[i].pos < c.realpos + (n + 1) <=> c.its[i].pos < c.realpos + n
    <3>1. c.its[i].pos # pos
      BY <1>3, <2>2 DEF Todo
    <3> QED BY <1>0, <3>1
  <2>3. ASSUME NEW i \in Iterators
        PROVE  x.its[i].here =
                 IF c.its[i].on /\ c.realpos <= c.its[i].pos /\ c.its[i].pos < c.realpos + (n + 1)
                 THEN BlockAt(c, c.its[i].pos) ELSE c.its[i].here
    BY <2>2 DEF Serviced
  <2>4. ASSUME NEW p \in Nat, Aligned(c, p), c.realpos + (n + 1) <= p
        PROVE  x.realpos <= p
    BY <1>0, <2>4 DEF Serviced
  <2> QED BY <2>1, <2>3, <2>4 DEF Serviced
<1> QED BY <1>2, <1>3

\* The rounds of the loop, by their number.
AreRounds(c, g) ==
    g = [n \in Nat |-> IF n = 0 THEN c
                       ELSE IF c.realpos + n - 1 \in Todo(c)
                            THEN ServiceOne(g[n - 1], c.realpos + n - 1) ELSE g[n - 1]]

\* All rounds keep what a round keeps.
LEMMA RoundsServe ==
  ASSUME NEW c, Streaming(c), \A i \in Iterators : Held(c, c.its[i]),
         NEW g, g[0] = c, \A n \in Nat : Serviced(c, n, g[n]) => g[n + 1] = Round(c, n, g[n])
  PROVE  \A n \in Nat : Serviced(c, n, g[n])
<1> DEFINE T == {n \in Nat : Serviced(c, n, g[n])}
<1>1. 0 \in T
  <2>1. c \in CursorType /\ c.realpos \in Nat /\ \A i \in Iterators : c.its[i].pos \in Nat
    BY DEF Streaming, Located, CursorType, IteratorType
  <2>2. Serviced(c, 0, c)
    BY <2>1 DEF Serviced, SameButPlace
  <2> QED BY <2>2
<1>2. ASSUME NEW n \in Nat, n \in T PROVE n + 1 \in T
  <2>1. Serviced(c, n, g[n]) /\ g[n + 1] = Round(c, n, g[n])
    BY <1>2
  <2>2. Serviced(c, n + 1, Round(c, n, g[n]))
    BY <2>1, RoundTrue
  <2> QED BY <2>1, <2>2
<1> HIDE DEF T
<1>3. Nat \subseteq T
  BY <1>1, <1>2, SetInduction
<1> QED BY <1>3 DEF T

\* The loop ends, and the recursive function that stands for it is defined.
LEMMA RoundsExist ==
  ASSUME NEW c, Streaming(c), \A i \in Iterators : Held(c, c.its[i])
  PROVE  \E g : AreRounds(c, g)
<1> DEFINE f == [n \in Nat |-> [x \in CursorType |->
                    IF Round(c, n, x) \in CursorType THEN Round(c, n, x) ELSE x]]
<1>1. f \in Steps(CursorType)
  BY DEF Steps
<1>2. c \in CursorType
  BY DEF Streaming, Located
<1> HIDE DEF f
<1>a. PICK g : IsLoop(CursorType, f, c, g)
  BY <1>1, <1>2, LoopExists
<1>3. g \in [Nat -> CursorType] /\ g[0] = c /\ \A n \in Nat : g[n + 1] = f[n][g[n]]
  BY <1>a DEF IsLoop
<1>4. ASSUME NEW n \in Nat, Serviced(c, n, g[n]) PROVE g[n + 1] = Round(c, n, g[n])
  <2>1. Serviced(c, n + 1, Round(c, n, g[n]))
    BY <1>4, RoundTrue
  <2>2. Round(c, n, g[n]) \in CursorType
    BY <2>1 DEF Serviced, Streaming, Located
  <2>3. g[n] \in CursorType
    BY <1>3
  <2> QED BY <1>3, <2>2, <2>3 DEF f
<1>5. \A n \in Nat : Serviced(c, n, g[n])
  BY <1>3, <1>4, RoundsServe
<1>6. \A n \in Nat : g[n + 1] = Round(c, n, g[n])
  BY <1>4, <1>5
<1>7. ASSUME NEW n \in Nat
      PROVE  g[n] = IF n = 0 THEN c
                    ELSE IF c.realpos + n - 1 \in Todo(c)
                         THEN ServiceOne(g[n - 1], c.realpos + n - 1) ELSE g[n - 1]
  <2>1. CASE n = 0
    BY <1>3, <2>1
  <2>2. CASE n # 0
    <3>1. n - 1 \in Nat /\ (n - 1) + 1 = n /\ c.realpos + (n - 1) = c.realpos + n - 1
      BY <1>2, <2>2 DEF CursorType
    <3>2. g[n] = Round(c, n - 1, g[n - 1])
      BY <1>6, <3>1
    <3> QED BY <2>2, <3>1, <3>2 DEF Round
  <2> QED BY <2>1, <2>2
<1>8. AreRounds(c, g)
  BY <1>3, <1>7 DEF AreRounds
<1> QED BY <1>8

\* service_iterators gives every iterator up to topos, before which the stream has not been
\* read, its block; the others keep what they hold.
LEMMA ServiceTrue ==
  ASSUME NEW c, Streaming(c), \A i \in Iterators : Held(c, c.its[i]), NEW topos \in Nat
  PROVE  LET s == ServiceIterators(c, topos)
         IN  /\ Streaming(s) /\ SameButPlace(c, s)
             /\ \A i \in Iterators : Held(s, s.its[i])
             /\ \A i \in Iterators :
                   /\ s.its[i].on = c.its[i].on /\ s.its[i].pos = c.its[i].pos
                   /\ s.its[i].late = c.its[i].late
                   /\ c.its[i].on /\ ~c.its[i].late /\ c.its[i].pos = topos =>
                         s.its[i].here = BlockAt(s, topos)
<1>0. c \in CursorType /\ c.realpos \in Nat /\ \A i \in Iterators : c.its[i].pos \in Nat
  BY DEF Streaming, Located, CursorType, IteratorType
<1> DEFINE served == CHOOSE g : AreRounds(c, g)
           s == ServiceIterators(c, topos)
<1>1. s = IF topos < c.realpos THEN c ELSE served[topos - c.realpos + 1]
  BY DEF ServiceIterators, AreRounds, Todo
<1>2. AreRounds(c, served)
  BY RoundsExist
<1> HIDE DEF served, s
<1>3. served[0] = c
  BY <1>2 DEF AreRounds
<1>4. ASSUME NEW n \in Nat PROVE served[n + 1] = Round(c, n, served[n])
  <2>1. n + 1 \in Nat /\ n + 1 # 0 /\ c.realpos + (n + 1) - 1 = c.realpos + n /\ (n + 1) - 1 = n
    BY <1>0
  <2> QED BY <1>2, <2>1 DEF AreRounds, Round
<1>5. \A n \in Nat : Serviced(c, n, served[n])
  BY <1>3, <1>4, RoundsServe
<1>6. CASE topos < c.realpos
  <2>1. s = c
    BY <1>1, <1>6
  <2>2. ASSUME NEW i \in Iterators, c.its[i].on, ~c.its[i].late, c.its[i].pos = topos
        PROVE  c.its[i].here = BlockAt(c, topos)
    BY <1>6, <2>2 DEF Held
  <2> QED BY <2>1, <2>2 DEF SameButPlace, s
<1>7. CASE ~(topos < c.realpos)
  <2> DEFINE n == topos - c.realpos + 1
  <2>1. n \in Nat /\ c.realpos + n = topos + 1 /\ s = served[n]
    BY <1>0, <1>1, <1>7
  <2> HIDE DEF n
  <2>2. Serviced(c, n, s)
    BY <1>5, <2>1
  <2>3. s \in CursorType /\ s.realpos \in Nat /\ s.stride = c.stride /\ s.rows = c.rows
    BY <2>2 DEF Serviced, Streaming, Located, CursorType, SameButPlace
  <2>4. \A p : BlockAt(s, p) = BlockAt(c, p) /\ (Aligned(s, p) <=> Aligned(c, p))
    BY <2>3 DEF BlockAt, Aligned
  <2>5. ASSUME NEW i \in Iterators
        PROVE  /\ s.its[i].on = c.its[i].on /\ s.its[i].pos = c.its[i].pos
               /\ s.its[i].read = c.its[i].read /\ s.its[i].late = c.its[i].late
               /\ s.its[i].here =
                     IF c.its[i].on /\ c.realpos <= c.its[i].pos /\ c.its[i].pos <= topos
                     THEN BlockAt(c, c.its[i].pos) ELSE c.its[i].here
    <3>1. c.its[i].pos < c.realpos + n <=> c.its[i].pos <= topos
      BY <1>0, <2>1
    <3> QED BY <2>2, <3>1 DEF Serviced
  <2>6. ASSUME NEW i \in Iterators, c.its[i].on, ~c.its[i].late, c.its[i].pos = topos
        PROVE  s.its[i].here = BlockAt(s, topos)
    <3>1. c.realpos <= c.its[i].pos /\ c.its[i].pos <= topos
      BY <1>0, <1>7, <2>6
    <3> QED BY <2>4, <2>5, <2>6, <3>1
  <2>7. ASSUME NEW i \in Iterators PROVE Held(s, s.its[i])
    <3>1. SUFFICES ASSUME c.its[i].on
                   PROVE  /\ Aligned(c, c.its[i].pos)
                          /\ ~c.its[i].late /\ (c.its[i].pos < s.realpos \/ c.its[i].read) =>
                                s.its[i].here = BlockAt(c, c.its[i].pos)
      BY <2>4, <2>5 DEF Held
    <3>2. Aligned(c, c.its[i].pos)
      BY <3>1 DEF Held
    <3>3. SUFFICES ASSUME ~c.its[i].late, c.its[i].pos < s.realpos \/ c.its[i].read
                   PROVE  s.its[i].here = BlockAt(c, c.its[i].pos)
      BY <3>2
    <3>4. CASE c.realpos <= c.its[i].pos /\ c.its[i].pos <= topos
      BY <2>5, <3>1, <3>4
    <3>5. CASE c.its[i].pos < c.realpos
      <4>1. c.its[i].here = BlockAt(c, c.its[i].pos)
        BY <3>1, <3>3, <3>5 DEF Held
      <4>2. ~(c.realpos <= c.its[i].pos)
        BY <1>0, <3>5
      <4> QED BY <2>5, <4>1, <4>2
    <3>6. CASE c.its[i].pos > topos
      <4>1. s.realpos <= c.its[i].pos
        BY <1>0, <2>1, <2>2, <3>2, <3>6 DEF Serviced
      <4>2. c.its[i].read
        BY <1>0, <2>3, <3>3, <4>1
      <4>3. c.its[i].here = BlockAt(c, c.its[i].pos)
        BY <3>1, <3>3, <4>2 DEF Held
      <4>4. ~(c.its[i].pos <= topos)
        BY <1>0, <3>6
      <4> QED BY <2>5, <4>3, <4>4
    <3> QED BY <1>0, <3>4, <3>5, <3>6
  <2>8. Streaming(s) /\ SameButPlace(c, s)
    BY <2>2 DEF Serviced
  <2> QED BY <2>5, <2>6, <2>7, <2>8 DEF s
<1> QED BY <1>6, <1>7

(***************************************************************************)
(* Cursors that are not streams.                                           *)
(***************************************************************************)
\* The new and the adopted cursor.
LEMMA BornTrue ==
  ASSUME NEW use \in {"sql", "stateless", "stream"}, NEW rows \in 0 .. MaxRows,
         NEW scroll \in BOOLEAN
  PROVE  LET d == Declared(use, rows, scroll)
         IN  /\ Located(d) /\ d.pos = d.at /\ d.at = 0 /\ d.use = use /\ d.rows = rows
             /\ d.scroll = scroll /\ d.realpos = 0 /\ d.reqpos = 0 /\ d.asked = <<>>
             /\ d.its = [i \in Iterators |-> NoIterator]
<1> DEFINE d == Declared(use, rows, scroll)
<1>1. <<>> \in Seq(Int)
  OBVIOUS
<1>2. [i \in Iterators |-> NoIterator] \in [Iterators -> IteratorType]
  BY <1>1 DEF NoIterator, IteratorType
<1>3. NoCursor \in CursorType
  BY <1>1, <1>2 DEF NoCursor, CursorType
<1>4. rows \in Nat /\ rows <= MaxRows
  BY CursorAssumption
<1>5. /\ d \in CursorType /\ d.use = use /\ d.rows = rows /\ d.scroll = scroll
      /\ d.pos = 0 /\ d.at = 0 /\ d.endpos = -1 /\ d.at_end = -1 /\ d.realpos = 0
      /\ d.reqpos = 0 /\ d.asked = <<>> /\ d.thrown = "none"
      /\ d.its = [i \in Iterators |-> NoIterator]
  <2> DEFINE its == [i \in Iterators |-> NoIterator]
  <2>1. its \in [Iterators -> IteratorType]
    BY <1>2
  <2> HIDE DEF its
  <2>2. NoCursor.its = its
    BY DEF NoCursor, its
  <2>3. /\ NoCursor.pos = 0 /\ NoCursor.at = 0 /\ NoCursor.endpos = -1 /\ NoCursor.at_end = -1
        /\ NoCursor.realpos = 0 /\ NoCursor.reqpos = 0 /\ NoCursor.asked = <<>>
        /\ NoCursor.thrown = "none"
    BY DEF NoCursor
  <2>4. /\ d \in CursorType /\ d.use = use /\ d.rows = rows /\ d.scroll = scroll
        /\ d.pos = NoCursor.pos /\ d.at = NoCursor.at /\ d.endpos = NoCursor.endpos
        /\ d.at_end = NoCursor.at_end /\ d.realpos = NoCursor.realpos
        /\ d.reqpos = NoCursor.reqpos /\ d.asked = NoCursor.asked
        /\ d.thrown = NoCursor.thrown /\ d.its = NoCursor.its
    BY <1>3, <1>4 DEF Declared, CursorType
  <2> QED BY <2>2, <2>3, <2>4 DEF its
<1> HIDE DEF d
<1> QED BY <1>4, <1>5 DEF Located, d

\* The same of a cursor that sql_cursor or stateless_cursor adopts.
LEMMA AdoptedTrue ==
  ASSUME NEW use \in {"sql", "stateless"}, NEW rows \in Nat, rows <= MaxRows,
         NEW at \in Nat, at <= rows + 1, NEW owned \in BOOLEAN
  PROVE  LET a == Adopted(use, rows, at, owned)
         IN  /\ Located(a) /\ a.at = at /\ a.use = use /\ a.rows = rows
             /\ a.scroll /\ a.asked = <<>>
<1> DEFINE d == Declared(use, rows, TRUE)
           a == [d EXCEPT !.at = at, !.pos = -1, !.at_end = 0, !.owned = owned]
<1>1. /\ Located(d) /\ d.use = use /\ d.rows = rows /\ d.scroll = TRUE /\ d.asked = <<>>
      /\ d.pos = 0 /\ d.at = 0
  <2>1. use \in {"sql", "stateless", "stream"} /\ rows \in 0 .. MaxRows
    BY CursorAssumption
  <2>2. PICK scroll \in BOOLEAN : scroll = TRUE
    OBVIOUS
  <2> DEFINE e == Declared(use, rows, scroll)
  <2>3. /\ Located(e) /\ e.use = use /\ e.rows = rows /\ e.scroll = scroll /\ e.asked = <<>>
        /\ e.pos = 0 /\ e.at = 0
    BY <2>1, BornTrue
  <2> QED BY <2>2, <2>3
<1>2. d \in CursorType /\ rows \in Nat /\ rows <= MaxRows /\ at \in Nat /\ at <= rows + 1
  <2>1. d \in CursorType
    BY <1>1 DEF Located
  <2>2. rows \in Nat /\ rows <= MaxRows /\ at \in Nat /\ at <= rows + 1
    BY CursorAssumption
  <2> QED BY <2>1, <2>2
<1>3. d.endpos = -1
  BY DEF Declared, NoCursor
<1>4. Adopted(use, rows, at, owned) = a
  BY DEF Adopted
<1> HIDE DEF d
<1>5. /\ a \in CursorType /\ a.use = use /\ a.rows = rows /\ a.scroll = TRUE /\ a.asked = <<>>
      /\ a.pos = -1 /\ a.at = at /\ a.at_end = 0 /\ a.endpos = -1 /\ a.thrown = d.thrown
  BY <1>1, <1>2, <1>3 DEF CursorType
<1> HIDE DEF a
<1>6. Located(a)
  BY <1>1, <1>2, <1>5 DEF Located
<1> QED BY <1>4, <1>5, <1>6

\* The size: the end is known, and the cursor is where it was or at the end.
LEMMA SizedTrue ==
  ASSUME NEW c, Located(c), c.pos = c.at, c.scroll
  PROVE  LET s == Sized(c)
         IN  /\ Located(s) /\ SameStream(c, s) /\ s.pos = s.at /\ s.endpos = c.rows + 1
             /\ s.got = c.got /\ s.thrown = c.thrown
<1>0. c.at \in Nat /\ c.rows \in Nat /\ c.rows <= MaxRows /\ MaxRows \in Nat
  BY CursorAssumption DEF Located, CursorType
<1>1. CASE c.endpos = -1
  <2>1. All \in Int /\ All > 0 /\ c.at + All > c.rows /\ c.pos # -1
    BY <1>0 DEF All
  <2>2. Shifted(c, All, MoveRows(c, All)) /\ MoveRows(c, All).got = c.got
    BY <2>1, MoveTrue
  <2> DEFINE s == MoveRows(c, All)
  <2> HIDE DEF s
  <2>3. Shifted(c, All, s) /\ s.got = c.got
    BY <2>2 DEF s
  <2>4. /\ Located(s) /\ SameStream(c, s) /\ s.pos = s.at /\ s.endpos = c.rows + 1
        /\ s.thrown = c.thrown
    BY <2>1, <2>3 DEF Shifted
  <2> QED BY <1>1, <2>3, <2>4 DEF Sized, s
<1>2. CASE c.endpos # -1
  <2>1. Sized(c) = c /\ c.endpos = c.rows + 1
    BY <1>2 DEF Sized, Located
  <2> QED BY <2>1 DEF SameStream
<1> QED BY <1>1, <1>2

\* stateless_cursor_retrieve.
LEMMA RetrievedTrue ==
  ASSUME NEW c, Located(c), c.pos = c.at, c.scroll, c.endpos = c.rows + 1,
         c.thrown = "none", NEW begin_pos \in Int, NEW end_pos \in Int
  PROVE  LET r == Retrieved(c, begin_pos, end_pos)
         IN  Located(r) /\ r.use = c.use /\ r.pos = r.at /\ r.scroll /\ Retrieval(r)
<1>0. /\ c \in CursorType /\ c.at \in Nat /\ c.rows \in Nat /\ c.at <= c.rows + 1
      /\ Size(c) = c.rows
  <2>1. c \in CursorType /\ c.at \in Nat /\ c.rows \in Nat /\ c.at <= c.rows + 1
    BY DEF Located, CursorType
  <2> QED BY <2>1 DEF Size
<1> DEFINE size == c.rows
           stop == IF end_pos < -1 THEN -1 ELSE IF end_pos > size THEN size ELSE end_pos
           direction == IF begin_pos < stop THEN 1 ELSE -1
           n == MoveTo(c, begin_pos, direction)
           moved == MoveRows(c, n)
           r == Retrieved(c, begin_pos, end_pos)
           asked == <<begin_pos, end_pos>>
<1>a. asked \in Seq(Int) /\ asked # <<>> /\ asked[1] = begin_pos /\ asked[2] = end_pos
  OBVIOUS
<1>b. <<>> \in Seq(Int)
  OBVIOUS
<1>1. CASE begin_pos < 0 \/ begin_pos > size
  <2>1. r = [c EXCEPT !.got = <<>>, !.asked = <<>>]
    BY <1>0, <1>1 DEF Retrieved
  <2>2. /\ r \in CursorType /\ r.use = c.use /\ r.rows = c.rows /\ r.at = c.at /\ r.pos = c.pos
        /\ r.endpos = c.endpos /\ r.at_end = c.at_end /\ r.thrown = c.thrown
        /\ r.scroll = c.scroll /\ r.asked = <<>>
    BY <1>0, <1>b, <2>1 DEF CursorType
  <2> HIDE DEF r
  <2>3. Located(r)
    BY <2>2 DEF Located
  <2> QED BY <2>2, <2>3 DEF Retrieval, r
<1>2. CASE ~(begin_pos < 0 \/ begin_pos > size) /\ begin_pos = stop
  <2>1. r = [c EXCEPT !.got = <<>>, !.asked = asked]
    BY <1>0, <1>2 DEF Retrieved
  <2> HIDE DEF asked
  <2>2. /\ r \in CursorType /\ r.use = c.use /\ r.rows = c.rows /\ r.at = c.at /\ r.pos = c.pos
        /\ r.endpos = c.endpos /\ r.at_end = c.at_end /\ r.thrown = c.thrown
        /\ r.scroll = c.scroll /\ r.asked = asked /\ r.got = <<>>
    BY <1>0, <1>a, <1>b, <2>1 DEF CursorType
  <2> HIDE DEF r
  <2>3. Located(r)
    BY <2>2 DEF Located
  <2>4. RangeIn(r, begin_pos, end_pos) = <<>>
    <3>1. /\ begin_pos <= end_pos
          /\ (IF end_pos <= r.rows THEN end_pos ELSE r.rows) = begin_pos
      BY <1>0, <1>2, <2>2
    <3>2. Min({end_pos, r.rows}) = begin_pos
      BY <1>0, <2>2, <3>1, MinOfTwo
    <3>3. begin_pos + 1 \in Int /\ begin_pos < begin_pos + 1
      OBVIOUS
    <3>4. Upto(begin_pos + 1, begin_pos) = <<>>
      BY <3>3, UptoFacts
    <3> QED BY <3>1, <3>2, <3>4 DEF RangeIn
  <2> QED BY <1>a, <2>2, <2>3, <2>4 DEF Retrieval, r
<1>3. CASE ~(begin_pos < 0 \/ begin_pos > size) /\ begin_pos # stop
  <2>1. /\ begin_pos \in 0 .. size /\ stop \in -1 .. size
        /\ direction = 1 => begin_pos < stop
        /\ direction = -1 => stop < begin_pos
        /\ direction \in {1, -1}
    BY <1>0, <1>3
  <2>2. n \in Int /\ c.at + n = begin_pos - direction + 1
    BY <1>0, <2>1 DEF MoveTo
  <2> HIDE DEF n
  <2>3. Shifted(c, n, moved)
    BY <2>2, MoveTrue
  <2>4. /\ Located(moved) /\ SameStream(c, moved) /\ moved.thrown = "none" /\ moved.pos = moved.at
        /\ moved.at = IF n = 0 THEN c.at ELSE Lands(c, n)
    BY <1>0, <2>2, <2>3 DEF Shifted
  <2> DEFINE k == stop - begin_pos
             f == FetchRows(moved, k)
             t == [f EXCEPT !.asked = asked]
  <2>5. r = t
    BY <1>0, <1>3, <2>1, <2>4 DEF Retrieved, n
  <2>6. k \in Int /\ k # 0 /\ (k > 0 <=> direction = 1)
    BY <1>0, <2>1
  <2> HIDE DEF moved, k
  <2>7. moved.scroll = c.scroll /\ moved.use = c.use /\ moved.rows = c.rows
    BY <2>4 DEF SameStream
  <2>8. Shifted(moved, k, f) /\ f.got = Visits(moved, k)
    <3>1. k > 0 \/ (k < 0 /\ moved.scroll)
      BY <2>6, <2>7
    <3> QED BY <2>4, <2>6, <3>1, FetchTrue
  <2> HIDE DEF f
  <2>9. /\ Located(f) /\ f.pos = f.at /\ f.scroll = c.scroll /\ f.use = c.use /\ f.rows = c.rows
        /\ f \in CursorType
    <3>1. moved.pos # -1
      <4>1. moved \in CursorType
        BY <2>4 DEF Located
      <4>2. moved.at \in Nat
        BY <4>1 DEF CursorType
      <4> QED BY <2>4, <4>2
    <3>2. Located(f) /\ SameStream(moved, f) /\ f.pos = f.at
      BY <2>8, <3>1 DEF Shifted
    <3> QED BY <2>7, <3>2 DEF SameStream, Located
  <2> HIDE DEF asked
  <2>10. /\ t \in CursorType /\ t.use = f.use /\ t.rows = f.rows /\ t.at = f.at /\ t.pos = f.pos
         /\ t.endpos = f.endpos /\ t.at_end = f.at_end /\ t.thrown = f.thrown
         /\ t.scroll = f.scroll /\ t.asked = asked /\ t.got = f.got
    BY <1>a, <2>9 DEF CursorType
  <2> HIDE DEF t
  <2>11. Located(t)
    BY <2>9, <2>10 DEF Located
  <2>12. /\ moved \in CursorType /\ moved.at \in Nat /\ moved.at <= moved.rows + 1
    BY <2>4 DEF Located, CursorType
  <2>13. CASE direction = 1
    <3>1. begin_pos < stop /\ k > 0 /\ c.at + n = begin_pos
      BY <2>1, <2>2, <2>6, <2>13
    <3>2. moved.at = begin_pos
      <4>1. n > 0 => Lands(c, n) = IF c.at + n <= c.rows + 1 THEN c.at + n ELSE c.rows + 1
        BY <1>0, <2>2, Forwards
      <4>2. n < 0 => Lands(c, n) = IF c.at + n >= 0 THEN c.at + n ELSE 0
        BY <1>0, <2>2, Backwards
      <4> QED BY <1>0, <2>1, <2>2, <2>4, <3>1, <4>1, <4>2
    <3>3. Visits(moved, k) = Upto(moved.at + 1, IF moved.at + k <= moved.rows THEN moved.at + k ELSE moved.rows)
      BY <2>6, <2>12, <3>1, Forwards
    <3>4. moved.at + k = stop
      BY <1>0, <2>1, <3>2 DEF k
    <3>5. Visits(moved, k) = Upto(begin_pos + 1, stop)
      BY <1>0, <2>1, <2>7, <3>2, <3>3, <3>4
    <3>6. begin_pos <= end_pos /\ stop = IF end_pos <= c.rows THEN end_pos ELSE c.rows
      BY <1>0, <2>1, <3>1
    <3>7. Min({end_pos, c.rows}) = stop
      BY <1>0, <3>6, MinOfTwo
    <3>8. RangeIn(t, begin_pos, end_pos) = Upto(begin_pos + 1, stop)
      BY <2>9, <2>10, <3>6, <3>7 DEF RangeIn
    <3>9. Retrieval(t)
      BY <1>a, <2>8, <2>10, <3>5, <3>8 DEF Retrieval
    <3> QED BY <2>5, <2>9, <2>10, <2>11, <3>9
  <2>14. CASE direction = -1
    <3>1. stop < begin_pos /\ k < 0 /\ c.at + n = begin_pos + 2
      BY <1>0, <2>1, <2>2, <2>6, <2>14
    <3>2. end_pos < begin_pos
      BY <1>0, <2>1, <3>1
    <3>3. CASE begin_pos = c.rows
      <4>1. moved.at = c.rows + 1
        <5>1. n > 0 /\ c.at + n = c.rows + 2
          BY <1>0, <2>2, <3>1, <3>3
        <5>2. Lands(c, n) = IF c.at + n <= c.rows + 1 THEN c.at + n ELSE c.rows + 1
          BY <1>0, <2>2, <5>1, Forwards
        <5> QED BY <1>0, <2>2, <2>4, <5>1, <5>2
      <4>2. Visits(moved, k) = Downto(moved.at - 1, IF moved.at + k >= 1 THEN moved.at + k ELSE 1)
        BY <2>6, <2>12, <3>1, Backwards
      <4>3. moved.at + k = stop + 1 /\ moved.at - 1 = c.rows
        BY <1>0, <2>1, <3>3, <4>1 DEF k
      <4>4. Visits(moved, k) = Downto(c.rows, IF stop + 1 >= 1 THEN stop + 1 ELSE 1)
        BY <4>2, <4>3
      <4>5. Max({end_pos + 1, 1}) = IF end_pos + 1 >= 1 THEN end_pos + 1 ELSE 1
        BY MaxOfTwo
      <4>6. Max({end_pos + 1, 1}) = IF stop + 1 >= 1 THEN stop + 1 ELSE 1
        BY <1>0, <2>1, <3>2, <3>3, <4>5
      <4>7. RangeIn(t, begin_pos, end_pos) = Downto(c.rows, Max({end_pos + 1, 1}))
        BY <1>0, <2>1, <2>9, <2>10, <3>2, <3>3 DEF RangeIn
      <4>8. Retrieval(t)
        BY <1>a, <2>8, <2>10, <4>4, <4>6, <4>7 DEF Retrieval
      <4> QED BY <2>5, <2>9, <2>10, <2>11, <4>8
    <3>4. CASE begin_pos # c.rows
      <4>1. moved.at = begin_pos + 2
        <5>1. n > 0 => Lands(c, n) = IF c.at + n <= c.rows + 1 THEN c.at + n ELSE c.rows + 1
          BY <1>0, <2>2, Forwards
        <5>2. n < 0 => Lands(c, n) = IF c.at + n >= 0 THEN c.at + n ELSE 0
          BY <1>0, <2>2, Backwards
        <5> QED BY <1>0, <2>1, <2>2, <2>4, <3>1, <3>4, <5>1, <5>2
      <4>2. Visits(moved, k) = Downto(moved.at - 1, IF moved.at + k >= 1 THEN moved.at + k ELSE 1)
        BY <2>6, <2>12, <3>1, Backwards
      <4>3. moved.at + k = stop + 2 /\ moved.at - 1 = begin_pos + 1 /\ stop + 2 >= 1
        BY <1>0, <2>1, <4>1 DEF k
      <4>4. Visits(moved, k) = Downto(begin_pos + 1, stop + 2)
        BY <4>2, <4>3
      <4>5. Max({end_pos + 2, 1}) = IF end_pos + 2 >= 1 THEN end_pos + 2 ELSE 1
        BY MaxOfTwo
      <4>6. Max({end_pos + 2, 1}) = stop + 2
        BY <1>0, <2>1, <3>2, <4>5
      <4>7. RangeIn(t, begin_pos, end_pos) = Downto(begin_pos + 1, stop + 2)
        BY <1>0, <2>1, <2>9, <2>10, <3>2, <3>4, <4>6 DEF RangeIn
      <4>8. Retrieval(t)
        BY <1>a, <2>8, <2>10, <4>4, <4>7 DEF Retrieval
      <4> QED BY <2>5, <2>9, <2>10, <2>11, <4>8
    <3> QED BY <3>3, <3>4
  <2> QED BY <2>1, <2>13, <2>14
<1> QED BY <1>1, <1>2, <1>3

(***************************************************************************)
(* The steps.                                                              *)
(***************************************************************************)
\* A cursor of one use is in the invariant if that use's part holds.
LEMMA OneUse ==
  ASSUME NEW c
  PROVE  /\ c.use = "sql" /\ Located(c) => SqlInv(c) /\ StatelessInv(c) /\ StreamInv(c)
         /\ c.use = "stateless" /\ Located(c) /\ c.pos = c.at /\ c.scroll /\ Retrieval(c) =>
               SqlInv(c) /\ StatelessInv(c) /\ StreamInv(c)
         /\ c.use = "stream" /\ Streaming(c) /\ Aligned(c, c.reqpos)
               /\ (\A i \in Iterators : Held(c, c.its[i])) =>
               SqlInv(c) /\ StatelessInv(c) /\ StreamInv(c)
  BY DEF SqlInv, StatelessInv, StreamInv

\* There is no cursor at first, and the invariant says nothing of it.
LEMMA InitCursor == CursorInit => CursorInv
<1> SUFFICES ASSUME CursorInit PROVE CursorInv
  OBVIOUS
<1>1. cursor.use = "none"
  BY DEF CursorInit, NoCursor
<1> QED BY <1>1 DEF CursorInv, SqlInv, StatelessInv, StreamInv

\* The constructors.
LEMMA StepBirth ==
  ASSUME NEW rows \in 0 .. MaxRows,
         \/ \E scroll \in BOOLEAN : Declare(rows, scroll)
         \/ \E at \in 0 .. rows + 1 : AdoptStateless(rows, at) \/ \E owned \in BOOLEAN : Adopt(rows, at, owned)
         \/ DeclareStateless(rows)
         \/ \E stride \in 1 .. MaxStep : OpenCursorStream(rows, stride)
  PROVE  CursorInv'
<1>0. rows \in Nat /\ rows <= MaxRows /\ \A at \in 0 .. rows + 1 : at \in Nat /\ at <= rows + 1
  BY CursorAssumption
<1>1. ASSUME NEW scroll \in BOOLEAN, Declare(rows, scroll) PROVE CursorInv'
  <2>1. cursor' = Declared("sql", rows, scroll)
    BY <1>1 DEF Declare
  <2>2. Located(cursor') /\ cursor'.use = "sql"
    BY <2>1, BornTrue
  <2> QED BY <2>2, OneUse DEF CursorInv
<1>2. ASSUME DeclareStateless(rows) PROVE CursorInv'
  <2>1. PICK scroll \in BOOLEAN : scroll = TRUE
    OBVIOUS
  <2>2. cursor' = Declared("stateless", rows, scroll)
    BY <1>2, <2>1 DEF DeclareStateless
  <2>3. /\ Located(cursor') /\ cursor'.use = "stateless" /\ cursor'.pos = cursor'.at
        /\ cursor'.scroll = scroll /\ cursor'.asked = <<>>
    BY <2>2, BornTrue
  <2> QED BY <2>1, <2>3, OneUse DEF CursorInv, Retrieval
<1>3. ASSUME NEW at \in 0 .. rows + 1, NEW owned \in BOOLEAN, Adopt(rows, at, owned)
      PROVE  CursorInv'
  <2>1. cursor' = Adopted("sql", rows, at, owned)
    BY <1>3 DEF Adopt
  <2>2. Located(cursor') /\ cursor'.use = "sql"
    <3>1. at \in Nat /\ at <= rows + 1 /\ rows \in Nat /\ rows <= MaxRows
      BY <1>0
    <3> DEFINE a == Adopted("sql", rows, at, owned)
    <3>2. /\ Located(a) /\ a.use = "sql" /\ a.at = at /\ a.rows = rows /\ a.scroll
          /\ a.asked = <<>>
      BY <3>1, AdoptedTrue
    <3> QED BY <2>1, <3>2
  <2> QED BY <2>2, OneUse DEF CursorInv
<1>4. ASSUME NEW at \in 0 .. rows + 1, AdoptStateless(rows, at) PROVE CursorInv'
  <2>1. PICK owned \in BOOLEAN : owned = TRUE
    OBVIOUS
  <2> DEFINE a == Adopted("stateless", rows, at, owned)
  <2>2. cursor' = MoveRows(a, -All)
    BY <1>4, <2>1 DEF AdoptStateless
  <2>3. /\ Located(a) /\ a.use = "stateless" /\ a.at = at /\ a.rows = rows /\ a.scroll
        /\ a.asked = <<>>
    <3>1. at \in Nat /\ at <= rows + 1 /\ rows \in Nat /\ rows <= MaxRows
      BY <1>0
    <3> QED BY <3>1, AdoptedTrue
  <2> HIDE DEF a
  <2>4. -All \in Int /\ -All < 0 /\ at + (-All) < 1
    BY CursorAssumption DEF All
  <2>5. Shifted(a, -All, cursor')
    BY <2>2, <2>3, <2>4, MoveTrue
  <2>6. Located(cursor') /\ SameStream(a, cursor') /\ cursor'.pos = cursor'.at
    BY <2>3, <2>4, <2>5 DEF Shifted
  <2>7. cursor'.use = "stateless" /\ cursor'.scroll /\ cursor'.asked = <<>>
    BY <2>3, <2>6 DEF SameStream
  <2> QED BY <2>6, <2>7, OneUse DEF CursorInv, Retrieval
<1>5. ASSUME NEW stride \in 1 .. MaxStep, OpenCursorStream(rows, stride) PROVE CursorInv'
  <2>1. PICK scroll \in BOOLEAN : scroll = FALSE
    OBVIOUS
  <2> DEFINE d == Declared("stream", rows, scroll)
  <2>2. cursor' = [d EXCEPT !.stride = stride]
    BY <1>5, <2>1 DEF OpenCursorStream
  <2>3. /\ Located(d) /\ d.pos = d.at /\ d.at = 0 /\ d.use = "stream" /\ d.rows = rows
        /\ d.scroll = scroll /\ d.realpos = 0 /\ d.reqpos = 0
        /\ d.its = [i \in Iterators |-> NoIterator]
    BY BornTrue
  <2> HIDE DEF d
  <2>4. d \in CursorType /\ stride \in Nat \ {0} /\ rows \in Nat
    <3>1. d \in CursorType
      BY <2>3 DEF Located
    <3>2. stride \in Nat \ {0} /\ rows \in Nat
      BY CursorAssumption
    <3> QED BY <3>1, <3>2
  <2> DEFINE e == [d EXCEPT !.stride = stride]
  <2>5. /\ e \in CursorType /\ e.use = "stream" /\ e.rows = rows /\ e.at = 0 /\ e.pos = 0
        /\ e.endpos = d.endpos /\ e.at_end = d.at_end /\ e.thrown = d.thrown
        /\ e.scroll = scroll /\ e.stride = stride /\ e.realpos = 0 /\ e.reqpos = 0
        /\ e.its = d.its
    BY <2>3, <2>4 DEF CursorType
  <2>6. cursor' = e
    BY <2>2
  <2> HIDE DEF e
  <2>7. Located(e)
    BY <2>3, <2>5 DEF Located
  <2>8. Min({e.at, e.rows}) = 0
    BY <2>4, <2>5, MinOfTwo
  <2>9. Streaming(e)
    BY <2>1, <2>5, <2>7, <2>8 DEF Streaming
  <2>10. Aligned(e, 0)
    <3>1. 0 = 0 * e.stride
      BY <2>4, <2>5
    <3> QED BY <3>1 DEF Aligned
  <2>11. \A i \in Iterators : Held(e, e.its[i])
    BY <2>3, <2>5 DEF Held, NoIterator
  <2> QED BY <2>5, <2>6, <2>9, <2>10, <2>11, OneUse DEF CursorInv
<1> QED BY <1>1, <1>2, <1>3, <1>4, <1>5

\* The calls on a cursor that is no stream.
LEMMA StepSql ==
  ASSUME CursorInv, NEW n \in Int, Fetch(n) \/ Move(n)
  PROVE  CursorInv'
<1>1. Located(cursor) /\ cursor.use = "sql"
  BY DEF CursorInv, SqlInv, Fetch, Move, Using
<1>2. Shifted(cursor, n, cursor')
  BY <1>1, FetchTrue, MoveTrue DEF Fetch, Move
<1>3. Located(cursor') /\ cursor'.use = "sql"
  BY <1>1, <1>2 DEF Shifted, SameStream
<1> QED BY <1>3, OneUse DEF CursorInv

\* stateless_cursor::retrieve keeps the invariant, and returns the range.
LEMMA StepRetrieve ==
  ASSUME CursorInv, NEW begin_pos \in Int, NEW end_pos \in Int, RetrieveRows(begin_pos, end_pos)
  PROVE  CursorInv'
<1>1. /\ Located(cursor) /\ cursor.use = "stateless" /\ cursor.pos = cursor.at /\ cursor.scroll
      /\ cursor.thrown = "none" /\ cursor' = Retrieved(Sized(cursor), begin_pos, end_pos)
  BY DEF CursorInv, StatelessInv, RetrieveRows, Using
<1> DEFINE s == Sized(cursor)
<1>2. /\ Located(s) /\ SameStream(cursor, s) /\ s.pos = s.at /\ s.endpos = cursor.rows + 1
      /\ s.thrown = cursor.thrown
  BY <1>1, SizedTrue
<1>3. s.use = "stateless" /\ s.scroll /\ s.rows = cursor.rows
  BY <1>1, <1>2 DEF SameStream
<1> HIDE DEF s
<1>4. cursor' = Retrieved(s, begin_pos, end_pos)
  BY <1>1 DEF s
<1>5. /\ Located(cursor') /\ cursor'.use = s.use /\ cursor'.pos = cursor'.at /\ cursor'.scroll
      /\ Retrieval(cursor')
  BY <1>1, <1>2, <1>3, <1>4, RetrievedTrue
<1> QED BY <1>3, <1>5, OneUse DEF CursorInv

\* So does closing the cursor.
LEMMA StepClose == ASSUME CursorInv, Close PROVE CursorInv'
<1>1. cursor'.use = "closed"
  BY DEF Close, NoCursor
<1> QED BY <1>1 DEF CursorInv, SqlInv, StatelessInv, StreamInv

\* Reading and skipping rows of a stream without iterators.
LEMMA StepRead ==
  ASSUME CursorInv, Get \/ \E n \in 1 .. MaxStep : Ignore(n)
  PROVE  CursorInv'
<1>1. /\ Streaming(cursor) /\ cursor.use = "stream" /\ Aligned(cursor, cursor.reqpos)
      /\ \A i \in Iterators : ~cursor.its[i].on
  BY DEF CursorInv, StreamInv, Get, Ignore, Using, NoneOn
<1>2. Streaming(cursor') /\ SameButPlace(cursor, cursor') /\ cursor'.its = cursor.its
  <2>1. CASE Get
    BY <1>1, <2>1, FetchBlockTrue DEF Get
  <2>2. ASSUME NEW n \in 1 .. MaxStep, Ignore(n)
        PROVE  Streaming(cursor') /\ SameButPlace(cursor, cursor') /\ cursor'.its = cursor.its
    <3>1. n \in Nat /\ n > 0
      BY CursorAssumption
    <3> QED BY <1>1, <2>2, <3>1, IgnoreTrue DEF Ignore
  <2> QED BY <2>1, <2>2
<1>3. Aligned(cursor', cursor'.reqpos) /\ cursor'.use = "stream"
  BY <1>1, <1>2 DEF SameButPlace, Aligned
<1>4. \A i \in Iterators : Held(cursor', cursor'.its[i])
  BY <1>1, <1>2 DEF Held
<1> QED BY <1>2, <1>3, <1>4, OneUse DEF CursorInv

\* A change of the iterators alone.
LEMMA IteratorsChange ==
  ASSUME CursorInv, Using("stream"), NEW its \in [Iterators -> IteratorType],
         NEW reqpos \in Nat, Aligned(cursor, reqpos),
         cursor' = [cursor EXCEPT !.its = its, !.reqpos = reqpos],
         \A i \in Iterators : Held(cursor, its[i])
  PROVE  CursorInv'
<1>1. Streaming(cursor) /\ cursor.use = "stream" /\ cursor \in CursorType
  BY DEF CursorInv, StreamInv, Using, Streaming, Located
<1> DEFINE d == [cursor EXCEPT !.its = its, !.reqpos = reqpos]
<1>2. /\ d \in CursorType /\ d.use = cursor.use /\ d.rows = cursor.rows /\ d.at = cursor.at
      /\ d.pos = cursor.pos /\ d.endpos = cursor.endpos /\ d.at_end = cursor.at_end
      /\ d.thrown = cursor.thrown /\ d.scroll = cursor.scroll /\ d.stride = cursor.stride
      /\ d.realpos = cursor.realpos /\ d.reqpos = reqpos /\ d.its = its
  BY <1>1 DEF CursorType
<1>3. cursor' = d
  OBVIOUS
<1> HIDE DEF d
<1>4. Streaming(d)
  BY <1>1, <1>2 DEF Streaming, Located
<1>5. Aligned(d, d.reqpos) /\ \A i \in Iterators : Held(d, d.its[i])
  BY <1>2 DEF Aligned, Held, BlockAt
<1> QED BY <1>1, <1>2, <1>3, <1>4, <1>5, OneUse DEF CursorInv

\* The life of the iterators.
LEMMA StepIterator ==
  ASSUME CursorInv, NEW i \in Iterators,
         \/ NewIterator(i) \/ DestroyIterator(i)
         \/ \E j \in Iterators : CopyIterator(i, j)
         \/ \E n \in 1 .. MaxStep : AdvanceIterator(i, n)
  PROVE  CursorInv'
<1>0. Using("stream")
  BY DEF NewIterator, DestroyIterator, CopyIterator, AdvanceIterator
<1>1. /\ Streaming(cursor) /\ cursor.use = "stream" /\ cursor \in CursorType
      /\ Aligned(cursor, cursor.reqpos) /\ \A j \in Iterators : Held(cursor, cursor.its[j])
  BY <1>0 DEF CursorInv, StreamInv, Using, Streaming, Located
<1>2. /\ cursor.its \in [Iterators -> IteratorType] /\ cursor.reqpos \in Nat /\ cursor.realpos \in Nat
      /\ cursor.stride \in Nat
  BY <1>1 DEF CursorType
<1>3. <<>> \in Seq(Int)
  OBVIOUS
<1>4. ASSUME NEW it \in IteratorType, NEW reqpos \in Nat, Aligned(cursor, reqpos), Held(cursor, it),
             cursor' = [cursor EXCEPT !.its = [cursor.its EXCEPT ![i] = it], !.reqpos = reqpos]
      PROVE  CursorInv'
  <2> DEFINE its == [cursor.its EXCEPT ![i] = it]
  <2>1. its \in [Iterators -> IteratorType] /\ \A j \in Iterators : Held(cursor, its[j])
    BY <1>1, <1>2, <1>4
  <2> HIDE DEF its
  <2>2. cursor' = [cursor EXCEPT !.its = its, !.reqpos = reqpos]
    BY <1>4 DEF its
  <2> QED BY <1>0, <1>4, <2>1, <2>2, IteratorsChange
<1>5. ASSUME NEW it, cursor' = [cursor EXCEPT !.its[i] = it]
      PROVE  cursor' = [cursor EXCEPT !.its = [cursor.its EXCEPT ![i] = it], !.reqpos = cursor.reqpos]
  BY <1>1, <1>5 DEF CursorType
<1>6. ASSUME NewIterator(i) PROVE CursorInv'
  <2> DEFINE late == cursor.reqpos < cursor.realpos
             it == [NoIterator EXCEPT !.on = TRUE, !.pos = cursor.reqpos, !.late = late]
  <2>0. late \in BOOLEAN
    OBVIOUS
  <2>2. cursor' = [cursor EXCEPT !.its[i] = it]
    BY <1>6 DEF NewIterator
  <2> HIDE DEF late
  <2>1. it \in IteratorType /\ it.pos = cursor.reqpos /\ it.late = late /\ it.read = FALSE
    BY <1>2, <1>3, <2>0 DEF NoIterator, IteratorType
  <2> HIDE DEF it
  <2>3. Held(cursor, it)
    BY <1>1, <2>1 DEF Held, late
  <2> QED BY <1>1, <1>2, <1>4, <1>5, <2>1, <2>2, <2>3
<1>7. ASSUME DestroyIterator(i) PROVE CursorInv'
  <2>1. NoIterator \in IteratorType /\ Held(cursor, NoIterator)
    BY <1>3 DEF NoIterator, IteratorType, Held
  <2>2. cursor' = [cursor EXCEPT !.its[i] = NoIterator]
    BY <1>7 DEF DestroyIterator
  <2> QED BY <1>1, <1>2, <1>4, <1>5, <2>1, <2>2
<1>8. ASSUME NEW j \in Iterators, CopyIterator(i, j) PROVE CursorInv'
  <2>1. cursor.its[j] \in IteratorType /\ Held(cursor, cursor.its[j])
    BY <1>1, <1>2
  <2>2. cursor' = [cursor EXCEPT !.its[i] = cursor.its[j]]
    BY <1>8 DEF CopyIterator
  <2> QED BY <1>1, <1>2, <1>4, <1>5, <2>1, <2>2
<1>9. ASSUME NEW n \in 1 .. MaxStep, AdvanceIterator(i, n) PROVE CursorInv'
  <2> DEFINE reqpos == cursor.reqpos + n * cursor.stride
             old == cursor.its[i]
             late == reqpos < cursor.realpos
             it == [old EXCEPT !.pos = reqpos, !.here = <<>>, !.read = FALSE, !.late = late]
  <2>1. n \in Nat
    BY CursorAssumption
  <2>2. reqpos \in Nat /\ Aligned(cursor, reqpos)
    <3>1. PICK k \in Nat : cursor.reqpos = k * cursor.stride
      BY <1>1 DEF Aligned
    <3>2. reqpos = (k + n) * cursor.stride
      BY <1>2, <2>1, <3>1
    <3>3. k + n \in Nat /\ n * cursor.stride \in Nat
      BY <1>2, <2>1
    <3> QED BY <1>2, <3>2, <3>3 DEF Aligned
  <2>3. cursor' = [cursor EXCEPT !.reqpos = reqpos, !.its[i] = it]
    BY <1>9 DEF AdvanceIterator
  <2>a. late \in BOOLEAN
    OBVIOUS
  <2> HIDE DEF reqpos, late
  <2>4. it \in IteratorType /\ it.pos = reqpos /\ it.read = FALSE /\ it.late = late
    <3>1. old \in IteratorType
      BY <1>2
    <3> QED BY <1>2, <1>3, <2>2, <2>a, <3>1 DEF IteratorType
  <2> HIDE DEF it
  <2>5. Held(cursor, it)
    BY <2>2, <2>4 DEF Held, late
  <2>6. cursor' = [cursor EXCEPT !.its = [cursor.its EXCEPT ![i] = it], !.reqpos = reqpos]
    BY <1>1, <2>3 DEF CursorType
  <2> QED BY <1>4, <2>2, <2>4, <2>5, <2>6
<1> QED BY <1>6, <1>7, <1>8, <1>9

\* operator*: refresh.
LEMMA StepReadIterator ==
  ASSUME CursorInv, NEW i \in Iterators, ReadIterator(i)
  PROVE  CursorInv'
<1>1. /\ Streaming(cursor) /\ cursor.use = "stream" /\ cursor.its[i].on
      /\ Aligned(cursor, cursor.reqpos) /\ \A j \in Iterators : Held(cursor, cursor.its[j])
  BY DEF CursorInv, StreamInv, Using, ReadIterator
<1>2. cursor.its[i].pos \in Nat
  BY <1>1 DEF Streaming, Located, CursorType, IteratorType
<1> DEFINE topos == cursor.its[i].pos
           s == ServiceIterators(cursor, topos)
<1>3. cursor' = [s EXCEPT !.its[i].read = TRUE]
  BY DEF ReadIterator
<1> HIDE DEF topos
<1>4. /\ Streaming(s) /\ SameButPlace(cursor, s)
      /\ \A j \in Iterators : Held(s, s.its[j])
      /\ \A j \in Iterators :
            /\ s.its[j].on = cursor.its[j].on /\ s.its[j].pos = cursor.its[j].pos
            /\ s.its[j].late = cursor.its[j].late
            /\ cursor.its[j].on /\ ~cursor.its[j].late /\ cursor.its[j].pos = topos =>
                  s.its[j].here = BlockAt(s, topos)
  BY <1>1, <1>2, ServiceTrue DEF topos
<1> HIDE DEF s
<1>5. s \in CursorType /\ s.its \in [Iterators -> IteratorType] /\ s.reqpos = cursor.reqpos /\ s.use = "stream"
  BY <1>1, <1>4 DEF Streaming, Located, CursorType, SameButPlace
<1> DEFINE it == [s.its[i] EXCEPT !.read = TRUE]
           its == [s.its EXCEPT ![i] = it]
           d == [s EXCEPT !.its = its]
<1>6. cursor' = d
  BY <1>3, <1>5
<1>7. /\ it \in IteratorType /\ it.on = s.its[i].on /\ it.pos = s.its[i].pos
      /\ it.late = s.its[i].late /\ it.here = s.its[i].here
  <2>1. s.its[i] \in IteratorType
    BY <1>5
  <2> QED BY <2>1 DEF IteratorType
<1> HIDE DEF it
<1>8. Held(s, it)
  <2>1. s.its[i].pos = topos /\ cursor.its[i].pos = topos
    BY <1>4 DEF topos
  <2>2. Aligned(s, it.pos)
    BY <1>1, <1>4, <1>7 DEF Held
  <2>3. ~it.late => it.here = BlockAt(s, it.pos)
    BY <1>1, <1>4, <1>7, <2>1
  <2> QED BY <2>2, <2>3 DEF Held
<1>9. its \in [Iterators -> IteratorType] /\ \A j \in Iterators : Held(s, its[j])
  BY <1>4, <1>5, <1>7, <1>8
<1> HIDE DEF its
<1>10. /\ d \in CursorType /\ d.use = s.use /\ d.rows = s.rows /\ d.at = s.at
       /\ d.pos = s.pos /\ d.endpos = s.endpos /\ d.at_end = s.at_end
       /\ d.thrown = s.thrown /\ d.scroll = s.scroll /\ d.stride = s.stride
       /\ d.realpos = s.realpos /\ d.reqpos = s.reqpos /\ d.its = its
  BY <1>5, <1>9 DEF CursorType
<1> HIDE DEF d
<1>11. Streaming(d)
  BY <1>4, <1>10 DEF Streaming, Located
<1>12. Aligned(d, d.reqpos) /\ \A j \in Iterators : Held(d, d.its[j])
  <2>1. d.stride = cursor.stride /\ d.reqpos = cursor.reqpos
    BY <1>4, <1>5, <1>10 DEF SameButPlace
  <2> QED BY <1>1, <1>9, <1>10, <2>1 DEF Aligned, Held, BlockAt
<1> QED BY <1>5, <1>6, <1>10, <1>11, <1>12, OneUse DEF CursorInv

\* Every step keeps the invariant.
LEMMA NextCursor == ASSUME CursorInv, [CursorNext]_cursor PROVE CursorInv'
<1>1. ASSUME NEW n \in (-(MaxRows + 2) .. MaxRows + 2) \cup {All, -All}, Fetch(n) \/ Move(n)
      PROVE  CursorInv'
  <2>1. n \in Int
    BY CursorAssumption DEF All
  <2> QED BY <1>1, <2>1, StepSql
<1>2. ASSUME NEW begin_pos \in -2 .. MaxRows + 2, NEW end_pos \in -2 .. MaxRows + 2,
             RetrieveRows(begin_pos, end_pos)
      PROVE  CursorInv'
  <2>1. begin_pos \in Int /\ end_pos \in Int
    BY CursorAssumption
  <2> QED BY <1>2, <2>1, StepRetrieve
<1>3. CASE UNCHANGED cursor
  BY <1>3 DEF CursorInv, SqlInv, StatelessInv, StreamInv
<1>4. CASE CursorNext
  BY <1>1, <1>2, <1>4, StepBirth, StepClose, StepRead, StepIterator, StepReadIterator DEF CursorNext
<1> QED BY <1>3, <1>4

\* Whatever moves, retrievals, streams and iterators are used on it, what a cursor knows of
\* its position is true.
THEOREM CursorInvariant == CursorSpec => []CursorInv
<1> QED BY InitCursor, NextCursor, PTL DEF CursorSpec

\* The positions that sql_cursor and icursorstream work out from the rows that they get are
\* those of the server's cursor, for any number of rows and any sequence of moves
\* (sql_cursor::adjust, icursorstream::fetchblock).
THEOREM PositionsAreTrue == CursorSpec => []PositionsTrue
<1>1. CursorInv => PositionsTrue
  BY DEF CursorInv, SqlInv, StatelessInv, StreamInv, PositionsTrue, Unborn, Streaming, Located
<1> QED BY <1>1, CursorInvariant, PTL

\* A stateless cursor returns the rows of the range that it was asked for, whatever it was
\* asked before, and one more backwards from one past the end (stateless_cursor_retrieve).
THEOREM RangesAreRetrieved == CursorSpec => []RetrievesRange
<1>1. CursorInv => RetrievesRange
  BY DEF CursorInv, StatelessInv, Retrieval, RangeIn, RetrievesRange, RangeOf
<1> QED BY <1>1, CursorInvariant, PTL

\* Iterators that share a stream each see the rows at their position, for any number of
\* iterators and any stride (icursorstream::service_iterators).
THEOREM IteratorsServed == CursorSpec => []IteratorsSeeTheirRows
<1>1. CursorInv => IteratorsSeeTheirRows
  BY DEF CursorInv, StreamInv, Held, BlockAt, IteratorsSeeTheirRows
<1> QED BY <1>1, CursorInvariant, PTL

(***************************************************************************)
(* The inductive invariant of the pipeline.                                *)
(***************************************************************************)
\* A map from ids of queries.
Maps(S) == UNION {[D -> S] : D \in SUBSET (1 .. MaxQueries)}
PipeResults == [of : 0 .. MaxQueries, ok : BOOLEAN, names : 0 .. End]
PipeType ==
    [alive : BOOLEAN, registered : BOOLEAN, block : BOOLEAN, queries : Maps(Queries),
     res : Maps(PipeResults), first : 1 .. End, second : 1 .. End, retain : Nat, waiting : Int,
     q_id : 0 .. MaxQueries, dummy : BOOLEAN, error : 0 .. qid_limit,
     thrown : {"none", "logic_error", "internal_error", "failure", "sql_error", "runtime_error"},
     wire : Seq(PipeResults), busy : BOOLEAN, failed : BOOLEAN,
     effects : [1 .. MaxQueries -> Nat], told : SUBSET (Nat \X PipeResults)]

\* The ends of the issued range are iterators that are valid, in this order.
Ranged(p) ==
    /\ p \in PipeType
    /\ DOMAIN p.res = DOMAIN p.queries
    /\ \A q \in DOMAIN p.queries : q <= p.q_id
    /\ p.first \in DOMAIN p.queries \cup {End}
    /\ p.second \in DOMAIN p.queries \cup {End}
    /\ p.first <= p.second
\* m_num_waiting counts the queries that are not issued, until there is an error.
Counted(p) == p.error = qid_limit => p.waiting = Between(p, p.second, End)
\* After an error nothing is pending, and it is at or before what could be issued next.
Stopped(p) ==
    p.error # qid_limit => /\ p.second = p.first
                           /\ p.error <= p.first
                           /\ p.error <= p.q_id + 1
\* No query took effect twice, and none that may still be issued did.
Fresh(p) ==
    \A q \in 1 .. MaxQueries :
        /\ p.effects[q] <= 1
        /\ q > p.q_id => p.effects[q] = 0
        /\ p.error = qid_limit /\ q >= p.second => p.effects[q] = 0
\* A result of success is held for its own query, which is not pending.
Answered(p) ==
    \A q \in DOMAIN p.res : /\ p.res[q].ok => p.res[q].of = q
                            /\ q >= p.first => ~p.res[q].ok
\* The results w are those of the queries from q on, one after the other.
Chain(D, w, q) ==
    /\ w # <<>> => w[1].of = q
    /\ \A k \in 1 .. Len(w) : w[k].of \in D
    /\ \A j, k \in 1 .. Len(w) : j < k => w[j].of < w[k].of
    /\ \A k \in 1 .. Len(w) - 1 : \A r \in D : r <= w[k].of \/ r >= w[k + 1].of
\* A batch that failed as a whole had no effect, and will fail again.
Botched(p) ==
    /\ Len(p.wire) = 1
    /\ \A q \in 1 .. MaxQueries : p.first <= q /\ q < p.second => p.effects[q] = 0
    /\ \/ p.failed
       \/ \E q \in DOMAIN p.queries : p.first <= q /\ q < p.second /\ p.queries[q] = "syntax"
\* What is to come for the pending queries.
Coming(p) ==
    /\ p.dummy => /\ p.wire # <<>>
                  /\ p.wire[1].ok => Chain(DOMAIN p.queries, Tail(p.wire), p.first)
                  /\ ~p.wire[1].ok => Botched(p)
    /\ ~p.dummy => Chain(DOMAIN p.queries, p.wire, p.first)
Told(p) == \A t \in p.told : t[1] = t[2].of

PipeInv(p) ==
    /\ Ranged(p)
    /\ Counted(p)
    /\ Stopped(p)
    /\ Fresh(p)
    /\ Answered(p)
    /\ HavePending(p) => Coming(p)
    /\ Told(p)

(***************************************************************************)
(* Maps, and the order of the queries.                                     *)
(***************************************************************************)
USE DEF End, qid_limit

\* What an element of Maps is, and how one is made and changed.
LEMMA MapFacts ==
  ASSUME NEW S, NEW f \in Maps(S)
  PROVE  /\ DOMAIN f \subseteq 1 .. MaxQueries
         /\ f = [q \in DOMAIN f |-> f[q]]
         /\ \A q \in DOMAIN f : f[q] \in S
BY DEF Maps

\* A function of ids is an element of Maps.
LEMMA MapIntro ==
  ASSUME NEW S, NEW D, D \subseteq 1 .. MaxQueries, NEW f \in [D -> S]
  PROVE  f \in Maps(S) /\ DOMAIN f = D
BY DEF Maps

\* Assigning to an id of a map changes nothing else of its type.
LEMMA MapExcept ==
  ASSUME NEW S, NEW f \in Maps(S), NEW q, NEW v \in S
  PROVE  /\ [f EXCEPT ![q] = v] \in Maps(S)
         /\ DOMAIN [f EXCEPT ![q] = v] = DOMAIN f
<1>1. f \in [DOMAIN f -> S] /\ DOMAIN f \subseteq 1 .. MaxQueries
  BY MapFacts
<1>2. [f EXCEPT ![q] = v] \in [DOMAIN f -> S]
  BY <1>1
<1> QED BY <1>1, <1>2, MapIntro

\* Erasing ids of a map leaves a map of the others.
LEMMA MapRestrict ==
  ASSUME NEW S, NEW f \in Maps(S), NEW qs
  PROVE  /\ [r \in DOMAIN f \ qs |-> f[r]] \in Maps(S)
         /\ DOMAIN [r \in DOMAIN f \ qs |-> f[r]] = DOMAIN f \ qs
<1>1. [r \in DOMAIN f \ qs |-> f[r]] \in [DOMAIN f \ qs -> S]
  BY MapFacts
<1> QED BY <1>1, MapFacts, MapIntro

\* ++ on an iterator: the next query, or the end.
LEMMA AfterFacts ==
  ASSUME NEW p, DOMAIN p.queries \subseteq 1 .. MaxQueries, NEW q \in Nat
  PROVE  /\ After(p, q) \in DOMAIN p.queries \cup {End}
         /\ After(p, q) \in 1 .. End
         /\ q < End => q < After(p, q)
         /\ \A r \in DOMAIN p.queries : r > q => After(p, q) <= r
         /\ After(p, q) \in DOMAIN p.queries => q < After(p, q)
<1> DEFINE later == {r \in DOMAIN p.queries : r > q}
<1>0. MaxQueries \in Nat \ {0}
  BY PipelineAssumption
<1>1. CASE later = {}
  <2>1. After(p, q) = End
    BY <1>1 DEF After
  <2>2. \A r \in DOMAIN p.queries : ~(r > q)
    BY <1>1
  <2> QED BY <2>1, <2>2, <1>0
<1>2. CASE later # {}
  <2>1. later \subseteq Nat
    BY <1>0
  <2>2. \E n \in later : \A m \in later : n <= m
    <3> HIDE DEF later
    <3> QED BY <2>1, <1>2, LeastElement
  <2>3. After(p, q) = CHOOSE r \in later : \A s \in later : r <= s
    BY <1>2 DEF After
  <2>4. After(p, q) \in later /\ \A s \in later : After(p, q) <= s
    <3> HIDE DEF later
    <3> QED BY <2>2, <2>3
  <2> QED BY <2>4, <1>0
<1> QED BY <1>1, <1>2

\* Which query is the next.
LEMMA AfterIs ==
  ASSUME NEW p, DOMAIN p.queries \subseteq 1 .. MaxQueries, NEW q \in Nat,
         NEW r \in DOMAIN p.queries, q < r,
         \A s \in DOMAIN p.queries : s <= q \/ s >= r
  PROVE  After(p, q) = r
<1>1. MaxQueries \in Nat \ {0}
  BY PipelineAssumption
<1>2. r \in 1 .. MaxQueries
  OBVIOUS
<1>3. q < After(p, q) /\ After(p, q) <= r /\ After(p, q) \in DOMAIN p.queries \cup {End}
      /\ After(p, q) \in 1 .. End
  BY AfterFacts, <1>1, <1>2
<1>4. After(p, q) \in DOMAIN p.queries
  BY <1>1, <1>2, <1>3
<1>5. After(p, q) >= r
  BY <1>3, <1>4
<1> QED BY <1>1, <1>2, <1>3, <1>5

\* The results to come stay those of the pending queries when others come and go.
LEMMA ChainKept ==
  ASSUME NEW D, D \subseteq 1 .. MaxQueries, NEW D2, D2 \subseteq 1 .. MaxQueries,
         NEW w \in Seq(PipeResults), NEW q,
         Chain(D, w, q),
         \A k \in 1 .. Len(w) : w[k].of \in D2,
         \A r \in D2 : r \in D \/ \A s \in D : r > s
  PROVE  Chain(D2, w, q)
<1>1. ASSUME NEW k \in 1 .. Len(w) - 1, NEW r \in D2
      PROVE  r <= w[k].of \/ r >= w[k + 1].of
  <2>1. k + 1 \in 1 .. Len(w)
    BY LenProperties
  <2>2. w[k + 1].of \in D
    BY <2>1 DEF Chain
  <2>3. CASE r \in D
    BY <2>3 DEF Chain
  <2>4. CASE r \notin D
    <3>1. \A s \in D : r > s
      BY <2>4
    <3>2. r > w[k + 1].of
      BY <2>2, <3>1
    <3>3. r \in 1 .. MaxQueries /\ w[k + 1].of \in 1 .. MaxQueries
      BY <2>2
    <3>4. r \in Int /\ w[k + 1].of \in Int
      BY <3>3, PipelineAssumption
    <3> QED BY <3>2, <3>4
  <2> QED BY <2>3, <2>4
<1> QED BY <1>1 DEF Chain

\* A result is taken: what remains begins with the next query.
LEMMA ChainTail ==
  ASSUME NEW p, DOMAIN p.queries \subseteq 1 .. MaxQueries, NEW w \in Seq(PipeResults),
         NEW q \in Nat, w # <<>>, Chain(DOMAIN p.queries, w, q)
  PROVE  /\ q \in DOMAIN p.queries
         /\ w[1].of = q
         /\ Chain(DOMAIN p.queries, Tail(w), After(p, q))
<1> DEFINE D == DOMAIN p.queries
           v == Tail(w)
<1>1. Len(w) \in Nat /\ Len(w) >= 1
  BY EmptySeq, LenProperties
<1>2. /\ v \in Seq(PipeResults) /\ Len(v) = Len(w) - 1
      /\ \A k \in 1 .. Len(v) : v[k] = w[k + 1]
  BY HeadTailProperties, <1>1
<1>3. w[1].of = q /\ q \in D
  BY <1>1 DEF Chain
<1>4. ASSUME v # <<>> PROVE v[1].of = After(p, q)
  <2>1. Len(v) >= 1
    BY <1>4, <1>2, EmptySeq, LenProperties
  <2>2. v[1] = w[2] /\ 1 \in 1 .. Len(w) - 1 /\ 2 \in 1 .. Len(w)
    BY <2>1, <1>1, <1>2
  <2>3. w[2].of \in D /\ w[1].of < w[2].of
    BY <2>2, <1>1 DEF Chain
  <2>4. \A r \in D : r <= w[1].of \/ r >= w[1 + 1].of
    BY <2>2 DEF Chain
  <2>5. After(p, q) = w[2].of
    BY <2>3, <2>4, <1>3, AfterIs
  <2> QED BY <2>2, <2>5
<1>5. \A k \in 1 .. Len(v) : v[k].of \in D
  <2>1. \A k \in 1 .. Len(v) : k + 1 \in 1 .. Len(w)
    BY <1>1, <1>2
  <2> QED BY <2>1, <1>2 DEF Chain
<1>6. ASSUME NEW j \in 1 .. Len(v), NEW k \in 1 .. Len(v), j < k
      PROVE  v[j].of < v[k].of
  <2>1. j + 1 \in 1 .. Len(w) /\ k + 1 \in 1 .. Len(w) /\ j + 1 < k + 1
    BY <1>1, <1>2, <1>6
  <2>2. w[j + 1].of < w[k + 1].of
    BY <2>1 DEF Chain
  <2> QED BY <2>2, <1>2
<1>7. ASSUME NEW k \in 1 .. Len(v) - 1, NEW r \in D
      PROVE  r <= v[k].of \/ r >= v[k + 1].of
  <2>1. k + 1 \in 1 .. Len(w) - 1 /\ k \in 1 .. Len(v) /\ k + 1 \in 1 .. Len(v)
    BY <1>1, <1>2, <1>7
  <2>2. r <= w[k + 1].of \/ r >= w[(k + 1) + 1].of
    BY <2>1 DEF Chain
  <2> QED BY <2>1, <2>2, <1>2
<1>8. Chain(D, v, After(p, q))
  <2> HIDE DEF v, D
  <2> QED BY <1>4, <1>5, <1>6, <1>7 DEF Chain
<1> QED BY <1>3, <1>8

(***************************************************************************)
(* Receiving.                                                              *)
(***************************************************************************)
\* What receiving leaves alone: the queries, and the end of the issued range until there
\* is an error.
Kept(p, c) ==
    /\ c.queries = p.queries /\ c.told = p.told /\ c.q_id = p.q_id
    /\ c.first >= p.first
    /\ c.error = qid_limit => p.error = qid_limit /\ c.second = p.second

\* What two steps of receiving leave alone, both together do.
LEMMA KeptTransitive ==
  ASSUME NEW p \in PipeType, NEW c \in PipeType, NEW d \in PipeType, Kept(p, c), Kept(c, d)
  PROVE  Kept(p, d)
<1>1. p.first \in Int /\ c.first \in Int /\ d.first \in Int
  BY PipelineAssumption DEF PipeType
<1> QED BY <1>1 DEF Kept

\* Some facts of the invariant that most steps need.
LEMMA RangedFacts ==
  ASSUME NEW p, Ranged(p)
  PROVE  /\ p \in PipeType
         /\ DOMAIN p.queries \subseteq 1 .. MaxQueries
         /\ DOMAIN p.res = DOMAIN p.queries
         /\ p.first \in 1 .. End /\ p.second \in 1 .. End
         /\ p.first <= p.second
         /\ p.error \in 0 .. qid_limit /\ p.q_id \in 0 .. MaxQueries
         /\ HavePending(p) => p.first < p.second /\ p.first \in DOMAIN p.queries
         /\ MaxQueries \in Nat \ {0}
<1>1. p \in PipeType /\ p.queries \in Maps(Queries)
  BY DEF Ranged, PipeType
<1>2. DOMAIN p.queries \subseteq 1 .. MaxQueries
  BY <1>1, MapFacts
<1>3. /\ p.first \in 1 .. End /\ p.second \in 1 .. End
      /\ p.error \in 0 .. qid_limit /\ p.q_id \in 0 .. MaxQueries
  BY DEF Ranged, PipeType
<1> QED BY <1>1, <1>2, <1>3, PipelineAssumption DEF Ranged, HavePending

\* SetErrorAt and Throw change one field.
LEMMA ErrorSet ==
  ASSUME NEW p \in PipeType, NEW q \in 0 .. qid_limit
  PROVE  LET c == SetErrorAt(p, q)
         IN  /\ c \in PipeType
             /\ c.error = IF q < p.error THEN q ELSE p.error
             /\ c.queries = p.queries /\ c.res = p.res /\ c.first = p.first /\ c.second = p.second
             /\ c.waiting = p.waiting /\ c.q_id = p.q_id /\ c.dummy = p.dummy
             /\ c.wire = p.wire /\ c.failed = p.failed /\ c.effects = p.effects /\ c.told = p.told
             /\ c.thrown = p.thrown /\ c.busy = p.busy
<1>1. p.error \in 0 .. qid_limit
  BY DEF PipeType
<1>2. (IF q < p.error THEN q ELSE p.error) \in 0 .. qid_limit
  BY <1>1
<1> DEFINE e == IF q < p.error THEN q ELSE p.error
<1>3. e \in 0 .. qid_limit /\ SetErrorAt(p, q) = [p EXCEPT !.error = e]
  BY <1>2 DEF SetErrorAt
<1> HIDE DEF e
<1>4. /\ [p EXCEPT !.error = e] \in PipeType
      /\ [p EXCEPT !.error = e].error = e
  BY <1>3 DEF PipeType
<1>5. LET c == [p EXCEPT !.error = e]
      IN  /\ c.queries = p.queries /\ c.res = p.res /\ c.first = p.first /\ c.second = p.second
          /\ c.waiting = p.waiting /\ c.q_id = p.q_id /\ c.dummy = p.dummy
          /\ c.wire = p.wire /\ c.failed = p.failed /\ c.effects = p.effects /\ c.told = p.told
          /\ c.thrown = p.thrown /\ c.busy = p.busy
  BY DEF PipeType
<1> QED BY <1>3, <1>4, <1>5 DEF e

\* The invariant does not speak of these fields.
LEMMA InvSame ==
  ASSUME NEW p, PipeInv(p), NEW c \in PipeType,
         c.queries = p.queries, c.res = p.res, c.first = p.first, c.second = p.second,
         c.waiting = p.waiting, c.q_id = p.q_id, c.dummy = p.dummy, c.wire = p.wire,
         c.failed = p.failed, c.effects = p.effects, c.told = p.told, c.error = p.error
  PROVE  PipeInv(c) /\ Kept(p, c)
<1>1. Ranged(c) /\ Counted(c) /\ Stopped(c)
  BY DEF PipeInv, Ranged, Counted, Stopped, Between
<1>2. Fresh(c) /\ Answered(c) /\ Told(c)
  BY DEF PipeInv, Fresh, Answered, Told
<1>3. HavePending(c) => Coming(c)
  BY DEF PipeInv, HavePending, Coming, Botched
<1>4. Kept(p, c)
  <2>1. p.first \in Int
    BY RangedFacts DEF PipeInv
  <2> QED BY <2>1 DEF Kept
<1> QED BY <1>1, <1>2, <1>3, <1>4 DEF PipeInv

\* A pair of a state and of whether there was a result.
LEMMA GotFacts ==
  ASSUME NEW c
  PROVE  /\ \A b : Got(c, b).p = c /\ Got(c, b).ok = b
         /\ Got(c, TRUE).ok
         /\ ~Got(c, FALSE).ok
<1>1. \A b : Got(c, b).p = c /\ Got(c, b).ok = b
  BY DEF Got
<1>2. Got(c, TRUE).ok = TRUE
  BY <1>1, Zenon
<1>3. Got(c, FALSE).ok = FALSE
  BY <1>1, Zenon
<1> QED BY <1>1, <1>2, <1>3, Zenon

\* obtain_result when there is no result: what is pending is given up.
LEMMA NoneObtained ==
  ASSUME NEW p, PipeInv(p), p.wire = <<>>
  PROVE  LET g == ObtainResult(p, FALSE)
         IN  /\ PipeInv(g.p) /\ Kept(p, g.p) /\ g.p.wire = <<>> /\ ~HavePending(g.p)
             /\ g.p.dummy = p.dummy /\ ~g.p.busy /\ ~g.ok /\ g.p.thrown = p.thrown
             /\ HavePending(p) => g.p.error # qid_limit
             /\ ~HavePending(p) => /\ g.p.first = p.first /\ g.p.second = p.second
                                   /\ g.p.error = p.error
<1> DEFINE none == [p EXCEPT !.busy = FALSE]
           g == ObtainResult(p, FALSE)
<1>0. /\ p \in PipeType /\ p.first \in 1 .. End /\ p.second \in 1 .. End
      /\ p.error \in 0 .. qid_limit /\ p.q_id \in 0 .. MaxQueries /\ p.first <= p.second
      /\ MaxQueries \in Nat \ {0}
      /\ HavePending(p) => p.first < p.second /\ p.first \in DOMAIN p.queries
      /\ DOMAIN p.queries \subseteq 1 .. MaxQueries
  BY RangedFacts DEF PipeInv
<1>1. /\ none \in PipeType /\ ~none.busy
      /\ none.queries = p.queries /\ none.res = p.res /\ none.first = p.first
      /\ none.second = p.second /\ none.waiting = p.waiting /\ none.q_id = p.q_id
      /\ none.dummy = p.dummy /\ none.wire = p.wire /\ none.failed = p.failed
      /\ none.effects = p.effects /\ none.told = p.told /\ none.error = p.error
      /\ none.thrown = p.thrown
  <2>1. PICK b \in BOOLEAN : b = FALSE
    OBVIOUS
  <2>2. none = [p EXCEPT !.busy = b]
    BY <2>1
  <2> QED BY <2>1, <2>2, <1>0 DEF PipeType
<1> HIDE DEF none
<1>2. PipeInv(none) /\ Kept(p, none)
  BY <1>1, InvSame
<1>3. CASE ~HavePending(p)
  <2>1. g = Got(none, FALSE)
    BY <1>3 DEF ObtainResult, none
  <2>2. g.p = none /\ ~g.ok
    <3> HIDE DEF g
    <3> QED BY <2>1, GotFacts, Zenon
  <2>3. ~HavePending(none)
    BY <1>1, <1>3 DEF HavePending
  <2> HIDE DEF g
  <2> QED BY <2>2, <2>3, <1>1, <1>2, <1>3 DEF g
<1>4. CASE HavePending(p)
  <2> DEFINE e == SetErrorAt(none, p.first)
             c == [e EXCEPT !.second = p.first]
  <2>1. g = Got(c, FALSE)
    BY <1>4 DEF ObtainResult, none
  <2>2. p.error = qid_limit
    BY <1>4 DEF PipeInv, Stopped, HavePending
  <2>3. /\ e \in PipeType /\ e.error = p.first
        /\ e.queries = p.queries /\ e.res = p.res /\ e.first = p.first
        /\ e.waiting = p.waiting /\ e.q_id = p.q_id
        /\ e.dummy = p.dummy /\ e.wire = p.wire /\ e.failed = p.failed
        /\ e.effects = p.effects /\ e.told = p.told
        /\ e.thrown = p.thrown /\ e.busy = none.busy
    <3>1. p.first \in 0 .. qid_limit /\ p.first < none.error
      BY <1>0, <1>1, <2>2
    <3>2. /\ e \in PipeType
          /\ e.error = IF p.first < none.error THEN p.first ELSE none.error
          /\ e.queries = none.queries /\ e.res = none.res /\ e.first = none.first
          /\ e.waiting = none.waiting /\ e.q_id = none.q_id /\ e.dummy = none.dummy
          /\ e.wire = none.wire /\ e.failed = none.failed /\ e.effects = none.effects
          /\ e.told = none.told /\ e.thrown = none.thrown /\ e.busy = none.busy
      BY <3>1, <1>1, ErrorSet
    <3> HIDE DEF e
    <3> QED BY <3>1, <3>2, <1>1
  <2> HIDE DEF e
  <2>4. /\ c \in PipeType /\ c.error = p.first /\ c.second = p.first
        /\ c.queries = p.queries /\ c.res = p.res /\ c.first = p.first
        /\ c.waiting = p.waiting /\ c.q_id = p.q_id
        /\ c.dummy = p.dummy /\ c.wire = p.wire /\ c.failed = p.failed
        /\ c.effects = p.effects /\ c.told = p.told
        /\ c.thrown = p.thrown /\ c.busy = none.busy
    BY <2>3, <1>0 DEF PipeType
  <2> HIDE DEF c
  <2>5. ~HavePending(c) /\ c.error # qid_limit
    BY <2>4, <1>0 DEF HavePending
  <2>6. Ranged(c)
    <3>1. p.first \in DOMAIN p.queries \cup {End}
      BY DEF PipeInv, Ranged
    <3> QED BY <2>4, <3>1, <1>0 DEF PipeInv, Ranged
  <2>7. Counted(c) /\ Told(c)
    BY <2>4, <2>5 DEF PipeInv, Counted, Told
  <2>8. Stopped(c)
    <3>1. p.first <= p.q_id
      BY <1>0, <1>4 DEF PipeInv, Ranged
    <3> QED BY <3>1, <2>4, <1>0 DEF Stopped
  <2>9. Fresh(c)
    BY <2>4, <2>5 DEF PipeInv, Fresh
  <2>10. Answered(c)
    BY <2>4 DEF PipeInv, Answered
  <2>11. Kept(p, c)
    BY <2>4, <2>5, <1>0 DEF Kept
  <2>12. PipeInv(c)
    BY <2>5, <2>6, <2>7, <2>8, <2>9, <2>10 DEF PipeInv
  <2>13. g.p = c /\ ~g.ok
    <3> HIDE DEF g
    <3> QED BY <2>1, GotFacts, Zenon
  <2> HIDE DEF g
  <2> QED BY <2>4, <2>5, <2>11, <2>12, <2>13, <1>1, <1>4 DEF g
<1> QED BY <1>3, <1>4

\* A result is taken from the wire.
LEMMA WireTaken ==
  ASSUME NEW p \in PipeType, p.wire # <<>>
  PROVE  LET c == [p EXCEPT !.wire = Tail(@)]
         IN  /\ c \in PipeType /\ c.wire = Tail(p.wire) /\ c.wire \in Seq(PipeResults)
             /\ Len(c.wire) = Len(p.wire) - 1 /\ Len(p.wire) \in Nat \ {0}
             /\ Head(p.wire) = p.wire[1] /\ p.wire[1] \in PipeResults
             /\ c.queries = p.queries /\ c.res = p.res /\ c.first = p.first
             /\ c.second = p.second /\ c.waiting = p.waiting /\ c.q_id = p.q_id
             /\ c.dummy = p.dummy /\ c.failed = p.failed /\ c.error = p.error
             /\ c.effects = p.effects /\ c.told = p.told
             /\ c.thrown = p.thrown /\ c.busy = p.busy /\ c.block = p.block
<1>1. p.wire \in Seq(PipeResults)
  BY DEF PipeType
<1>2. /\ Tail(p.wire) \in Seq(PipeResults) /\ Len(Tail(p.wire)) = Len(p.wire) - 1
      /\ Head(p.wire) = p.wire[1] /\ p.wire[1] \in PipeResults
      /\ Len(p.wire) \in Nat \ {0}
  BY <1>1, HeadTailProperties, EmptySeq, LenProperties, ElementOfSeq
<1> DEFINE t == Tail(p.wire)
<1> HIDE DEF t
<1>3. LET c == [p EXCEPT !.wire = t]
      IN  /\ c \in PipeType /\ c.wire = t
          /\ c.queries = p.queries /\ c.res = p.res /\ c.first = p.first
          /\ c.second = p.second /\ c.waiting = p.waiting /\ c.q_id = p.q_id
          /\ c.dummy = p.dummy /\ c.failed = p.failed /\ c.error = p.error
          /\ c.effects = p.effects /\ c.told = p.told
          /\ c.thrown = p.thrown /\ c.busy = p.busy /\ c.block = p.block
  <2>1. t \in Seq(PipeResults)
    BY <1>2 DEF t
  <2> QED BY <2>1 DEF PipeType
<1> QED BY <1>2, <1>3 DEF t

\* obtain_result when nothing is pending: the oldest query gets the error.
LEMMA TooManyObtained ==
  ASSUME NEW p, PipeInv(p), p.wire # <<>>, ~HavePending(p),
         p.error = qid_limit => DOMAIN p.queries # {}
  PROVE  LET g == ObtainResult(p, FALSE)
         IN  /\ PipeInv(g.p) /\ Kept(p, g.p) /\ ~HavePending(g.p) /\ Ended(g.p) /\ ~g.ok
             /\ g.p.dummy = p.dummy /\ g.p.error # qid_limit
<1> DEFINE t == [p EXCEPT !.wire = Tail(@)]
           q == Oldest(p)
           e == SetErrorAt(t, q)
           c == Throw(e, "logic_error")
           g == ObtainResult(p, FALSE)
<1>0. /\ p \in PipeType /\ p.first \in 1 .. End /\ p.second \in 1 .. End
      /\ p.error \in 0 .. qid_limit /\ p.q_id \in 0 .. MaxQueries /\ p.first <= p.second
      /\ MaxQueries \in Nat \ {0}
      /\ DOMAIN p.queries \subseteq 1 .. MaxQueries
  BY RangedFacts DEF PipeInv
<1>1. /\ t \in PipeType
      /\ t.queries = p.queries /\ t.res = p.res /\ t.first = p.first /\ t.error = p.error
      /\ t.second = p.second /\ t.waiting = p.waiting /\ t.q_id = p.q_id
      /\ t.dummy = p.dummy /\ t.failed = p.failed
      /\ t.effects = p.effects /\ t.told = p.told
  BY <1>0, WireTaken
<1>2. /\ q \in DOMAIN p.queries \cup {End} /\ q \in 1 .. End
      /\ \A r \in DOMAIN p.queries : q <= r
  <2>1. 0 \in Nat /\ \A r \in DOMAIN p.queries : r > 0
    BY <1>0
  <2> QED BY <2>1, <1>0, AfterFacts DEF Oldest
<1>3. q <= p.first
  BY <1>0, <1>2 DEF PipeInv, Ranged
<1>4. g = Got(c, FALSE)
  BY DEF ObtainResult
<1> HIDE DEF t, q
<1>5. /\ e \in PipeType /\ e.error = (IF q < p.error THEN q ELSE p.error)
      /\ e.queries = p.queries /\ e.res = p.res /\ e.first = p.first
      /\ e.second = p.second /\ e.waiting = p.waiting /\ e.q_id = p.q_id
      /\ e.dummy = p.dummy /\ e.failed = p.failed
      /\ e.effects = p.effects /\ e.told = p.told
  <2>1. q \in 0 .. qid_limit
    BY <1>0, <1>2
  <2>2. /\ e \in PipeType /\ e.error = (IF q < t.error THEN q ELSE t.error)
        /\ e.queries = t.queries /\ e.res = t.res /\ e.first = t.first
        /\ e.second = t.second /\ e.waiting = t.waiting /\ e.q_id = t.q_id
        /\ e.dummy = t.dummy /\ e.failed = t.failed
        /\ e.effects = t.effects /\ e.told = t.told
    BY <2>1, <1>1, ErrorSet
  <2> HIDE DEF e
  <2> QED BY <2>2, <1>1
<1> HIDE DEF e
<1>6. /\ c \in PipeType /\ c.error = e.error /\ c.thrown = "logic_error"
      /\ c.queries = p.queries /\ c.res = p.res /\ c.first = p.first
      /\ c.second = p.second /\ c.waiting = p.waiting /\ c.q_id = p.q_id
      /\ c.dummy = p.dummy /\ c.failed = p.failed
      /\ c.effects = p.effects /\ c.told = p.told
  BY <1>5 DEF Throw, PipeType
<1> HIDE DEF c
<1>7. ~HavePending(c) /\ Ended(c)
  BY <1>6 DEF HavePending, Ended
<1>8. c.error # qid_limit /\ c.error <= p.first /\ c.error <= p.q_id + 1
  <2>1. c.error # qid_limit /\ c.error <= p.first
    BY <1>0, <1>2, <1>3, <1>5, <1>6
  <2>2. CASE p.error = qid_limit
    <3>1. PICK r \in DOMAIN p.queries : TRUE
      BY <2>2
    <3>2. q <= r /\ r <= p.q_id
      BY <1>2, <3>1 DEF PipeInv, Ranged
    <3> QED BY <3>1, <3>2, <2>1, <1>0, <1>2, <1>5, <1>6
  <2>3. CASE p.error # qid_limit
    BY <2>1, <2>3, <1>0, <1>2, <1>5, <1>6 DEF PipeInv, Stopped
  <2> QED BY <2>1, <2>2, <2>3
<1>9. Ranged(c)
  BY <1>6 DEF PipeInv, Ranged
<1>10. Counted(c) /\ Told(c) /\ Answered(c)
  BY <1>6, <1>8 DEF PipeInv, Counted, Told, Answered
<1>11. Stopped(c)
  BY <1>6, <1>7, <1>8 DEF Stopped, HavePending
<1>12. Fresh(c)
  BY <1>6, <1>8 DEF PipeInv, Fresh
<1>13. PipeInv(c)
  BY <1>7, <1>9, <1>10, <1>11, <1>12 DEF PipeInv
<1>14. Kept(p, c)
  BY <1>6, <1>8, <1>0 DEF Kept
<1>15. g.p = c /\ ~g.ok
  <2> HIDE DEF g
  <2> QED BY <1>4, GotFacts, Zenon
<1> HIDE DEF g
<1> QED BY <1>6, <1>7, <1>8, <1>13, <1>14, <1>15 DEF g

\* obtain_result when a query is pending and the dummy is gone: the result is its own.
LEMMA OneObtained ==
  ASSUME NEW p, PipeInv(p), p.wire # <<>>, HavePending(p), ~p.dummy
  PROVE  LET g == ObtainResult(p, FALSE)
         IN  /\ PipeInv(g.p) /\ Kept(p, g.p) /\ g.ok
             /\ ~g.p.dummy /\ g.p.error = qid_limit /\ g.p.thrown = p.thrown
             /\ Len(g.p.wire) = Len(p.wire) - 1
             /\ g.p.first = After(p, p.first)
<1> DEFINE t == [p EXCEPT !.wire = Tail(@)]
           rr == [Head(p.wire) EXCEPT !.names = Oldest(t)]
           nx == After(t, t.first)
           nr == [t.res EXCEPT ![t.first] = rr]
           c == [t EXCEPT !.res = nr, !.first = nx]
           g == ObtainResult(p, FALSE)
           D == DOMAIN p.queries
<1>0. /\ p \in PipeType /\ p.first \in 1 .. End /\ p.second \in 1 .. End
      /\ p.error \in 0 .. qid_limit /\ p.q_id \in 0 .. MaxQueries /\ p.first < p.second
      /\ MaxQueries \in Nat \ {0} /\ p.first \in D
      /\ D \subseteq 1 .. MaxQueries /\ DOMAIN p.res = D
  BY RangedFacts DEF PipeInv
<1>1. /\ t \in PipeType
      /\ t.queries = p.queries /\ t.res = p.res /\ t.first = p.first /\ t.error = p.error
      /\ t.second = p.second /\ t.waiting = p.waiting /\ t.q_id = p.q_id
      /\ t.dummy = p.dummy /\ t.failed = p.failed /\ t.thrown = p.thrown
      /\ t.effects = p.effects /\ t.told = p.told
      /\ t.wire = Tail(p.wire) /\ Len(t.wire) = Len(p.wire) - 1
      /\ Head(p.wire) = p.wire[1] /\ p.wire[1] \in PipeResults
  BY <1>0, WireTaken
<1>2. p.wire \in Seq(PipeResults) /\ Chain(D, p.wire, p.first) /\ p.error = qid_limit
  BY <1>0 DEF PipeInv, Coming, PipeType, Stopped, HavePending
<1>3. /\ p.wire[1].of = p.first
      /\ Chain(D, Tail(p.wire), After(p, p.first))
  BY <1>0, <1>2, ChainTail
<1>4. nx = After(p, p.first) /\ Oldest(t) = Oldest(p)
  <2> HIDE DEF t
  <2> QED BY <1>1 DEF After, Oldest
<1>5. /\ nx \in D \cup {End} /\ nx \in 1 .. End /\ p.first < nx
      /\ \A r \in D : r > p.first => nx <= r
  <2>1. /\ After(p, p.first) \in DOMAIN p.queries \cup {End}
        /\ After(p, p.first) \in 1 .. End
        /\ p.first < End => p.first < After(p, p.first)
        /\ \A r \in DOMAIN p.queries : r > p.first => After(p, p.first) <= r
    <3>1. p.first \in Nat
      BY <1>0
    <3> QED BY <3>1, <1>0, AfterFacts
  <2> HIDE DEF nx
  <2> QED BY <2>1, <1>0, <1>4
<1>6. nx <= p.second
  <2>1. p.second \in D \cup {End}
    BY DEF PipeInv, Ranged
  <2> HIDE DEF nx
  <2> QED BY <2>1, <1>0, <1>5
<1>7. ~p.res[p.first].ok
  BY <1>0 DEF PipeInv, Answered
<1>8. g = Got(c, TRUE)
  <2>1. TakeResult(t, Head(p.wire)) = c
    BY DEF TakeResult
  <2> HIDE DEF c, t
  <2> QED BY <2>1, <1>7 DEF ObtainResult, t
<1>9. /\ rr \in PipeResults /\ rr.of = p.first
  <2>1. Oldest(p) \in 0 .. End
    <3>1. After(p, 0) \in 1 .. End
      BY <1>0, AfterFacts
    <3> QED BY <3>1, <1>0 DEF Oldest
  <2>2. rr = [p.wire[1] EXCEPT !.names = Oldest(p)]
    <3> HIDE DEF t
    <3> QED BY <1>1, <1>4
  <2> HIDE DEF rr
  <2> QED BY <2>1, <2>2, <1>1, <1>3 DEF PipeResults
<1>10. /\ nr \in Maps(PipeResults) /\ DOMAIN nr = D
       /\ nr[p.first] = rr
       /\ \A q \in D : q # p.first => nr[q] = p.res[q]
  <2>1. p.res \in Maps(PipeResults)
    BY <1>0 DEF PipeType
  <2>2. nr = [p.res EXCEPT ![p.first] = rr]
    <3> HIDE DEF rr, t
    <3> QED BY <1>1
  <2> HIDE DEF rr, nr
  <2>3. nr \in Maps(PipeResults) /\ DOMAIN nr = D
    BY <2>1, <2>2, <1>0, <1>9, MapExcept
  <2> QED BY <2>2, <2>3, <1>0
<1> HIDE DEF t, rr, nx, nr
<1>11. /\ c \in PipeType /\ c.res = nr /\ c.first = nx
       /\ c.queries = p.queries /\ c.error = p.error
       /\ c.second = p.second /\ c.waiting = p.waiting /\ c.q_id = p.q_id
       /\ c.dummy = p.dummy /\ c.failed = p.failed /\ c.thrown = p.thrown
       /\ c.effects = p.effects /\ c.told = p.told
       /\ c.wire = Tail(p.wire) /\ Len(c.wire) = Len(p.wire) - 1
  BY <1>1, <1>5, <1>10 DEF PipeType
<1> HIDE DEF c
<1>12. Ranged(c)
  BY <1>11, <1>10, <1>5, <1>6 DEF PipeInv, Ranged
<1>13. Counted(c) /\ Told(c) /\ Stopped(c) /\ Fresh(c)
  <2>1. Between(c, c.second, End) = Between(p, p.second, End)
    BY <1>11 DEF Between
  <2>2. Counted(c) /\ Told(c)
    BY <2>1, <1>11 DEF PipeInv, Counted, Told
  <2>3. Stopped(c) /\ Fresh(c)
    BY <1>11, <1>2 DEF PipeInv, Stopped, Fresh
  <2> QED BY <2>2, <2>3
<1>14. Answered(c)
  <2> SUFFICES ASSUME NEW q \in D
               PROVE  (c.res[q].ok => c.res[q].of = q) /\ (q >= nx => ~c.res[q].ok)
    BY <1>10, <1>11 DEF Answered
  <2>1. CASE q = p.first
    BY <2>1, <1>0, <1>5, <1>9, <1>10, <1>11
  <2>2. CASE q # p.first
    <3>1. c.res[q] = p.res[q] /\ q \in Int
      BY <2>2, <1>10, <1>11, <1>0
    <3>2. (p.res[q].ok => p.res[q].of = q) /\ (q >= p.first => ~p.res[q].ok)
      BY <1>0 DEF PipeInv, Answered
    <3> QED BY <3>1, <3>2, <1>0, <1>5
  <2> QED BY <2>1, <2>2
<1>15. Coming(c)
  BY <1>3, <1>4, <1>11 DEF Coming
<1>16. PipeInv(c)
  BY <1>12, <1>13, <1>14, <1>15 DEF PipeInv
<1>17. Kept(p, c)
  BY <1>11, <1>2, <1>0, <1>5 DEF Kept
<1>18. g.p = c /\ g.ok
  <2> HIDE DEF g
  <2> QED BY <1>8, GotFacts, Zenon
<1> HIDE DEF g
<1> QED BY <1>2, <1>4, <1>11, <1>16, <1>17, <1>18 DEF g

\* What receive and get_further_available_results begin with, and keep: the dummy is gone,
\* and an error in a result that nobody waits for has a query to be reported for.
Receiving(p) ==
    /\ PipeInv(p)
    /\ HavePending(p) => ~p.dummy
    /\ p.error = qid_limit => DOMAIN p.queries # {}

\* obtain_result, in all cases.
LEMMA ResultObtained ==
  ASSUME NEW p, Receiving(p)
  PROVE  LET g == ObtainResult(p, FALSE)
         IN  /\ Receiving(g.p) /\ Kept(p, g.p) /\ g.p.dummy = p.dummy
             /\ g.ok \in BOOLEAN
             /\ g.ok => /\ HavePending(p) /\ g.p.first = After(p, p.first)
                        /\ g.p.error = qid_limit
                        /\ Len(g.p.wire) = Len(p.wire) - 1 /\ p.wire # <<>>
             /\ ~g.ok => /\ ~HavePending(g.p)
                         /\ HavePending(p) => g.p.error # qid_limit
             /\ ~g.ok /\ ~HavePending(p) /\ ~Ended(g.p) => g.p.wire = <<>>
<1> DEFINE g == ObtainResult(p, FALSE)
<1>0. PipeInv(p)
  BY DEF Receiving
<1>1. CASE p.wire = <<>>
  <2>1. /\ PipeInv(g.p) /\ Kept(p, g.p) /\ g.p.wire = <<>> /\ ~HavePending(g.p)
        /\ g.p.dummy = p.dummy /\ ~g.ok
        /\ HavePending(p) => g.p.error # qid_limit
    BY <1>0, <1>1, NoneObtained
  <2>2. g.ok \in BOOLEAN
    BY <1>1 DEF ObtainResult, Got
  <2> HIDE DEF g
  <2>3. Receiving(g.p)
    BY <2>1 DEF Receiving, Kept
  <2> QED BY <2>1, <2>2, <2>3, <1>1 DEF g
<1>2. CASE p.wire # <<>> /\ ~HavePending(p)
  <2>1. /\ PipeInv(g.p) /\ Kept(p, g.p) /\ ~HavePending(g.p) /\ Ended(g.p) /\ ~g.ok
        /\ g.p.dummy = p.dummy /\ g.p.error # qid_limit
    BY <1>0, <1>2, TooManyObtained DEF Receiving
  <2>2. g.ok \in BOOLEAN
    BY <1>2 DEF ObtainResult, Got
  <2> HIDE DEF g
  <2>3. Receiving(g.p)
    BY <2>1 DEF Receiving
  <2> QED BY <2>1, <2>2, <2>3, <1>2 DEF g
<1>3. CASE p.wire # <<>> /\ HavePending(p)
  <2>1. /\ PipeInv(g.p) /\ Kept(p, g.p) /\ g.ok
        /\ ~g.p.dummy /\ g.p.error = qid_limit
        /\ Len(g.p.wire) = Len(p.wire) - 1
        /\ g.p.first = After(p, p.first)
    BY <1>0, <1>3, OneObtained DEF Receiving
  <2>2. g.ok \in BOOLEAN
    BY <1>3 DEF ObtainResult, Got
  <2>3. ~p.dummy /\ p.dummy \in BOOLEAN /\ g.p.dummy \in BOOLEAN
    <3> HIDE DEF g
    <3> QED BY <2>1, <1>0, <1>3 DEF Receiving, PipeInv, Ranged, PipeType
  <2> HIDE DEF g
  <2>4. Receiving(g.p)
    BY <2>1, <1>3 DEF Receiving, Kept
  <2> QED BY <2>1, <2>2, <2>3, <2>4, <1>3 DEF g
<1> QED BY <1>1, <1>2, <1>3

\* A loop that repeats one step.
IsRepeat(S, f, c, g) == g \in [Nat -> S] /\ g[0] = c /\ \A n \in Nat : g[n + 1] = f[g[n]]
LEMMA RepeatExists ==
  ASSUME NEW S, NEW f \in [S -> S], NEW c \in S
  PROVE  \E g : IsRepeat(S, f, c, g)
<1> DEFINE F == [n \in Nat |-> f]
<1>1. F \in Steps(S)
  BY DEF Steps
<1>2. \A n \in Nat : F[n] = f
  OBVIOUS
<1> HIDE DEF F
<1>3. PICK g : IsLoop(S, F, c, g)
  BY <1>1, LoopExists
<1> QED BY <1>2, <1>3 DEF IsLoop, IsRepeat

\* Whether stop is the place after a pending query.
Ahead(p, stop) ==
    /\ HavePending(p) /\ p.first < stop /\ stop <= p.second
    /\ stop \in DOMAIN p.queries \cup {End}
\* What every round of the loop that takes results keeps.
Within(p, stop, g) ==
    /\ g \in [p : PipeType, ok : BOOLEAN]
    /\ Receiving(g.p) /\ Kept(p, g.p) /\ g.p.dummy = p.dummy
    /\ Ahead(p, stop) => /\ g.ok => HavePending(g.p) /\ g.p.first < stop
                         /\ ~g.ok => g.p.error # qid_limit \/ g.p.first = stop

\* One round.
LEMMA TakeOneWithin ==
  ASSUME NEW p, Receiving(p), NEW stop \in Int, NEW g, Within(p, stop, g), g.ok
  PROVE  LET t == TakeOne(g.p, stop)
         IN  /\ Within(p, stop, t)
             /\ t.ok => Len(t.p.wire) = Len(g.p.wire) - 1
<1> DEFINE r == ObtainResult(g.p, FALSE)
           t == TakeOne(g.p, stop)
           b == r.ok /\ r.p.first # stop
<1>1. /\ Receiving(r.p) /\ Kept(g.p, r.p) /\ r.p.dummy = g.p.dummy
      /\ r.ok \in BOOLEAN
      /\ r.ok => /\ HavePending(g.p) /\ r.p.first = After(g.p, g.p.first)
                 /\ r.p.error = qid_limit
                 /\ Len(r.p.wire) = Len(g.p.wire) - 1 /\ g.p.wire # <<>>
      /\ ~r.ok => /\ ~HavePending(r.p)
                  /\ HavePending(g.p) => r.p.error # qid_limit
  BY ResultObtained DEF Within
<1>2. t = Got(r.p, b)
  BY DEF TakeOne
<1> HIDE DEF r, t
<1>3. b \in BOOLEAN
  OBVIOUS
<1>4. t.p = r.p /\ t.ok = b
  <2>1. PICK x \in BOOLEAN : x = b
    OBVIOUS
  <2> HIDE DEF b
  <2>2. t = Got(r.p, x)
    BY <1>2, <2>1
  <2>3. t.p = r.p /\ t.ok = x
    BY <2>2 DEF Got
  <2> QED BY <2>1, <2>3
<1>5. t.ok <=> r.ok /\ r.p.first # stop
  BY <1>4
<1>6. t \in [p : PipeType, ok : BOOLEAN]
  <2>1. r.p \in PipeType
    BY <1>1 DEF Receiving, PipeInv, Ranged
  <2> HIDE DEF b
  <2> QED BY <2>1, <1>2, <1>3 DEF Got
<1>7. /\ p \in PipeType /\ g.p \in PipeType /\ r.p \in PipeType
      /\ DOMAIN g.p.queries \subseteq 1 .. MaxQueries
      /\ g.p.first \in 1 .. End /\ r.p.first \in 1 .. End /\ p.second \in 1 .. End
      /\ r.p.second \in 1 .. End /\ MaxQueries \in Nat \ {0}
  BY <1>1, RangedFacts DEF Receiving, PipeInv, Within
<1>8. Kept(p, r.p)
  BY <1>1, <1>7, KeptTransitive DEF Within
<1>9. ASSUME Ahead(p, stop)
      PROVE  /\ t.ok => HavePending(t.p) /\ t.p.first < stop
             /\ ~t.ok => t.p.error # qid_limit \/ t.p.first = stop
  <2>1. HavePending(g.p) /\ g.p.first < stop
    BY <1>9 DEF Within
  <2>2. CASE ~r.ok
    BY <2>1, <2>2, <1>1, <1>4, <1>5
  <2>3. CASE r.ok
    <3>1. DOMAIN g.p.queries = DOMAIN p.queries
      BY DEF Within, Kept
    <3>2. r.p.first <= stop
      <4>1. g.p.first \in Nat
        BY <1>7
      <4>2. /\ After(g.p, g.p.first) \in 1 .. End
            /\ \A x \in DOMAIN g.p.queries : x > g.p.first => After(g.p, g.p.first) <= x
        BY <4>1, <1>7, AfterFacts
      <4>3. stop \in DOMAIN g.p.queries \cup {End}
        BY <1>9, <3>1 DEF Ahead
      <4> QED BY <4>2, <4>3, <2>1, <2>3, <1>1, <1>7
    <3>3. r.p.second = p.second
      BY <1>8, <1>1, <2>3 DEF Kept
    <3>4. stop <= p.second
      BY <1>9 DEF Ahead
    <3>5. CASE r.p.first = stop
      BY <3>5, <1>4, <1>5
    <3>6. CASE r.p.first # stop
      <4>1. r.p.first < stop /\ r.p.first < r.p.second
        BY <3>2, <3>3, <3>4, <3>6, <1>7
      <4>2. HavePending(r.p)
        BY <4>1, <1>7 DEF HavePending
      <4> QED BY <4>1, <4>2, <3>6, <2>3, <1>4, <1>5
    <3> QED BY <3>5, <3>6
  <2> QED BY <2>2, <2>3
<1>10. t.p.dummy = p.dummy
  BY <1>1, <1>4 DEF Within
<1>11. Within(p, stop, t)
  <2>1. Receiving(t.p) /\ Kept(p, t.p)
    BY <1>1, <1>4, <1>8
  <2> QED BY <2>1, <1>6, <1>9, <1>10 DEF Within
<1> QED BY <1>1, <1>4, <1>5, <1>11 DEF t

\* The rounds by their number.
AreObtained(p, stop, g) ==
    g = [k \in Nat |-> IF k = 0 THEN Got(p, TRUE)
                       ELSE IF g[k - 1].ok THEN TakeOne(g[k - 1].p, stop) ELSE g[k - 1]]

\* The rounds of the loop over get_further_available_results exist.
LEMMA ObtainedExist ==
  ASSUME NEW p, Receiving(p), NEW stop \in Int
  PROVE  \E g : AreObtained(p, stop, g)
<1> DEFINE S == {g \in [p : PipeType, ok : BOOLEAN] : Within(p, stop, g)}
           f == [g \in S |-> IF g.ok THEN TakeOne(g.p, stop) ELSE g]
           c == Got(p, TRUE)
<1>1. c \in S
  <2>1. c.p = p /\ c.ok
    BY GotFacts
  <2>2. p \in PipeType /\ p.first \in Int
    BY RangedFacts DEF Receiving, PipeInv
  <2>3. c \in [p : PipeType, ok : BOOLEAN]
    <3>1. PICK b \in BOOLEAN : b = TRUE
      OBVIOUS
    <3>2. Got(p, b) \in [p : PipeType, ok : BOOLEAN]
      BY <2>2 DEF Got
    <3> QED BY <3>1, <3>2
  <2>4. Kept(p, p)
    BY <2>2 DEF Kept
  <2> HIDE DEF c
  <2>5. Within(p, stop, c)
    BY <2>1, <2>3, <2>4 DEF Within, Ahead
  <2> QED BY <2>3, <2>5
<1>2. f \in [S -> S]
  <2> SUFFICES ASSUME NEW g \in S PROVE (IF g.ok THEN TakeOne(g.p, stop) ELSE g) \in S
    OBVIOUS
  <2>1. ASSUME g.ok PROVE Within(p, stop, TakeOne(g.p, stop))
    BY <2>1, TakeOneWithin
  <2>2. ASSUME g.ok PROVE TakeOne(g.p, stop) \in S
    BY <2>1, <2>2 DEF Within
  <2> HIDE DEF S
  <2> QED BY <2>2
<1> HIDE DEF S
<1> HIDE DEF f, c
<1>a. PICK g : IsRepeat(S, f, c, g)
  BY <1>1, <1>2, RepeatExists
<1>3. g \in [Nat -> S] /\ g[0] = c /\ \A n \in Nat : g[n + 1] = f[g[n]]
  BY <1>a DEF IsRepeat
<1>4. \A n \in Nat : g[n + 1] = IF g[n].ok THEN TakeOne(g[n].p, stop) ELSE g[n]
  BY <1>3 DEF f
<1>5. ASSUME NEW k \in Nat
      PROVE  g[k] = IF k = 0 THEN c ELSE IF g[k - 1].ok THEN TakeOne(g[k - 1].p, stop) ELSE g[k - 1]
  <2>1. CASE k = 0
    BY <1>3, <2>1
  <2>2. CASE k # 0
    <3>1. k - 1 \in Nat /\ (k - 1) + 1 = k
      BY <2>2
    <3> QED BY <1>4, <2>2, <3>1
  <2> QED BY <2>1, <2>2
<1>6. AreObtained(p, stop, g)
  BY <1>3, <1>5 DEF AreObtained, c
<1> QED BY <1>6

\* Results are taken until there is none, or what was asked for has come; and as many
\* rounds as there are results, and one, are enough for that.
LEMMA ObtainedWithin ==
  ASSUME NEW p, Receiving(p), NEW stop \in Int, NEW n \in Nat
  PROVE  LET c == Obtained(p, stop, n)
         IN  /\ Receiving(c) /\ Kept(p, c) /\ c.dummy = p.dummy
             /\ Ahead(p, stop) /\ n = Len(p.wire) + 1 =>
                    c.error # qid_limit \/ c.first = stop
<1> DEFINE round == CHOOSE g : AreObtained(p, stop, g)
           L == Len(p.wire)
<1>1. Obtained(p, stop, n) = round[n].p
  BY DEF Obtained, AreObtained
<1>2. AreObtained(p, stop, round)
  BY ObtainedExist
<1>3. p \in PipeType /\ p.first \in Int /\ L \in Nat
  <2>1. p \in PipeType /\ p.first \in Int
    BY RangedFacts DEF Receiving, PipeInv
  <2>2. p.wire \in Seq(PipeResults)
    BY <2>1 DEF PipeType
  <2> QED BY <2>1, <2>2, LenProperties
<1> HIDE DEF round, L
<1>4. round[0] = Got(p, TRUE)
  BY <1>2 DEF AreObtained
<1>5. ASSUME NEW k \in Nat
      PROVE  round[k + 1] = IF round[k].ok THEN TakeOne(round[k].p, stop) ELSE round[k]
  <2>1. k + 1 \in Nat /\ k + 1 # 0 /\ (k + 1) - 1 = k
    OBVIOUS
  <2> QED BY <2>1, <1>2 DEF AreObtained
<1> DEFINE Good(k) == /\ Within(p, stop, round[k])
                      /\ round[k].ok => Len(round[k].p.wire) = L - k
           T == {k \in Nat : Good(k)}
<1>6. 0 \in T
  <2>1. round[0].p = p /\ round[0].ok
    <3>1. Got(p, TRUE).p = p /\ Got(p, TRUE).ok
      BY GotFacts
    <3> QED BY <1>4, <3>1
  <2>2. round[0] \in [p : PipeType, ok : BOOLEAN]
    <3>1. PICK b \in BOOLEAN : b = TRUE
      OBVIOUS
    <3>2. Got(p, b) \in [p : PipeType, ok : BOOLEAN]
      BY <1>3 DEF Got
    <3> QED BY <3>1, <3>2, <1>4
  <2>3. Kept(p, p)
    BY <1>3 DEF Kept
  <2>4. Within(p, stop, round[0])
    BY <2>1, <2>2, <2>3 DEF Within, Ahead
  <2> QED BY <2>1, <2>4, <1>3 DEF L
<1>7. ASSUME NEW k \in Nat, k \in T PROVE k + 1 \in T
  <2>0. Good(k)
    BY <1>7
  <2>1. CASE round[k].ok
    <3>1. /\ Within(p, stop, TakeOne(round[k].p, stop))
          /\ TakeOne(round[k].p, stop).ok =>
                Len(TakeOne(round[k].p, stop).p.wire) = Len(round[k].p.wire) - 1
      BY <2>0, <2>1, TakeOneWithin
    <3>2. round[k + 1] = TakeOne(round[k].p, stop)
      BY <1>5, <2>1
    <3>3. Within(p, stop, round[k + 1])
      BY <3>1, <3>2
    <3>4. ASSUME round[k + 1].ok PROVE Len(round[k + 1].p.wire) = L - (k + 1)
      <4>1. Len(round[k + 1].p.wire) = Len(round[k].p.wire) - 1
        BY <3>1, <3>2, <3>4
      <4>2. Len(round[k].p.wire) = L - k
        BY <2>0, <2>1
      <4> QED BY <4>1, <4>2, <1>3
    <3> QED BY <3>3, <3>4
  <2>2. CASE ~round[k].ok
    <3>1. round[k + 1] = round[k]
      BY <1>5, <2>2
    <3> QED BY <2>0, <2>2, <3>1
  <2> QED BY <2>1, <2>2
<1>8. Nat \subseteq T
  <2> HIDE DEF T
  <2> QED BY <1>6, <1>7, SetInduction
<1>9. Good(n)
  BY <1>8
<1>10. ASSUME n = L + 1 PROVE ~round[n].ok
  <2>1. round[n].p.wire \in Seq(PipeResults)
    BY <1>9 DEF Within, PipeType
  <2>2. Len(round[n].p.wire) \in Nat
    BY <2>1, LenProperties
  <2> QED BY <2>2, <1>3, <1>9, <1>10
<1> QED BY <1>1, <1>9, <1>10 DEF Within, L

(***************************************************************************)
(* The queries of a failed batch, one at a time.                           *)
(***************************************************************************)
\* Before each query of the batch, which ends at stop: none of what is left took effect,
\* and one of them will fail.
Replaying(c, stop) ==
    /\ c \in PipeType /\ DOMAIN c.res = DOMAIN c.queries
    /\ \A q \in DOMAIN c.queries : q <= c.q_id
    /\ c.first \in DOMAIN c.queries /\ c.first < stop /\ stop \in DOMAIN c.queries \cup {End}
    /\ c.error = qid_limit /\ ~c.dummy /\ Told(c) /\ Answered(c)
    /\ \A q \in 1 .. MaxQueries : /\ c.effects[q] <= 1
                                  /\ q > c.q_id \/ q >= c.first => c.effects[q] = 0
    /\ \/ c.failed
       \/ \E q \in DOMAIN c.queries : c.first <= q /\ q < stop /\ c.queries[q] = "syntax"
\* What every round of the loop keeps.
Replayed(p, stop, g) ==
    /\ g \in [p : PipeType, ok : BOOLEAN] /\ Kept(p, g.p)
    /\ g.ok => Replaying(g.p, stop)
    /\ ~g.ok => PipeInv(g.p) /\ g.p.error # qid_limit /\ ~g.p.dummy

\* A query that succeeds is not the last of the batch.
LEMMA ReplayGoes ==
  ASSUME NEW c, NEW stop, Replaying(c, stop), c.queries[c.first] = "good", ~c.failed
  PROVE  LET t == ReplayOne(c, stop)
         IN  /\ t \in [p : PipeType, ok : BOOLEAN] /\ t.ok /\ Replaying(t.p, stop)
             /\ Kept(c, t.p) /\ t.p.first > c.first
<1> DEFINE q == c.first
           D == DOMAIN c.queries
           r == [PipeResult(q, TRUE) EXCEPT !.names = q]
           next == After(c, q)
           sent == [c EXCEPT !.waiting = @ - 1]
           nr == [c.res EXCEPT ![q] = r]
           ne == [c.effects EXCEPT ![q] = @ + 1]
           nw == c.waiting - 1
           d == [c EXCEPT !.waiting = nw, !.res = nr, !.first = next, !.effects = ne]
           t == ReplayOne(c, stop)
<1>0. /\ c \in PipeType /\ DOMAIN c.res = D /\ D \subseteq 1 .. MaxQueries
      /\ q \in D /\ q \in Nat /\ q \in 1 .. MaxQueries /\ MaxQueries \in Nat \ {0}
      /\ c.effects \in [1 .. MaxQueries -> Nat] /\ c.waiting \in Int
      /\ c.res \in Maps(PipeResults)
  <2>1. c \in PipeType /\ c.queries \in Maps(Queries) /\ DOMAIN c.res = D
    BY DEF Replaying, PipeType
  <2>2. D \subseteq 1 .. MaxQueries
    BY <2>1, MapFacts
  <2>3. q \in D /\ MaxQueries \in Nat \ {0}
    BY PipelineAssumption DEF Replaying
  <2>4. q \in 1 .. MaxQueries /\ q \in Nat
    BY <2>2, <2>3
  <2>5. c.effects \in [1 .. MaxQueries -> Nat] /\ c.waiting \in Int
        /\ c.res \in Maps(PipeResults)
    BY <2>1 DEF PipeType
  <2> QED BY <2>1, <2>2, <2>3, <2>4, <2>5
<1>1. /\ next \in D \cup {End} /\ next \in 1 .. End
      /\ q < next
      /\ \A x \in D : x > q => next <= x
  <2>1. q < End
    BY <1>0
  <2> QED BY <1>0, <2>1, AfterFacts
<1>2. PICK s \in D : q <= s /\ s < stop /\ c.queries[s] = "syntax"
  BY DEF Replaying
<1>3. s # q /\ s \in 1 .. MaxQueries /\ s > q
  BY <1>0, <1>2
<1>4. next <= s /\ next \in D /\ next # stop /\ next < stop
  <2>1. stop \in 1 .. End
    BY <1>0 DEF Replaying
  <2>2. next <= s
    BY <1>1, <1>2, <1>3
  <2> QED BY <2>1, <2>2, <1>0, <1>1, <1>2, <1>3
<1>5. r \in PipeResults /\ r.of = q
  <2>1. PICK b \in BOOLEAN : b = TRUE
    OBVIOUS
  <2>2. r = [[of |-> q, ok |-> b, names |-> 0] EXCEPT !.names = q]
    BY <2>1 DEF PipeResult
  <2>3. [[of |-> q, ok |-> b, names |-> 0] EXCEPT !.names = q] = [of |-> q, ok |-> b, names |-> q]
    OBVIOUS
  <2>4. q \in 0 .. MaxQueries /\ q \in 0 .. End
    BY <1>0
  <2>5. r = [of |-> q, ok |-> b, names |-> q]
    BY <2>2, <2>3
  <2> HIDE DEF r, q
  <2> QED BY <2>4, <2>5 DEF PipeResults
<1>6. nr \in Maps(PipeResults) /\ DOMAIN nr = D /\ nr[q] = r
      /\ \A x \in D : x # q => nr[x] = c.res[x]
  <2> HIDE DEF r
  <2>1. nr \in Maps(PipeResults) /\ DOMAIN nr = D
    BY <1>0, <1>5, MapExcept
  <2> QED BY <1>0, <2>1
<1>7. /\ ne \in [1 .. MaxQueries -> Nat]
      /\ ne[q] = c.effects[q] + 1
      /\ \A x \in 1 .. MaxQueries : x # q => ne[x] = c.effects[x]
  <2>1. c.effects[q] + 1 \in Nat
    BY <1>0
  <2> HIDE DEF q
  <2> QED BY <1>0, <2>1
<1>8. nw \in Int
  BY <1>0
<1>9. [sent EXCEPT !.res[q] = r, !.first = next, !.effects[q] = @ + 1] = d
  <2> HIDE DEF r, next, q
  <2> QED BY <1>0 DEF PipeType
<1>10. t = Got(d, next # stop)
  <2>1. t = Got([sent EXCEPT !.res[q] = r, !.first = next, !.effects[q] = @ + 1], next # stop)
    BY DEF ReplayOne
  <2> HIDE DEF d, r, sent, next, t
  <2> QED BY <2>1, <1>9
<1> HIDE DEF nr, ne, nw, next, r
<1>11. /\ d \in PipeType
       /\ d.res = nr /\ d.first = next /\ d.effects = ne
       /\ d.queries = c.queries /\ d.error = c.error
       /\ d.second = c.second /\ d.q_id = c.q_id
       /\ d.dummy = c.dummy /\ d.failed = c.failed /\ d.told = c.told
  BY <1>0, <1>1, <1>6, <1>7, <1>8 DEF PipeType
<1> HIDE DEF d
<1>12. t.p = d /\ t.ok /\ t \in [p : PipeType, ok : BOOLEAN]
  <2>1. PICK b \in BOOLEAN : b = TRUE
    OBVIOUS
  <2>2. (next # stop) = b
    BY <2>1, <1>4
  <2>3. t = Got(d, b)
    <3> HIDE DEF t
    <3> QED BY <2>2, <1>10
  <2> HIDE DEF t
  <2>4. t.p = d /\ t.ok = b /\ t \in [p : PipeType, ok : BOOLEAN]
    BY <2>3, <1>11 DEF Got
  <2> QED BY <2>1, <2>4
<1> HIDE DEF t
<1>13. Answered(d)
  <2> SUFFICES ASSUME NEW x \in D
               PROVE  (d.res[x].ok => d.res[x].of = x) /\ (x >= next => ~d.res[x].ok)
    BY <1>6, <1>11 DEF Answered
  <2>1. CASE x = q
    BY <2>1, <1>0, <1>1, <1>5, <1>6, <1>11
  <2>2. CASE x # q
    <3>1. d.res[x] = c.res[x] /\ x \in Int
      BY <2>2, <1>6, <1>11, <1>0
    <3>2. (c.res[x].ok => c.res[x].of = x) /\ (x >= q => ~c.res[x].ok)
      BY <1>0 DEF Replaying, Answered
    <3> QED BY <3>1, <3>2, <1>0, <1>1
  <2> QED BY <2>1, <2>2
<1>14. ASSUME NEW x \in 1 .. MaxQueries
       PROVE  d.effects[x] <= 1 /\ (x > d.q_id \/ x >= d.first => d.effects[x] = 0)
  <2>1. /\ c.effects[x] <= 1 /\ c.effects[q] = 0
        /\ (x > c.q_id \/ x >= c.first => c.effects[x] = 0)
    BY <1>0 DEF Replaying
  <2>2. d.effects[x] = ne[x] /\ d.q_id = c.q_id /\ d.first = next /\ next > q /\ next \in Int
        /\ q \in Int /\ x \in Int
    BY <1>0, <1>1, <1>11
  <2>3. CASE x = q
    <3>1. q <= c.q_id /\ c.q_id \in Int
      <4>1. c.q_id \in 0 .. MaxQueries
        BY <1>0 DEF PipeType
      <4> QED BY <4>1, <1>0 DEF Replaying
    <3>2. ne[x] = 1
      BY <2>1, <2>3, <1>7
    <3> HIDE DEF q
    <3> QED BY <2>2, <2>3, <3>1, <3>2
  <2>4. CASE x # q
    <3>1. ne[x] = c.effects[x]
      BY <2>4, <1>7
    <3>2. x >= next => x >= q
      BY <2>2
    <3> QED BY <2>1, <2>2, <3>1, <3>2
  <2> QED BY <2>3, <2>4
<1>15. Replaying(d, stop)
  <2>1. \E y \in DOMAIN d.queries : d.first <= y /\ y < stop /\ d.queries[y] = "syntax"
    BY <1>2, <1>4, <1>11
  <2>2. Told(d)
    BY <1>11 DEF Replaying, Told
  <2>3. /\ \A x \in DOMAIN d.queries : x <= d.q_id
        /\ stop \in DOMAIN d.queries \cup {End} /\ d.error = qid_limit /\ ~d.dummy
        /\ DOMAIN d.res = DOMAIN d.queries
    BY <1>6, <1>11 DEF Replaying
  <2> QED BY <2>1, <2>2, <2>3, <1>4, <1>11, <1>13, <1>14 DEF Replaying
<1>16. Kept(c, d) /\ d.first > c.first
  BY <1>0, <1>1, <1>11 DEF Kept
<1> QED BY <1>12, <1>15, <1>16 DEF t

\* A query that fails ends the issued range, and the next one gets the error.
LEMMA ReplayStops ==
  ASSUME NEW c, NEW stop, Replaying(c, stop), ~(c.queries[c.first] = "good" /\ ~c.failed)
  PROVE  LET t == ReplayOne(c, stop)
         IN  /\ t \in [p : PipeType, ok : BOOLEAN] /\ ~t.ok /\ PipeInv(t.p) /\ Kept(c, t.p)
             /\ t.p.error # qid_limit /\ ~t.p.dummy
<1> DEFINE q == c.first
           D == DOMAIN c.queries
           next == After(c, q)
           sent == [c EXCEPT !.waiting = @ - 1]
           nw == c.waiting - 1
           nf == c.failed \/ c.block
           s == [sent EXCEPT !.first = next, !.second = next, !.failed = @ \/ c.block]
           d == [c EXCEPT !.waiting = nw, !.first = next, !.second = next, !.failed = nf]
           at == IF next = End THEN q + 1 ELSE next
           e == SetErrorAt(d, at)
           t == ReplayOne(c, stop)
<1>0. /\ c \in PipeType /\ DOMAIN c.res = D /\ D \subseteq 1 .. MaxQueries
      /\ q \in D /\ q \in Nat /\ q \in 1 .. MaxQueries /\ MaxQueries \in Nat \ {0}
      /\ c.waiting \in Int /\ c.failed \in BOOLEAN /\ c.block \in BOOLEAN
      /\ c.q_id \in 0 .. MaxQueries
  <2>1. c \in PipeType /\ c.queries \in Maps(Queries) /\ DOMAIN c.res = D
    BY DEF Replaying, PipeType
  <2>2. D \subseteq 1 .. MaxQueries
    BY <2>1, MapFacts
  <2> QED BY <2>1, <2>2, PipelineAssumption DEF Replaying, PipeType
<1>1. /\ next \in D \cup {End} /\ next \in 1 .. End /\ q < next
      /\ \A x \in D : x > q => next <= x
  BY <1>0, AfterFacts
<1>2. t = Got(e, FALSE)
  <2>1. s = d
    <3> HIDE DEF next, q
    <3> QED BY <1>0 DEF PipeType
  <2>2. t = Got(SetErrorAt(s, at), FALSE)
    BY DEF ReplayOne
  <2> HIDE DEF s, d, t, at
  <2> QED BY <2>1, <2>2
<1>3. at \in 0 .. qid_limit /\ at < qid_limit /\ at <= next /\ at <= c.q_id + 1
  <2>1. q <= c.q_id /\ (next \in D => next <= c.q_id)
    BY <1>0 DEF Replaying
  <2> HIDE DEF next, q
  <2> QED BY <2>1, <1>0, <1>1
<1>4. nw \in Int /\ nf \in BOOLEAN
  BY <1>0
<1> HIDE DEF next, nw, nf, at
<1>5. /\ d \in PipeType /\ d.first = next /\ d.second = next
      /\ d.res = c.res /\ d.effects = c.effects
      /\ d.queries = c.queries /\ d.error = c.error /\ d.q_id = c.q_id
      /\ d.dummy = c.dummy /\ d.told = c.told
  BY <1>0, <1>1, <1>4 DEF PipeType
<1> HIDE DEF d
<1>6. /\ e \in PipeType /\ e.first = next /\ e.second = next
      /\ e.res = c.res /\ e.effects = c.effects /\ e.error = at
      /\ e.queries = c.queries /\ e.q_id = c.q_id
      /\ e.dummy = c.dummy /\ e.told = c.told
  <2>1. /\ e \in PipeType /\ e.error = (IF at < d.error THEN at ELSE d.error)
        /\ e.queries = d.queries /\ e.res = d.res /\ e.first = d.first
        /\ e.second = d.second /\ e.q_id = d.q_id
        /\ e.dummy = d.dummy /\ e.effects = d.effects /\ e.told = d.told
    BY <1>3, <1>5, ErrorSet
  <2>2. d.error = qid_limit
    BY <1>5 DEF Replaying
  <2> HIDE DEF e
  <2> QED BY <2>1, <2>2, <1>3, <1>5
<1> HIDE DEF e
<1>7. e.error # qid_limit /\ ~HavePending(e) /\ ~e.dummy
  BY <1>0, <1>3, <1>6 DEF HavePending, Replaying
<1>8. Ranged(e)
  BY <1>0, <1>1, <1>6 DEF Ranged, Replaying
<1>9. Counted(e) /\ Told(e) /\ Stopped(e)
  BY <1>3, <1>6, <1>7 DEF Counted, Told, Stopped, Replaying
<1>10. Fresh(e)
  BY <1>6, <1>7 DEF Fresh, Replaying
<1>11. Answered(e)
  <2> SUFFICES ASSUME NEW x \in D
               PROVE  (c.res[x].ok => c.res[x].of = x) /\ (x >= next => ~c.res[x].ok)
    BY <1>0, <1>6 DEF Answered
  <2>1. (c.res[x].ok => c.res[x].of = x) /\ (x >= q => ~c.res[x].ok)
    BY <1>0 DEF Replaying, Answered
  <2> QED BY <2>1, <1>0, <1>1
<1>12. PipeInv(e)
  BY <1>7, <1>8, <1>9, <1>10, <1>11 DEF PipeInv
<1>13. Kept(c, e)
  BY <1>0, <1>1, <1>6, <1>7 DEF Kept
<1>14. t.p = e /\ ~t.ok /\ t \in [p : PipeType, ok : BOOLEAN]
  <2>1. PICK b \in BOOLEAN : b = FALSE
    OBVIOUS
  <2> HIDE DEF t
  <2>2. t = Got(e, b)
    BY <2>1, <1>2
  <2>3. t.p = e /\ t.ok = b /\ t \in [p : PipeType, ok : BOOLEAN]
    BY <2>2, <1>6 DEF Got
  <2> QED BY <2>1, <2>3
<1> HIDE DEF t
<1> QED BY <1>7, <1>12, <1>13, <1>14 DEF t

\* One round, and the number of rounds that can follow.
LEMMA ReplayRound ==
  ASSUME NEW p \in PipeType, NEW stop, NEW g, Replayed(p, stop, g), g.ok
  PROVE  LET t == ReplayOne(g.p, stop)
         IN  Replayed(p, stop, t) /\ (t.ok => t.p.first > g.p.first)
<1> DEFINE t == ReplayOne(g.p, stop)
<1>1. Replaying(g.p, stop) /\ Kept(p, g.p) /\ g.p \in PipeType
  BY DEF Replayed, Replaying
<1>2. CASE g.p.queries[g.p.first] = "good" /\ ~g.p.failed
  <2>1. /\ t \in [p : PipeType, ok : BOOLEAN] /\ t.ok /\ Replaying(t.p, stop)
        /\ Kept(g.p, t.p) /\ t.p.first > g.p.first
    BY <1>1, <1>2, ReplayGoes
  <2> HIDE DEF t
  <2>2. t.p \in PipeType
    BY <2>1
  <2>3. Kept(p, t.p)
    BY <1>1, <2>1, <2>2, KeptTransitive
  <2> QED BY <2>1, <2>3 DEF Replayed, t
<1>3. CASE ~(g.p.queries[g.p.first] = "good" /\ ~g.p.failed)
  <2>1. /\ t \in [p : PipeType, ok : BOOLEAN] /\ ~t.ok /\ PipeInv(t.p) /\ Kept(g.p, t.p)
        /\ t.p.error # qid_limit /\ ~t.p.dummy
    BY <1>1, <1>3, ReplayStops
  <2> HIDE DEF t
  <2>2. t.p \in PipeType
    BY <2>1
  <2>3. Kept(p, t.p)
    BY <1>1, <2>1, <2>2, KeptTransitive
  <2> QED BY <2>1, <2>3 DEF Replayed, t
<1> QED BY <1>2, <1>3

\* The rounds by their number.
AreReplayed(p, stop, g) ==
    g = [n \in Nat |-> IF n = 0 THEN Got(p, TRUE)
                       ELSE IF g[n - 1].ok THEN ReplayOne(g[n - 1].p, stop) ELSE g[n - 1]]

\* The state before the first round.
LEMMA ReplayFirst ==
  ASSUME NEW p, NEW stop, Replaying(p, stop)
  PROVE  Replayed(p, stop, Got(p, TRUE)) /\ Got(p, TRUE).p = p /\ Got(p, TRUE).ok
<1> DEFINE c == Got(p, TRUE)
<1>1. c.p = p /\ c.ok
  BY GotFacts
<1>2. p \in PipeType /\ p.first \in Int
  BY PipelineAssumption DEF Replaying, PipeType
<1>3. c \in [p : PipeType, ok : BOOLEAN]
  <2>1. PICK b \in BOOLEAN : b = TRUE
    OBVIOUS
  <2>2. Got(p, b) \in [p : PipeType, ok : BOOLEAN]
    BY <1>2 DEF Got
  <2> QED BY <2>1, <2>2
<1>4. Kept(p, p)
  BY <1>2 DEF Kept
<1> HIDE DEF c
<1> QED BY <1>1, <1>3, <1>4 DEF Replayed, c

\* The rounds of the loop that issues queries one by one exist.
LEMMA ReplayExists ==
  ASSUME NEW p, NEW stop, Replaying(p, stop)
  PROVE  \E g : AreReplayed(p, stop, g)
<1> DEFINE S == {g \in [p : PipeType, ok : BOOLEAN] : Replayed(p, stop, g)}
           f == [g \in S |-> IF g.ok THEN ReplayOne(g.p, stop) ELSE g]
           c == Got(p, TRUE)
<1>0. p \in PipeType
  BY DEF Replaying
<1>1. c \in S
  BY ReplayFirst DEF Replayed
<1>2. f \in [S -> S]
  <2> SUFFICES ASSUME NEW g \in S PROVE (IF g.ok THEN ReplayOne(g.p, stop) ELSE g) \in S
    OBVIOUS
  <2>1. ASSUME g.ok PROVE Replayed(p, stop, ReplayOne(g.p, stop))
    BY <2>1, <1>0, ReplayRound
  <2>2. ASSUME g.ok PROVE ReplayOne(g.p, stop) \in S
    BY <2>1, <2>2 DEF Replayed
  <2> HIDE DEF S
  <2> QED BY <2>2
<1> HIDE DEF S, f, c
<1>a. PICK g : IsRepeat(S, f, c, g)
  BY <1>1, <1>2, RepeatExists
<1>3. g \in [Nat -> S] /\ g[0] = c /\ \A n \in Nat : g[n + 1] = f[g[n]]
  BY <1>a DEF IsRepeat
<1>4. \A n \in Nat : g[n + 1] = IF g[n].ok THEN ReplayOne(g[n].p, stop) ELSE g[n]
  BY <1>3 DEF f
<1>5. ASSUME NEW k \in Nat
      PROVE  g[k] = IF k = 0 THEN c
                    ELSE IF g[k - 1].ok THEN ReplayOne(g[k - 1].p, stop) ELSE g[k - 1]
  <2>1. CASE k = 0
    BY <1>3, <2>1
  <2>2. CASE k # 0
    <3>1. k - 1 \in Nat /\ (k - 1) + 1 = k
      BY <2>2
    <3> QED BY <1>4, <2>2, <3>1
  <2> QED BY <2>1, <2>2
<1>6. AreReplayed(p, stop, g)
  BY <1>3, <1>5 DEF AreReplayed, c
<1> QED BY <1>6

\* A failed batch is executed up to the query that fails, and nothing takes effect twice.
LEMMA ReplayTrue ==
  ASSUME NEW p, NEW stop, Replaying(p, stop)
  PROVE  LET c == Replay(p, stop)
         IN  PipeInv(c) /\ Kept(p, c) /\ c.error # qid_limit /\ ~c.dummy
<1> DEFINE round == CHOOSE g : AreReplayed(p, stop, g)
<1>1. Replay(p, stop) = round[MaxQueries].p
  BY DEF Replay, AreReplayed
<1>2. AreReplayed(p, stop, round)
  BY ReplayExists
<1>3. p \in PipeType /\ p.first \in 1 .. End /\ MaxQueries \in Nat \ {0}
  BY PipelineAssumption DEF Replaying, PipeType
<1> HIDE DEF round
<1>4. round[0] = Got(p, TRUE)
  BY <1>2 DEF AreReplayed
<1>5. ASSUME NEW k \in Nat
      PROVE  round[k + 1] = IF round[k].ok THEN ReplayOne(round[k].p, stop) ELSE round[k]
  <2>1. k + 1 \in Nat /\ k + 1 # 0 /\ (k + 1) - 1 = k
    OBVIOUS
  <2> QED BY <2>1, <1>2 DEF AreReplayed
<1> DEFINE Good(k) == Replayed(p, stop, round[k]) /\ (round[k].ok => round[k].p.first > k)
           T == {k \in Nat : Good(k)}
<1>6. 0 \in T
  <2>1. Replayed(p, stop, round[0]) /\ round[0].p = p
    BY <1>4, ReplayFirst
  <2> QED BY <2>1, <1>3
<1>7. ASSUME NEW k \in Nat, k \in T PROVE k + 1 \in T
  <2>0. Good(k)
    BY <1>7
  <2>1. CASE round[k].ok
    <3> DEFINE t == ReplayOne(round[k].p, stop)
    <3>1. Replayed(p, stop, t) /\ (t.ok => t.p.first > round[k].p.first)
      BY <2>0, <2>1, <1>3, ReplayRound
    <3>2. round[k + 1] = t
      BY <1>5, <2>1
    <3> HIDE DEF t
    <3>3. t.p.first \in 1 .. End /\ round[k].p.first \in 1 .. End
      BY <2>0, <3>1 DEF Replayed, PipeType
    <3>4. t.ok => t.p.first > k + 1
      BY <2>0, <2>1, <3>1, <3>3, <1>3
    <3> QED BY <3>1, <3>2, <3>4
  <2>2. CASE ~round[k].ok
    <3>1. round[k + 1] = round[k]
      BY <1>5, <2>2
    <3> QED BY <2>0, <2>2, <3>1
  <2> QED BY <2>1, <2>2
<1>8. Nat \subseteq T
  <2> HIDE DEF T
  <2> QED BY <1>6, <1>7, SetInduction
<1>9. Good(MaxQueries)
  BY <1>8, <1>3
<1>10. ~round[MaxQueries].ok
  <2> SUFFICES ASSUME round[MaxQueries].ok PROVE FALSE
    OBVIOUS
  <2>1. Replaying(round[MaxQueries].p, stop) /\ round[MaxQueries].p.first > MaxQueries
    BY <1>9 DEF Replayed
  <2>2. round[MaxQueries].p.first \in DOMAIN round[MaxQueries].p.queries
        /\ round[MaxQueries].p.queries \in Maps(Queries)
    BY <2>1 DEF Replaying, PipeType
  <2>3. round[MaxQueries].p.first \in 1 .. MaxQueries
    BY <2>2, MapFacts
  <2> QED BY <2>1, <2>3, <1>3
<1> QED BY <1>1, <1>9, <1>10 DEF Replayed

(***************************************************************************)
(* The dummy.                                                              *)
(***************************************************************************)
\* What receive and receive_if_available begin with.
Receivable(p) ==
    /\ PipeInv(p)
    /\ p.error = qid_limit => DOMAIN p.queries # {}
    /\ p.dummy /\ ~HavePending(p) => p.wire = <<>>

\* A dummy that was cancelled with its batch has no result.
LEMMA DummyMissing ==
  ASSUME NEW p, Receivable(p), p.dummy, p.wire = <<>>
  PROVE  LET c == ObtainDummy(p) IN Receiving(c) /\ Kept(p, c) /\ c.error # qid_limit
<1> DEFINE s == [p EXCEPT !.dummy = FALSE, !.busy = FALSE]
           e == SetErrorAt(s, 0)
           c == Throw(e, "internal_error")
<1>0. /\ p \in PipeType /\ p.first \in 1 .. End /\ p.second \in 1 .. End
      /\ p.error \in 0 .. qid_limit /\ p.q_id \in 0 .. MaxQueries
      /\ MaxQueries \in Nat \ {0}
  BY RangedFacts DEF PipeInv, Receivable
<1>1. ~HavePending(p)
  BY DEF Receivable, PipeInv, Coming
<1>2. ObtainDummy(p) = c
  BY DEF ObtainDummy, InternalError
<1>3. /\ s \in PipeType /\ s.error = p.error
      /\ s.queries = p.queries /\ s.res = p.res /\ s.first = p.first
      /\ s.second = p.second /\ s.q_id = p.q_id
      /\ s.effects = p.effects /\ s.told = p.told
  <2>1. PICK b \in BOOLEAN : b = FALSE
    OBVIOUS
  <2>2. s = [p EXCEPT !.dummy = b, !.busy = b]
    BY <2>1
  <2> HIDE DEF s
  <2> QED BY <2>1, <2>2, <1>0 DEF PipeType
<1> HIDE DEF s
<1>4. /\ e \in PipeType /\ e.error = 0
      /\ e.queries = p.queries /\ e.res = p.res /\ e.first = p.first
      /\ e.second = p.second /\ e.q_id = p.q_id
      /\ e.effects = p.effects /\ e.told = p.told
  <2>1. 0 \in 0 .. qid_limit
    BY <1>0
  <2>2. /\ e \in PipeType /\ e.error = (IF 0 < s.error THEN 0 ELSE s.error)
        /\ e.queries = s.queries /\ e.res = s.res /\ e.first = s.first
        /\ e.second = s.second /\ e.q_id = s.q_id
        /\ e.effects = s.effects /\ e.told = s.told
    BY <2>1, <1>3, ErrorSet
  <2> HIDE DEF e
  <2> QED BY <2>2, <1>0, <1>3
<1> HIDE DEF e
<1>5. /\ c \in PipeType /\ c.error = 0
      /\ c.queries = p.queries /\ c.res = p.res /\ c.first = p.first
      /\ c.second = p.second /\ c.q_id = p.q_id
      /\ c.effects = p.effects /\ c.told = p.told
  BY <1>4 DEF Throw, PipeType
<1> HIDE DEF c
<1>6. c.error # qid_limit /\ ~HavePending(c)
  BY <1>0, <1>1, <1>5 DEF HavePending
<1>7. Ranged(c) /\ Stopped(c)
  BY <1>0, <1>5, <1>6 DEF Receivable, PipeInv, Ranged, Stopped, HavePending
<1>8. Counted(c) /\ Told(c) /\ Answered(c) /\ Fresh(c)
  BY <1>5, <1>6 DEF Receivable, PipeInv, Counted, Told, Answered, Fresh
<1>9. Receiving(c)
  BY <1>6, <1>7, <1>8 DEF Receiving, PipeInv
<1>10. Kept(p, c)
  BY <1>0, <1>5, <1>6 DEF Kept
<1> QED BY <1>2, <1>6, <1>9, <1>10

\* The dummy succeeded: the results of the batch follow.
LEMMA DummyGood ==
  ASSUME NEW p, Receivable(p), p.dummy, p.wire # <<>>, p.wire[1].ok
  PROVE  LET c == ObtainDummy(p)
         IN  Receiving(c) /\ Kept(p, c) /\ c.first = p.first
<1> DEFINE t == [p EXCEPT !.wire = Tail(@)]
           c == [p EXCEPT !.dummy = FALSE, !.wire = Tail(@)]
<1>0. /\ p \in PipeType /\ p.first \in 1 .. End /\ MaxQueries \in Nat \ {0}
      /\ PipeInv(p) /\ HavePending(p)
  BY RangedFacts DEF PipeInv, Receivable
<1>1. /\ t \in PipeType /\ t.wire = Tail(p.wire)
      /\ t.queries = p.queries /\ t.res = p.res /\ t.first = p.first /\ t.error = p.error
      /\ t.second = p.second /\ t.waiting = p.waiting /\ t.q_id = p.q_id
      /\ t.effects = p.effects /\ t.told = p.told
      /\ Head(p.wire) = p.wire[1]
  BY <1>0, WireTaken
<1>2. ObtainDummy(p) = c
  <2>1. Head(p.wire).ok
    BY <1>1
  <2> QED BY <2>1 DEF ObtainDummy
<1>3. PICK b \in BOOLEAN : b = FALSE
  OBVIOUS
<1>4. c = [t EXCEPT !.dummy = b]
  <2>1. c = [p EXCEPT !.dummy = b, !.wire = Tail(@)]
    BY <1>3
  <2> HIDE DEF c
  <2> QED BY <2>1, <1>0 DEF PipeType
<1> HIDE DEF t, c
<1>5. /\ c \in PipeType /\ c.dummy = b /\ c.wire = Tail(p.wire)
      /\ c.queries = p.queries /\ c.res = p.res /\ c.first = p.first /\ c.error = p.error
      /\ c.second = p.second /\ c.waiting = p.waiting /\ c.q_id = p.q_id
      /\ c.effects = p.effects /\ c.told = p.told
  BY <1>1, <1>4 DEF PipeType
<1>6. Ranged(c) /\ Stopped(c) /\ Told(c)
  BY <1>5 DEF Receivable, PipeInv, Ranged, Stopped, Told
<1>7. Counted(c) /\ Answered(c) /\ Fresh(c)
  BY <1>5 DEF Receivable, PipeInv, Counted, Between, Answered, Fresh
<1>8. Coming(c)
  <2>1. Chain(DOMAIN p.queries, Tail(p.wire), p.first)
    BY <1>0 DEF PipeInv, Coming
  <2> QED BY <2>1, <1>3, <1>5 DEF Coming
<1>9. Receiving(c)
  BY <1>3, <1>5, <1>6, <1>7, <1>8 DEF Receiving, PipeInv, Receivable
<1>10. Kept(p, c)
  BY <1>0, <1>5 DEF Kept
<1> QED BY <1>2, <1>5, <1>9, <1>10

\* The dummy failed: the results of the whole batch are its own, and it is replayed.
LEMMA DummyBad ==
  ASSUME NEW p, Receivable(p), p.dummy, p.wire # <<>>, ~p.wire[1].ok
  PROVE  LET c == ObtainDummy(p)
         IN  Receiving(c) /\ Kept(p, c) /\ (c.error = qid_limit => c.first = p.first)
<1> DEFINE D == DOMAIN p.queries
           r == Head(p.wire)
           t == [p EXCEPT !.wire = Tail(@)]
           seen == [p EXCEPT !.dummy = FALSE, !.wire = Tail(@)]
           nr == [q \in DOMAIN p.res |-> IF p.first <= q /\ q < p.second THEN r ELSE p.res[q]]
           marked == [seen EXCEPT !.res = [q \in DOMAIN @ |->
                         IF p.first <= q /\ q < p.second THEN r ELSE @[q]]]
           d == [marked EXCEPT !.busy = FALSE]
           drained == ObtainResult(marked, TRUE).p
           nw == d.waiting + Between(p, p.first, p.second)
           again == [d EXCEPT !.waiting = nw, !.second = p.first, !.registered = FALSE]
<1>0. /\ p \in PipeType /\ p.first \in 1 .. End /\ p.second \in 1 .. End
      /\ MaxQueries \in Nat \ {0} /\ p.first < p.second /\ p.first \in D
      /\ PipeInv(p) /\ HavePending(p) /\ p.error = qid_limit
      /\ D \subseteq 1 .. MaxQueries /\ DOMAIN p.res = D /\ p.res \in Maps(PipeResults)
  <2>1. PipeInv(p) /\ HavePending(p)
    BY DEF Receivable
  <2>2. p.error = qid_limit
    BY <2>1 DEF PipeInv, Stopped, HavePending
  <2>3. p \in PipeType
    BY <2>1 DEF PipeInv, Ranged
  <2>4. p.res \in Maps(PipeResults)
    BY <2>3 DEF PipeType
  <2> QED BY <2>1, <2>2, <2>3, <2>4, RangedFacts DEF PipeInv
<1>1. Botched(p)
  BY <1>0 DEF PipeInv, Coming
<1>2. /\ t \in PipeType /\ t.wire = Tail(p.wire) /\ Len(t.wire) = Len(p.wire) - 1
      /\ r = p.wire[1] /\ r \in PipeResults /\ t.wire \in Seq(PipeResults)
  BY <1>0, WireTaken
<1>3. t.wire = <<>>
  <2>1. Len(t.wire) = 0
    BY <1>1, <1>2 DEF Botched
  <2> HIDE DEF t
  <2> QED BY <2>1, <1>2, EmptySeq
<1>4. PICK b \in BOOLEAN : b = FALSE
  OBVIOUS
<1>5. /\ nr \in Maps(PipeResults) /\ DOMAIN nr = D
      /\ \A q \in D : nr[q] = IF p.first <= q /\ q < p.second THEN r ELSE p.res[q]
  <2> HIDE DEF r
  <2>1. \A q \in D : p.res[q] \in PipeResults
    BY <1>0, MapFacts
  <2>2. nr \in [D -> PipeResults]
    BY <2>1, <1>0, <1>2
  <2>3. nr \in Maps(PipeResults) /\ DOMAIN nr = D
    <3> HIDE DEF nr
    <3> QED BY <2>2, <1>0, MapIntro
  <2> QED BY <2>3, <1>0
<1>6. /\ marked = [p EXCEPT !.dummy = b, !.wire = Tail(p.wire), !.res = nr]
      /\ d = [p EXCEPT !.dummy = b, !.wire = Tail(p.wire), !.res = nr, !.busy = b]
  <2>1. seen = [p EXCEPT !.dummy = b, !.wire = Tail(p.wire)]
    BY <1>4
  <2>2. seen.res = p.res
    <3> HIDE DEF seen
    <3> QED BY <2>1, <1>0 DEF PipeType
  <2>3. marked = [seen EXCEPT !.res = nr]
    <3> HIDE DEF seen, r
    <3> QED BY <2>2
  <2>4. marked = [p EXCEPT !.dummy = b, !.wire = Tail(p.wire), !.res = nr]
    <3> HIDE DEF seen, nr, marked
    <3> QED BY <2>1, <2>3, <1>0 DEF PipeType
  <2>5. d = [marked EXCEPT !.busy = b]
    BY <1>4
  <2>6. d = [p EXCEPT !.dummy = b, !.wire = Tail(p.wire), !.res = nr, !.busy = b]
    <3> HIDE DEF nr, marked, d
    <3> QED BY <2>4, <2>5, <1>0 DEF PipeType
  <2> HIDE DEF nr, marked, d
  <2> QED BY <2>4, <2>6
<1>7. Tail(p.wire) \in Seq(PipeResults) /\ Tail(p.wire) = <<>>
  BY <1>2, <1>3
<1> HIDE DEF nr, marked, t, r, d
<1>8. /\ d \in PipeType /\ d.dummy = b /\ d.wire = <<>> /\ d.res = nr
      /\ d.queries = p.queries /\ d.first = p.first /\ d.error = p.error
      /\ d.second = p.second /\ d.waiting = p.waiting /\ d.q_id = p.q_id
      /\ d.effects = p.effects /\ d.told = p.told /\ d.failed = p.failed
      /\ marked.wire = <<>>
  <2> DEFINE w == Tail(p.wire)
  <2>1. w \in Seq(PipeResults) /\ w = <<>>
    BY <1>7
  <2> HIDE DEF w
  <2>2. marked = [p EXCEPT !.dummy = b, !.wire = w, !.res = nr]
        /\ d = [p EXCEPT !.dummy = b, !.wire = w, !.res = nr, !.busy = b]
    BY <1>6 DEF w
  <2> QED BY <2>1, <2>2, <1>0, <1>4, <1>5 DEF PipeType
<1>9. drained = d
  <2>1. ObtainResult(marked, TRUE) = Got(d, FALSE)
    BY <1>8 DEF ObtainResult, d
  <2>2. Got(d, FALSE).p = d
    BY DEF Got
  <2> QED BY <2>1, <2>2
<1> HIDE DEF drained
<1>10. /\ \A q \in 1 .. MaxQueries : p.first <= q /\ q < p.second => p.effects[q] = 0
       /\ \/ p.failed
          \/ \E q \in D : p.first <= q /\ q < p.second /\ p.queries[q] = "syntax"
  BY <1>1 DEF Botched
<1>11. Answered(d)
  <2> SUFFICES ASSUME NEW q \in D
               PROVE  (nr[q].ok => nr[q].of = q) /\ (q >= p.first => ~nr[q].ok)
    BY <1>5, <1>8 DEF Answered
  <2>1. ~r.ok
    BY <1>2
  <2>2. (p.res[q].ok => p.res[q].of = q) /\ (q >= p.first => ~p.res[q].ok)
    BY <1>0 DEF PipeInv, Answered
  <2> QED BY <2>1, <2>2, <1>5
<1>12. ObtainDummy(p) = IF Ended(d) THEN d ELSE Replay(again, p.second)
  <2>1. ~Head(p.wire).ok
    BY <1>2 DEF r
  <2>2. ObtainDummy(p) = IF Ended(drained) THEN drained
                         ELSE Replay([drained EXCEPT
                                         !.waiting = @ + Between(p, p.first, p.second),
                                         !.second = p.first, !.registered = FALSE], p.second)
    BY <2>1 DEF ObtainDummy, drained, marked, r
  <2> QED BY <2>2, <1>9
<1>13. CASE Ended(d)
  <2>1. Ranged(d) /\ Stopped(d) /\ Told(d)
    BY <1>0, <1>5, <1>8 DEF PipeInv, Ranged, Stopped, Told
  <2>2. Counted(d) /\ Fresh(d)
    BY <1>0, <1>8 DEF PipeInv, Counted, Between, Fresh
  <2>3. Coming(d)
    <3>1. Chain(DOMAIN d.queries, <<>>, d.first)
      BY DEF Chain
    <3> QED BY <3>1, <1>4, <1>8 DEF Coming
  <2>4. Receiving(d)
    BY <2>1, <2>2, <2>3, <1>0, <1>4, <1>8, <1>11 DEF Receiving, PipeInv
  <2>5. Kept(p, d)
    BY <1>0, <1>8 DEF Kept
  <2> QED BY <2>4, <2>5, <1>8, <1>12, <1>13
<1>14. CASE ~Ended(d)
  <2>1. nw \in Int
    <3>1. d.waiting \in Int
      BY <1>8 DEF PipeType
    <3>2. {q \in D : p.first <= q /\ q < p.second} \subseteq 1 .. MaxQueries
      BY <1>0
    <3>3. IsFiniteSet(1 .. MaxQueries)
      BY <1>0, FS_Interval
    <3>4. Between(p, p.first, p.second) \in Nat
      BY <3>2, <3>3, FS_Subset, FS_CardinalityType DEF Between
    <3> QED BY <3>1, <3>4
  <2> HIDE DEF nw
  <2>2. /\ again \in PipeType /\ ~again.dummy /\ again.res = nr
        /\ again.queries = p.queries /\ again.first = p.first /\ again.error = p.error
        /\ again.q_id = p.q_id
        /\ again.effects = p.effects /\ again.told = p.told /\ again.failed = p.failed
    <3>1. again = [d EXCEPT !.waiting = nw, !.second = p.first, !.registered = b]
      BY <1>4
    <3> HIDE DEF again
    <3> QED BY <3>1, <2>1, <1>0, <1>4, <1>8 DEF PipeType
  <2> HIDE DEF again
  <2>3. Told(again) /\ Answered(again)
    BY <2>2, <1>0, <1>8, <1>11 DEF PipeInv, Told, Answered
  <2>4. ASSUME NEW q \in 1 .. MaxQueries
        PROVE  /\ again.effects[q] <= 1
               /\ q > again.q_id \/ q >= again.first => again.effects[q] = 0
    BY <2>2, <1>0, <1>10 DEF PipeInv, Fresh
  <2>5. Replaying(again, p.second)
    <3>1. DOMAIN again.res = D /\ \A q \in D : q <= p.q_id
      BY <2>2, <1>0, <1>5 DEF PipeInv, Ranged
    <3>2. p.second \in D \cup {End}
      BY <1>0 DEF PipeInv, Ranged
    <3> QED BY <2>2, <2>3, <2>4, <3>1, <3>2, <1>0, <1>10 DEF Replaying
  <2> DEFINE c == Replay(again, p.second)
  <2>6. PipeInv(c) /\ Kept(again, c) /\ c.error # qid_limit /\ ~c.dummy
    BY <2>5, ReplayTrue
  <2> HIDE DEF c
  <2>7. Receiving(c)
    BY <2>6 DEF Receiving
  <2>8. Kept(p, c)
    BY <2>2, <2>6 DEF Kept
  <2> QED BY <2>6, <2>7, <2>8, <1>12, <1>14 DEF c
<1> QED BY <1>13, <1>14

\* The dummy, if there is one, is received before results are.
LEMMA DummyReceived ==
  ASSUME NEW p, Receivable(p)
  PROVE  LET c == WithDummy(p)
         IN  Receiving(c) /\ Kept(p, c) /\ (c.error = qid_limit => c.first = p.first)
<1>1. CASE ~p.dummy
  <2>1. p.first \in Int
    BY RangedFacts DEF PipeInv, Receivable
  <2> QED BY <1>1, <2>1 DEF WithDummy, Receiving, Receivable, Kept
<1>2. CASE p.dummy
  <2>1. WithDummy(p) = ObtainDummy(p)
    BY <1>2 DEF WithDummy
  <2>2. CASE p.wire = <<>>
    BY <1>2, <2>1, <2>2, DummyMissing
  <2>3. CASE p.wire # <<>> /\ p.wire[1].ok
    BY <1>2, <2>1, <2>3, DummyGood
  <2>4. CASE p.wire # <<>> /\ ~p.wire[1].ok
    BY <1>2, <2>1, <2>4, DummyBad
  <2> QED BY <2>2, <2>3, <2>4
<1> QED BY <1>1, <1>2

\* receive_if_available.
LEMMA AvailableReceived ==
  ASSUME NEW p, Receivable(p), NEW available \in Nat
  PROVE  LET c == ReceiveIfAvailable(p, available) IN PipeInv(c) /\ Kept(p, c)
<1> DEFINE d == WithDummy(p)
           f == Obtained(d, 0, available)
<1>0. PipeInv(p) /\ p \in PipeType /\ p.first \in Int
  BY RangedFacts DEF Receivable, PipeInv
<1>1. CASE available = 0
  BY <1>0, <1>1 DEF ReceiveIfAvailable, Kept
<1>2. CASE available # 0
  <2>1. Receiving(d) /\ Kept(p, d)
    BY DummyReceived
  <2>2. ReceiveIfAvailable(p, available) = IF ~Ended(d) /\ HavePending(d) THEN f ELSE d
    BY <1>2 DEF ReceiveIfAvailable, GetFurther
  <2> HIDE DEF d
  <2>3. Receiving(f) /\ Kept(d, f)
    BY <2>1, ObtainedWithin
  <2> HIDE DEF f
  <2>4. d \in PipeType /\ f \in PipeType
    BY <2>1, <2>3 DEF Receiving, PipeInv, Ranged
  <2>5. Kept(p, f)
    BY <1>0, <2>1, <2>3, <2>4, KeptTransitive
  <2> QED BY <2>1, <2>2, <2>3, <2>5 DEF Receiving
<1> QED BY <1>1, <1>2

\* receive: what was asked for has come, unless there was an error.
LEMMA ReceivedTo ==
  ASSUME NEW p, Receivable(p), NEW stop \in Int, NEW available \in Nat
  PROVE  LET c == Receive(p, stop, available)
         IN  /\ PipeInv(c) /\ Kept(p, c)
             /\ Ahead(p, stop) /\ ~Ended(c) => c.error # qid_limit \/ c.first >= stop
<1> DEFINE d == WithDummy(p)
           n == Len(d.wire) + 1
           e == Obtained(d, stop, n)
           f == Obtained(e, 0, available)
           c == Receive(p, stop, available)
<1>0. PipeInv(p) /\ p \in PipeType /\ p.first \in Int
  BY RangedFacts DEF Receivable, PipeInv
<1>1. Receiving(d) /\ Kept(p, d) /\ (d.error = qid_limit => d.first = p.first)
  BY DummyReceived
<1>2. c = IF Ended(d) THEN d ELSE IF ~Ended(e) /\ e.first = stop THEN f ELSE e
  BY DEF Receive, ReceiveTo, ReceiveBeyond, GetFurther
<1> HIDE DEF d, c
<1>3. n \in Nat
  <2>1. d.wire \in Seq(PipeResults)
    BY <1>1 DEF Receiving, PipeInv, Ranged, PipeType
  <2> QED BY <2>1, LenProperties
<1>4. /\ Receiving(e) /\ Kept(d, e)
      /\ Ahead(d, stop) => e.error # qid_limit \/ e.first = stop
  <2>1. n = Len(d.wire) + 1
    OBVIOUS
  <2> HIDE DEF n
  <2> QED BY <1>1, <1>3, <2>1, ObtainedWithin
<1> HIDE DEF e
<1>5. Receiving(f) /\ Kept(e, f)
  BY <1>4, ObtainedWithin
<1> HIDE DEF f
<1>6. d \in PipeType /\ e \in PipeType /\ f \in PipeType
  BY <1>1, <1>4, <1>5 DEF Receiving, PipeInv, Ranged
<1>7. Kept(p, e) /\ Kept(p, f)
  BY <1>0, <1>1, <1>4, <1>5, <1>6, KeptTransitive
<1>8. PipeInv(c) /\ Kept(p, c)
  BY <1>1, <1>2, <1>4, <1>5, <1>7 DEF Receiving
<1>9. ASSUME Ahead(p, stop) PROVE e.error # qid_limit \/ e.first = stop
  <2>1. CASE d.error = qid_limit
    <3>1. Ahead(d, stop)
      BY <1>1, <1>9, <2>1 DEF Ahead, Kept, HavePending
    <3> QED BY <3>1, <1>4
  <2>2. CASE d.error # qid_limit
    BY <1>4, <2>2 DEF Kept
  <2> QED BY <2>1, <2>2
<1>10. ASSUME Ahead(p, stop), ~Ended(c) PROVE c.error # qid_limit \/ c.first >= stop
  <2>1. ~Ended(d)
    BY <1>2, <1>10
  <2>2. CASE ~Ended(e) /\ e.first = stop
    BY <2>1, <2>2, <1>2, <1>5 DEF Kept
  <2>3. CASE ~(~Ended(e) /\ e.first = stop)
    BY <2>1, <2>3, <1>2, <1>9, <1>10
  <2> QED BY <2>2, <2>3
<1> QED BY <1>8, <1>10 DEF c

\* All that is pending is received.
LEMMA PendingReceived ==
  ASSUME NEW p, PipeInv(p), NEW available \in Nat
  PROVE  LET c == ReceivePending(p, available)
         IN  PipeInv(c) /\ Kept(p, c) /\ (~Ended(c) => ~HavePending(c))
<1> DEFINE c == ReceivePending(p, available)
<1>0. /\ p \in PipeType /\ p.first \in 1 .. End /\ p.second \in 1 .. End
      /\ HavePending(p) => p.first < p.second /\ p.first \in DOMAIN p.queries
      /\ MaxQueries \in Nat \ {0}
  BY RangedFacts DEF PipeInv
<1>1. CASE ~HavePending(p)
  BY <1>0, <1>1 DEF ReceivePending, Kept
<1>2. CASE HavePending(p)
  <2>1. Receivable(p)
    BY <1>0, <1>2 DEF Receivable
  <2>2. Ahead(p, p.second)
    BY <1>0, <1>2 DEF Ahead, PipeInv, Ranged
  <2>3. c = Receive(p, p.second, available)
    BY <1>2 DEF ReceivePending
  <2>4. p.second \in Int
    BY <1>0
  <2> HIDE DEF c
  <2>5. /\ PipeInv(c) /\ Kept(p, c)
        /\ Ahead(p, p.second) /\ ~Ended(c) => c.error # qid_limit \/ c.first >= p.second
    BY <2>1, <2>3, <2>4, ReceivedTo
  <2>6. ASSUME ~Ended(c) PROVE ~HavePending(c)
    <3>1. CASE c.error # qid_limit
      BY <2>5, <3>1 DEF PipeInv, Stopped, HavePending
    <3>2. CASE c.error = qid_limit
      <4>1. c.second = p.second /\ c.first >= p.second
        BY <2>2, <2>5, <2>6, <3>2 DEF Kept
      <4>2. c.first <= c.second /\ c.first \in Int
        BY <2>5, RangedFacts DEF PipeInv
      <4> QED BY <4>1, <4>2, <2>4 DEF HavePending
    <3> QED BY <3>1, <3>2
  <2> QED BY <2>5, <2>6 DEF c
<1> QED BY <1>1, <1>2

(***************************************************************************)
(* Issuing.                                                                *)
(***************************************************************************)
\* The ids of a batch: all queries from one on, in their order.
Batch(D, ids, from) ==
    /\ ids \in Seq(1 .. MaxQueries) /\ Len(ids) >= 1
    /\ ids[1] = from
    /\ \A k \in 1 .. Len(ids) : ids[k] \in D /\ ids[k] >= from
    /\ \A j, k \in 1 .. Len(ids) : j < k => ids[j] < ids[k]
    /\ \A k \in 1 .. Len(ids) - 1 : \A r \in D : r <= ids[k] \/ r >= ids[k + 1]

\* The places that ++ goes through.
ArePlaces(p, from, g) == g = [k \in Nat |-> IF k <= 1 THEN from ELSE After(p, g[k - 1])]

\* The places that ++ goes through exist.
LEMMA PlacesExist ==
  ASSUME NEW p, DOMAIN p.queries \subseteq 1 .. MaxQueries, NEW from \in 1 .. MaxQueries
  PROVE  \E g : ArePlaces(p, from, g)
<1> DEFINE S == Nat
           f == [n \in Nat |-> [x \in S |-> IF n + 1 <= 1 THEN from ELSE After(p, x)]]
<1>0. MaxQueries \in Nat \ {0}
  BY PipelineAssumption
<1>1. f \in Steps(S) /\ from \in S
  <2>1. \A x \in Nat : After(p, x) \in 1 .. End
    BY AfterFacts
  <2>2. \A x \in Nat : After(p, x) \in Nat
    BY <2>1, <1>0
  <2> QED BY <2>2 DEF Steps
<1> HIDE DEF f
<1>2. PICK g : IsLoop(S, f, from, g)
  BY <1>1, LoopExists
<1>3. g \in [Nat -> S] /\ g[0] = from /\ \A n \in Nat : g[n + 1] = f[n][g[n]]
  BY <1>2 DEF IsLoop
<1>4. \A n \in Nat : g[n + 1] = IF n + 1 <= 1 THEN from ELSE After(p, g[n])
  BY <1>3 DEF f
<1>5. ASSUME NEW k \in Nat PROVE g[k] = IF k <= 1 THEN from ELSE After(p, g[k - 1])
  <2>1. CASE k = 0
    BY <1>3, <2>1
  <2>2. CASE k # 0
    <3>1. k - 1 \in Nat /\ (k - 1) + 1 = k
      BY <2>2
    <3> QED BY <1>4, <2>2, <3>1
  <2> QED BY <2>1, <2>2
<1>6. ArePlaces(p, from, g)
  BY <1>3, <1>5 DEF ArePlaces
<1> QED BY <1>6

\* From a query that is in the pipeline, ++ goes through as many as there are.
LEMMA SequenceIsBatch ==
  ASSUME NEW p, DOMAIN p.queries \subseteq 1 .. MaxQueries, NEW from \in DOMAIN p.queries
  PROVE  /\ Batch(DOMAIN p.queries, InSequence(p, from), from)
         /\ Len(InSequence(p, from)) = Between(p, from, End)
<1> DEFINE D == DOMAIN p.queries
           n == Between(p, from, End)
           at == CHOOSE g : ArePlaces(p, from, g)
           ids == [k \in 1 .. n |-> at[k]]
           Rest(k) == {q \in D : q >= at[k]}
<1>0. MaxQueries \in Nat \ {0} /\ from \in 1 .. MaxQueries
  BY PipelineAssumption
<1>1. InSequence(p, from) = ids
  BY DEF InSequence, ArePlaces
<1>2. ArePlaces(p, from, at)
  BY <1>0, PlacesExist
<1> HIDE DEF at
<1>3. at[1] = from /\ \A k \in Nat : k >= 1 => at[k + 1] = After(p, at[k])
  <2>1. at[1] = from
    BY <1>2 DEF ArePlaces
  <2>2. ASSUME NEW k \in Nat, k >= 1 PROVE at[k + 1] = After(p, at[k])
    <3>1. k + 1 \in Nat /\ ~(k + 1 <= 1) /\ (k + 1) - 1 = k
      BY <2>2
    <3> QED BY <3>1, <1>2 DEF ArePlaces
  <2> QED BY <2>1, <2>2
<1>4. IsFiniteSet(D)
  <2>1. IsFiniteSet(1 .. MaxQueries)
    BY <1>0, FS_Interval
  <2> QED BY <2>1, FS_Subset
<1>5. /\ n = Cardinality(Rest(1))
      /\ n \in Nat
  <2>1. Rest(1) = {q \in D : from <= q /\ q < End}
    BY <1>0, <1>3
  <2>2. IsFiniteSet(Rest(1))
    BY <1>4, FS_Subset
  <2>3. n = Cardinality(Rest(1))
    BY <2>1 DEF Between
  <2> QED BY <2>2, <2>3, FS_CardinalityType
<1>6. n >= 1
  <2>1. from \in Rest(1)
    BY <1>0, <1>3
  <2>2. IsFiniteSet(Rest(1)) /\ Rest(1) # {}
    BY <1>4, <2>1, FS_Subset
  <2>3. Cardinality(Rest(1)) # 0
    BY <2>2, FS_EmptySet
  <2> QED BY <1>5, <2>3
<1> HIDE DEF n
<1> DEFINE Good(k) == k >= 1 /\ k <= n => /\ at[k] \in D /\ at[k] >= from
                                          /\ Cardinality(Rest(k)) = n - k + 1
           T == {k \in Nat : Good(k)}
<1>7. 0 \in T
  OBVIOUS
<1>8. ASSUME NEW k \in Nat, k \in T PROVE k + 1 \in T
  <2>1. CASE k = 0
    <3>1. at[1] \in D /\ at[1] >= from /\ Cardinality(Rest(1)) = n - 1 + 1
      BY <1>0, <1>3, <1>5
    <3>2. Good(1)
      BY <3>1
    <3>3. k + 1 = 1
      BY <2>1
    <3> HIDE DEF Good
    <3> QED BY <3>2, <3>3
  <2>2. CASE k # 0
    <3> SUFFICES ASSUME k + 1 <= n
                 PROVE  /\ at[k + 1] \in D /\ at[k + 1] >= from
                        /\ Cardinality(Rest(k + 1)) = n - (k + 1) + 1
      OBVIOUS
    <3>1. k >= 1 /\ k <= n
      BY <2>2, <1>5
    <3>2. at[k] \in D /\ at[k] >= from /\ Cardinality(Rest(k)) = n - k + 1
      BY <1>8, <3>1
    <3>3. at[k] \in 1 .. MaxQueries /\ at[k] \in Nat /\ at[k] < End
      BY <1>0, <3>2
    <3> DEFINE B == Rest(k) \ {at[k]}
    <3>4. at[k] \in Rest(k) /\ IsFiniteSet(Rest(k))
      BY <1>4, <3>2, <3>3, FS_Subset
    <3>5. IsFiniteSet(B) /\ Cardinality(B) = Cardinality(Rest(k)) - 1
      <4> HIDE DEF Rest
      <4> QED BY <3>4, FS_RemoveElement
    <3>6. Cardinality(B) = n - k /\ n - k >= 1
      <4>1. Cardinality(B) = n - k + 1 - 1
        <5> DEFINE a == Cardinality(Rest(k))
                   b == Cardinality(B)
        <5>1. a = n - k + 1 /\ b = a - 1
          BY <3>2, <3>5
        <5> HIDE DEF a, b
        <5>2. b = n - k + 1 - 1
          BY <5>1, <1>5
        <5> QED BY <5>2 DEF b
      <4> HIDE DEF B
      <4> QED BY <4>1, <1>5, <3>1
    <3>7. B # {}
      <4> HIDE DEF B
      <4> QED BY <3>6, FS_EmptySet, <1>5
    <3>8. PICK x \in B : TRUE
      BY <3>7
    <3>9. x \in D /\ x > at[k] /\ x \in 1 .. MaxQueries
      BY <3>3, <3>8
    <3>10. at[k + 1] = After(p, at[k])
      BY <1>3, <3>1
    <3>11. /\ at[k + 1] \in D \cup {End} /\ at[k + 1] \in 1 .. End
           /\ at[k] < at[k + 1]
           /\ \A r \in D : r > at[k] => at[k + 1] <= r
      BY <3>3, <3>10, AfterFacts
    <3>12. at[k + 1] \in D /\ at[k + 1] >= from
      BY <3>2, <3>3, <3>9, <3>11, <1>0
    <3>13. Rest(k + 1) = B
      <4>1. ASSUME NEW y \in D PROVE y >= at[k + 1] <=> y >= at[k] /\ y # at[k]
        <5>1. y \in Int
          BY <1>0
        <5> QED BY <5>1, <3>3, <3>11, <3>12, <1>0
      <4> QED BY <4>1
    <3>14. Cardinality(Rest(k + 1)) = n - (k + 1) + 1
      <4>1. n - k = n - (k + 1) + 1
        BY <1>5
      <4> HIDE DEF B, Rest
      <4> QED BY <4>1, <3>6, <3>13
    <3> QED BY <3>12, <3>14
  <2> QED BY <2>1, <2>2
<1>9. Nat \subseteq T
  <2> HIDE DEF T
  <2> QED BY <1>7, <1>8, SetInduction
<1>10. ASSUME NEW k \in 1 .. n
       PROVE  at[k] \in D /\ at[k] >= from /\ at[k] \in 1 .. MaxQueries
  <2>1. k \in Nat /\ k >= 1 /\ k <= n /\ k \in T
    BY <1>5, <1>9
  <2> QED BY <2>1
<1>11. ASSUME NEW k \in 1 .. n - 1
       PROVE  at[k] < at[k + 1] /\ \A r \in D : r <= at[k] \/ r >= at[k + 1]
  <2>1. k \in 1 .. n /\ k \in Nat /\ k >= 1
    BY <1>5
  <2>2. at[k] \in 1 .. MaxQueries /\ at[k] \in Nat /\ at[k] < End
    BY <1>0, <1>10, <2>1
  <2>3. at[k + 1] = After(p, at[k])
    BY <1>3, <2>1
  <2>4. at[k] < at[k + 1] /\ \A r \in D : r > at[k] => at[k + 1] <= r
    BY <2>2, <2>3, AfterFacts
  <2>5. at[k + 1] \in 1 .. End
    BY <2>2, <2>3, AfterFacts
  <2> QED BY <2>2, <2>4, <2>5, <1>0
<1> DEFINE U == {k \in Nat : k <= n => \A j \in 1 .. k - 1 : at[j] < at[k]}
<1>12. 0 \in U
  OBVIOUS
<1>13. ASSUME NEW k \in Nat, k \in U PROVE k + 1 \in U
  <2> SUFFICES ASSUME k + 1 <= n, NEW j \in 1 .. (k + 1) - 1 PROVE at[j] < at[k + 1]
    OBVIOUS
  <2>1. k \in 1 .. n - 1 /\ j \in 1 .. n /\ k \in 1 .. n /\ k + 1 \in 1 .. n
    BY <1>5
  <2>2. at[k] < at[k + 1] /\ at[j] \in Int /\ at[k] \in Int /\ at[k + 1] \in Int
    BY <2>1, <1>0, <1>10, <1>11
  <2>3. CASE j = k
    BY <2>2, <2>3
  <2>4. CASE j # k
    <3>1. j \in 1 .. k - 1 /\ k <= n
      BY <2>1, <2>4, <1>5
    <3>2. at[j] < at[k]
      BY <3>1, <1>13
    <3> QED BY <3>2, <2>2
  <2> QED BY <2>3, <2>4
<1>14. Nat \subseteq U
  <2> HIDE DEF U
  <2> QED BY <1>12, <1>13, SetInduction
<1>15. ids \in Seq(1 .. MaxQueries) /\ Len(ids) = n /\ \A k \in 1 .. n : ids[k] = at[k]
  BY <1>5, <1>10
<1>16. ASSUME NEW j \in 1 .. n, NEW k \in 1 .. n, j < k PROVE at[j] < at[k]
  <2>1. k \in Nat /\ k <= n /\ j \in 1 .. k - 1 /\ k \in U
    BY <1>5, <1>14, <1>16
  <2> QED BY <2>1
<1> HIDE DEF ids, T, U
<1>17. Batch(D, ids, from)
  <2>1. \A k \in 1 .. n - 1 : k \in 1 .. n /\ k + 1 \in 1 .. n
    BY <1>5
  <2>2. 1 \in 1 .. n
    BY <1>5, <1>6
  <2> QED BY <2>1, <2>2, <1>3, <1>6, <1>10, <1>11, <1>15, <1>16 DEF Batch
<1> QED BY <1>1, <1>15, <1>17 DEF n

\* The queries of a batch whose results are to come.
LEMMA BatchAnswered ==
  ASSUME NEW p \in PipeType, NEW ids, NEW from,
         Batch(DOMAIN p.queries, ids, from), DOMAIN p.queries \subseteq 1 .. MaxQueries
  PROVE  LET w == BatchResults(p, ids)
             D == DOMAIN p.queries
         IN  /\ w \in Seq(PipeResults)
             /\ \A k \in 1 .. Len(w) : w[k].ok =>
                    w[k].of = 0 \/ (w[k].of \in D /\ w[k].of >= from)
             /\ Len(ids) > 1 => /\ w # <<>>
                                /\ w[1].ok => Chain(D, Tail(w), from)
                                /\ ~w[1].ok =>
                                      /\ Len(w) = 1
                                      /\ \/ p.failed
                                         \/ \E k \in 1 .. Len(ids) : p.queries[ids[k]] = "syntax"
             /\ ~(Len(ids) > 1) => Chain(D, w, from)
<1> DEFINE D == DOMAIN p.queries
           N == Len(ids)
           several == Len(ids) > 1
           bad == {k \in DOMAIN ids : p.queries[ids[k]] = "bad"}
           stop == IF bad = {} THEN Len(ids) ELSE CHOOSE k \in bad : \A j \in bad : k <= j
           dummy == IF several THEN <<PipeResult(0, TRUE)>> ELSE <<>>
           rs == [k \in 1 .. stop |-> PipeResult(ids[k], k \notin bad)]
           one == PipeResult(IF several THEN 0 ELSE ids[1], FALSE)
           w == BatchResults(p, ids)
<1>0. /\ MaxQueries \in Nat \ {0} /\ N \in Nat /\ N >= 1 /\ DOMAIN ids = 1 .. N
      /\ \A k \in 1 .. N : ids[k] \in D /\ ids[k] \in 1 .. MaxQueries /\ ids[k] >= from
      /\ ids[1] = from
  <2>1. ids \in Seq(1 .. MaxQueries) /\ N >= 1
    BY DEF Batch
  <2>2. N \in Nat /\ DOMAIN ids = 1 .. N
    BY <2>1, LenProperties
  <2> QED BY <2>1, <2>2, PipelineAssumption DEF Batch
<1>1. stop \in 1 .. N
  <2>1. CASE bad = {}
    BY <2>1, <1>0
  <2>2. CASE bad # {}
    <3>1. bad \subseteq Nat /\ bad \subseteq 1 .. N
      BY <1>0
    <3>2. stop = CHOOSE k \in bad : \A j \in bad : k <= j
      BY <2>2
    <3> HIDE DEF bad, stop
    <3>3. \E k \in bad : \A j \in bad : k <= j
      BY <2>2, <3>1, LeastElement
    <3>4. stop \in bad
      BY <3>2, <3>3
    <3> QED BY <3>1, <3>4
  <2> QED BY <2>1, <2>2
<1>2. w = IF p.failed \/ \E k \in DOMAIN ids : p.queries[ids[k]] = "syntax"
          THEN <<one>> ELSE dummy \o rs
  BY DEF BatchResults
<1>3. ASSUME NEW i \in 0 .. MaxQueries, NEW o \in BOOLEAN
      PROVE  PipeResult(i, o) \in PipeResults /\ PipeResult(i, o).of = i /\ PipeResult(i, o).ok = o
  BY <1>0 DEF PipeResult, PipeResults
<1>4. /\ one \in PipeResults /\ ~one.ok /\ one.of = IF several THEN 0 ELSE from
  <2>1. PICK o \in BOOLEAN : o = FALSE
    OBVIOUS
  <2> DEFINE i == IF several THEN 0 ELSE ids[1]
  <2>2. i \in 0 .. MaxQueries /\ i = IF several THEN 0 ELSE from
    BY <1>0
  <2> HIDE DEF i
  <2>3. one = PipeResult(i, o)
    BY <2>1 DEF i
  <2> HIDE DEF one
  <2> QED BY <2>1, <2>2, <2>3, <1>3
<1>5. /\ PipeResult(0, TRUE) \in PipeResults /\ PipeResult(0, TRUE).ok
      /\ PipeResult(0, TRUE).of = 0
  <2>1. PICK o \in BOOLEAN : o = TRUE
    OBVIOUS
  <2>2. PipeResult(0, o) \in PipeResults /\ PipeResult(0, o).ok = o /\ PipeResult(0, o).of = 0
    BY <1>0, <1>3
  <2> QED BY <2>1, <2>2
<1> HIDE DEF w, one, bad, stop
<1>6. /\ rs \in Seq(PipeResults) /\ Len(rs) = stop
      /\ \A k \in 1 .. stop : rs[k].of = ids[k]
  <2>1. ASSUME NEW k \in 1 .. stop
        PROVE  /\ PipeResult(ids[k], k \notin bad) \in PipeResults
               /\ PipeResult(ids[k], k \notin bad).of = ids[k]
    <3>1. PICK o \in BOOLEAN : o = (k \notin bad)
      OBVIOUS
    <3>2. ids[k] \in 0 .. MaxQueries
      <4>1. k \in 1 .. N
        BY <1>0, <1>1
      <4>2. ids[k] \in 1 .. MaxQueries
        BY <4>1, <1>0
      <4> QED BY <4>2, <1>0
    <3>3. PipeResult(ids[k], o) \in PipeResults /\ PipeResult(ids[k], o).of = ids[k]
      BY <3>2, <1>3
    <3> QED BY <3>1, <3>3
  <2>2. stop \in Nat
    BY <1>0, <1>1
  <2> QED BY <2>1, <2>2
<1> HIDE DEF rs
<1>7. Chain(D, rs, from)
  <2>1. \A k \in 1 .. Len(rs) : k \in 1 .. N /\ rs[k].of = ids[k]
    BY <1>0, <1>1, <1>6
  <2>2. 1 \in 1 .. Len(rs)
    BY <1>0, <1>1, <1>6
  <2>3. rs[1].of = from
    BY <2>1, <2>2, <1>0
  <2>4. \A k \in 1 .. Len(rs) : rs[k].of \in D
    BY <2>1, <1>0
  <2>5. ASSUME NEW j \in 1 .. Len(rs), NEW k \in 1 .. Len(rs), j < k PROVE rs[j].of < rs[k].of
    BY <2>1, <2>5 DEF Batch
  <2>6. ASSUME NEW k \in 1 .. Len(rs) - 1, NEW r \in D
        PROVE  r <= rs[k].of \/ r >= rs[k + 1].of
    <3>1. k \in 1 .. Len(rs) /\ k + 1 \in 1 .. Len(rs) /\ k \in 1 .. N - 1
      BY <1>0, <1>1, <1>6
    <3>2. r <= ids[k] \/ r >= ids[k + 1]
      BY <3>1 DEF Batch
    <3> QED BY <2>1, <3>1, <3>2
  <2> QED BY <2>3, <2>4, <2>5, <2>6 DEF Chain
<1>8. CASE p.failed \/ \E k \in DOMAIN ids : p.queries[ids[k]] = "syntax"
  <2>1. w = <<one>>
    BY <1>2, <1>8
  <2>2. w \in Seq(PipeResults) /\ Len(w) = 1 /\ w[1] = one /\ w # <<>>
    BY <2>1, <1>4
  <2>3. ASSUME ~several PROVE Chain(D, w, from)
    <3>1. one.of = from /\ from \in D
      BY <2>3, <1>0, <1>4
    <3> QED BY <3>1, <2>2 DEF Chain
  <2>4. p.failed \/ \E k \in 1 .. Len(ids) : p.queries[ids[k]] = "syntax"
    BY <1>0, <1>8
  <2>5. \A k \in 1 .. Len(w) : ~w[k].ok
    BY <2>2, <1>4
  <2> QED BY <2>2, <2>3, <2>4, <2>5, <1>4 DEF w
<1>9. CASE ~(p.failed \/ \E k \in DOMAIN ids : p.queries[ids[k]] = "syntax")
  <2>1. w = dummy \o rs
    BY <1>2, <1>9
  <2>2. ASSUME NEW k \in 1 .. Len(rs) PROVE rs[k].of \in D /\ rs[k].of >= from
    BY <1>0, <1>1, <1>6
  <2>3. CASE several
    <3> DEFINE x == PipeResult(0, TRUE)
    <3>1. w = <<x>> \o rs
      BY <2>1, <2>3
    <3> HIDE DEF x
    <3>2. x \in PipeResults /\ x.ok /\ x.of = 0
      BY <1>5 DEF x
    <3>3. /\ w \in Seq(PipeResults) /\ w # <<>> /\ Len(w) = Len(rs) + 1 /\ w[1] = x
          /\ \A k \in 2 .. Len(w) : w[k] = rs[k - 1]
      BY <3>1, <3>2, <1>6
    <3>4. Tail(w) = rs
      BY <3>1, <3>2, <1>6
    <3>5. ASSUME NEW k \in 1 .. Len(w), w[k].ok
          PROVE  w[k].of = 0 \/ (w[k].of \in D /\ w[k].of >= from)
      <4>1. CASE k = 1
        BY <4>1, <3>2, <3>3
      <4>2. CASE k # 1
        <5>1. k \in 2 .. Len(w) /\ k - 1 \in 1 .. Len(rs)
          BY <4>2, <3>3, <1>0, <1>1, <1>6
        <5> QED BY <5>1, <3>3, <2>2
      <4> QED BY <4>1, <4>2
    <3> QED BY <2>3, <3>2, <3>3, <3>4, <3>5, <1>7 DEF w
  <2>4. CASE ~several
    <3>1. w = rs
      BY <2>1, <2>4, <1>6
    <3> QED BY <2>2, <2>4, <3>1, <1>6, <1>7 DEF w
  <2> QED BY <2>3, <2>4
<1> QED BY <1>8, <1>9

\* What was not issued is sent: it is pending, and its results are to come.
LEMMA BatchSent ==
  ASSUME NEW p, PipeInv(p), p.error = qid_limit, p.second # End
  PROVE  LET ids == NotIssued(p)
             c == Issued(SendQuery(p, ids), Len(ids))
         IN  /\ PipeInv(c) /\ c.queries = p.queries /\ c.told = p.told /\ c.q_id = p.q_id
             /\ c.first = p.second /\ c.second = End /\ c.error = qid_limit /\ HavePending(c)
<1> DEFINE D == DOMAIN p.queries
           ids == NotIssued(p)
           n == Len(ids)
           w == BatchResults(p, ids)
           fails == \E k \in DOMAIN w : ~w[k].ok
           done == {w[k].of : k \in {k \in DOMAIN w : w[k].ok}}
           nf == p.failed \/ (fails /\ p.block)
           ne == [q \in DOMAIN p.effects |->
                    IF q \in done /\ (p.block \/ ~fails) THEN p.effects[q] + 1 ELSE p.effects[q]]
           nd == n > 1
           nw == p.waiting - n
           s == SendQuery(p, ids)
           c == Issued(s, n)
<1>0. /\ p \in PipeType /\ p.first \in 1 .. End /\ p.second \in 1 .. End
      /\ p.first <= p.second /\ p.q_id \in 0 .. MaxQueries
      /\ MaxQueries \in Nat \ {0} /\ D \subseteq 1 .. MaxQueries /\ DOMAIN p.res = D
      /\ p.second \in D /\ p.second < End
  <2>1. /\ p \in PipeType /\ p.first \in 1 .. End /\ p.second \in 1 .. End
        /\ p.first <= p.second /\ p.q_id \in 0 .. MaxQueries
        /\ MaxQueries \in Nat \ {0} /\ D \subseteq 1 .. MaxQueries /\ DOMAIN p.res = D
    BY RangedFacts DEF PipeInv
  <2>2. p.second \in D
    BY DEF PipeInv, Ranged
  <2> QED BY <2>1, <2>2
<1>1. /\ p.waiting \in Int /\ p.failed \in BOOLEAN /\ p.block \in BOOLEAN
      /\ p.effects \in [1 .. MaxQueries -> Nat]
  BY <1>0 DEF PipeType
<1>2. Batch(D, ids, p.second) /\ n = Between(p, p.second, End)
  BY <1>0, SequenceIsBatch DEF NotIssued
<1> HIDE DEF ids
<1>3. /\ w \in Seq(PipeResults)
      /\ \A k \in 1 .. Len(w) : w[k].ok =>
             w[k].of = 0 \/ (w[k].of \in D /\ w[k].of >= p.second)
      /\ Len(ids) > 1 => /\ w # <<>>
                         /\ w[1].ok => Chain(D, Tail(w), p.second)
                         /\ ~w[1].ok =>
                               /\ Len(w) = 1
                               /\ \/ p.failed
                                  \/ \E k \in 1 .. Len(ids) : p.queries[ids[k]] = "syntax"
      /\ ~(Len(ids) > 1) => Chain(D, w, p.second)
  BY <1>0, <1>2, BatchAnswered
<1>4. s = [p EXCEPT !.wire = w, !.busy = TRUE, !.failed = nf, !.effects = ne]
  BY DEF SendQuery
<1> HIDE DEF w
<1>5. n \in Nat /\ n >= 1 /\ DOMAIN w = 1 .. Len(w) /\ Len(w) \in Nat
  <2>1. ids \in Seq(1 .. MaxQueries)
    BY <1>2 DEF Batch
  <2> QED BY <2>1, <1>2, <1>3, LenProperties DEF Batch
<1>6. /\ done \subseteq {0} \cup {q \in D : q >= p.second}
      /\ Len(w) = 1 /\ ~w[1].ok => done = {}
  BY <1>3, <1>5
<1> HIDE DEF done
<1>7. nf \in BOOLEAN /\ nd \in BOOLEAN /\ nw \in Int
  BY <1>1, <1>5
<1>8. /\ ne \in [1 .. MaxQueries -> Nat]
      /\ \A q \in 1 .. MaxQueries : q \notin done => ne[q] = p.effects[q]
      /\ \A q \in 1 .. MaxQueries : ne[q] = p.effects[q] \/ ne[q] = p.effects[q] + 1
  <2> DEFINE hit == p.block \/ ~fails
             at(q) == IF q \in done /\ hit THEN p.effects[q] + 1 ELSE p.effects[q]
  <2>1. ne = [q \in 1 .. MaxQueries |-> at(q)]
    BY <1>1
  <2> HIDE DEF hit
  <2>2. ASSUME NEW q \in 1 .. MaxQueries
        PROVE  /\ at(q) \in Nat
               /\ q \notin done => at(q) = p.effects[q]
               /\ at(q) = p.effects[q] \/ at(q) = p.effects[q] + 1
    <3>1. p.effects[q] \in Nat
      BY <1>1
    <3>2. CASE q \in done /\ hit
      <4>1. at(q) = p.effects[q] + 1
        BY <3>2
      <4> QED BY <3>1, <3>2, <4>1
    <3>3. CASE ~(q \in done /\ hit)
      <4>1. at(q) = p.effects[q]
        BY <3>3
      <4> QED BY <3>1, <4>1
    <3> QED BY <3>2, <3>3
  <2> HIDE DEF at, ne
  <2> QED BY <2>1, <2>2
<1>9. p.failed => nf
  OBVIOUS
<1> HIDE DEF s, nf, ne, fails
<1>10. PICK b \in BOOLEAN : b = TRUE
  OBVIOUS
<1>11. c = [p EXCEPT !.wire = w, !.busy = b, !.failed = nf, !.effects = ne,
                     !.dummy = nd, !.first = p.second, !.second = End, !.waiting = nw]
  <2>1. s = [p EXCEPT !.wire = w, !.busy = b, !.failed = nf, !.effects = ne]
    BY <1>4, <1>10
  <2>2. s.second = p.second /\ s.waiting = p.waiting
    BY <2>1, <1>0 DEF PipeType
  <2>3. c = [s EXCEPT !.dummy = nd, !.first = p.second, !.second = End, !.waiting = nw]
    BY <2>2 DEF Issued
  <2> HIDE DEF c, nd, nw, n
  <2> QED BY <2>1, <2>3, <1>0 DEF PipeType
<1> HIDE DEF c, nw, nd
<1>12. /\ c \in PipeType /\ c.wire = w /\ c.failed = nf /\ c.effects = ne /\ c.dummy = nd
       /\ c.first = p.second /\ c.second = End /\ c.waiting = nw
       /\ c.queries = p.queries /\ c.res = p.res /\ c.error = p.error /\ c.q_id = p.q_id
       /\ c.told = p.told
  <2>1. End \in 1 .. End
    BY <1>0
  <2> QED BY <2>1, <1>0, <1>3, <1>7, <1>8, <1>10, <1>11 DEF PipeType
<1>13. HavePending(c)
  BY <1>12 DEF HavePending
<1>14. Ranged(c)
  BY <1>0, <1>12 DEF PipeInv, Ranged
<1>15. Counted(c)
  <2>1. nw = 0
    <3>1. p.waiting = n
      BY <1>2 DEF PipeInv, Counted
    <3> QED BY <3>1, <1>5 DEF nw
  <2>2. {q \in DOMAIN c.queries : End <= q /\ q < End} = {}
    BY <1>0, <1>12
  <2>3. Between(c, End, End) = 0
    BY <2>2, FS_EmptySet DEF Between
  <2> QED BY <2>1, <2>3, <1>12 DEF Counted
<1>16. Stopped(c) /\ Told(c)
  BY <1>12 DEF PipeInv, Stopped, Told
<1>17. Fresh(c)
  <2> SUFFICES ASSUME NEW q \in 1 .. MaxQueries
               PROVE  ne[q] <= 1 /\ (q > p.q_id => ne[q] = 0)
    BY <1>0, <1>12 DEF Fresh
  <2>1. /\ p.effects[q] <= 1 /\ (q > p.q_id => p.effects[q] = 0)
        /\ q >= p.second => p.effects[q] = 0
    BY DEF PipeInv, Fresh
  <2>2. CASE q \in done
    <3>1. q \in D /\ q >= p.second
      BY <2>2, <1>0, <1>6
    <3>2. ~(q > p.q_id)
      BY <3>1, <1>0 DEF PipeInv, Ranged
    <3> QED BY <2>1, <3>1, <3>2, <1>8
  <2>3. CASE q \notin done
    BY <2>1, <2>3, <1>8
  <2> QED BY <2>2, <2>3
<1>18. Answered(c)
  <2> SUFFICES ASSUME NEW q \in D
               PROVE  (p.res[q].ok => p.res[q].of = q) /\ (q >= p.second => ~p.res[q].ok)
    BY <1>0, <1>12 DEF Answered
  <2>1. (p.res[q].ok => p.res[q].of = q) /\ (q >= p.first => ~p.res[q].ok)
    BY <1>0 DEF PipeInv, Answered
  <2> QED BY <2>1, <1>0
<1>19. Coming(c)
  <2>1. CASE ~(Len(ids) > 1)
    <3>1. ~c.dummy
      BY <2>1, <1>12 DEF nd
    <3> QED BY <2>1, <3>1, <1>3, <1>12 DEF Coming
  <2>2. CASE Len(ids) > 1
    <3>1. c.dummy
      BY <2>2, <1>12 DEF nd
    <3>2. ASSUME ~w[1].ok PROVE Botched(c)
      <4>1. Len(w) = 1 /\ done = {}
        BY <2>2, <3>2, <1>3, <1>6
      <4>2. ASSUME NEW q \in 1 .. MaxQueries, p.second <= q PROVE ne[q] = 0
        BY <4>1, <4>2, <1>0, <1>8 DEF PipeInv, Fresh
      <4>3. CASE p.failed
        BY <4>1, <4>2, <4>3, <1>9, <1>12 DEF Botched
      <4>4. CASE \E k \in 1 .. Len(ids) : p.queries[ids[k]] = "syntax"
        <5>1. PICK k \in 1 .. Len(ids) : p.queries[ids[k]] = "syntax"
          BY <4>4
        <5>2. ids[k] \in D /\ p.second <= ids[k] /\ ids[k] < End
          BY <1>0, <1>2 DEF Batch
        <5>3. \E q \in DOMAIN c.queries : c.first <= q /\ q < c.second /\ c.queries[q] = "syntax"
          BY <5>1, <5>2, <1>12
        <5> QED BY <4>1, <4>2, <5>3, <1>12 DEF Botched
      <4> QED BY <2>2, <3>2, <4>3, <4>4, <1>3
    <3> QED BY <2>2, <3>1, <3>2, <1>3, <1>12 DEF Coming
  <2> QED BY <2>1, <2>2
<1>20. PipeInv(c)
  BY <1>14, <1>15, <1>16, <1>17, <1>18, <1>19 DEF PipeInv
<1> QED BY <1>12, <1>13, <1>20 DEF c, s, n, ids

\* issue, once nothing is pending: a batch is sent, unless there was an error.
LEMMA IssueTrue ==
  ASSUME NEW p, PipeInv(p), ~HavePending(p), p.error = qid_limit => p.second # End
  PROVE  LET c == Issue(p)
         IN  /\ PipeInv(c) /\ c.queries = p.queries /\ c.told = p.told /\ c.q_id = p.q_id
             /\ c.first >= p.first
             /\ ~Ended(c) => Receivable(c)
             /\ ~Ended(c) /\ c.error = qid_limit =>
                   c.first = p.second /\ c.second = End /\ HavePending(c)
<1> DEFINE g == ObtainResult(p, FALSE)
           seen == ObtainResult(p, FALSE).p
           ids == NotIssued(seen)
           sent == Issued(SendQuery(seen, ids), Len(ids))
           c == Issue(p)
<1>0. /\ p \in PipeType /\ p.first \in 1 .. End /\ p.second \in 1 .. End /\ p.first <= p.second
      /\ MaxQueries \in Nat \ {0}
      /\ p.error = qid_limit => p.second \in DOMAIN p.queries /\ DOMAIN p.queries # {}
  <2>1. /\ p \in PipeType /\ p.first \in 1 .. End /\ p.second \in 1 .. End
        /\ p.first <= p.second /\ MaxQueries \in Nat \ {0}
    BY RangedFacts DEF PipeInv
  <2> QED BY <2>1 DEF PipeInv, Ranged
<1>1. CASE p.wire # <<>>
  <2>1. PipeInv(seen) /\ Kept(p, seen) /\ Ended(seen)
    BY <1>0, <1>1, TooManyObtained
  <2>2. c = seen
    BY <2>1 DEF Issue
  <2> HIDE DEF seen, c
  <2> QED BY <2>1, <2>2 DEF Kept, c
<1>2. CASE p.wire = <<>>
  <2>1. /\ PipeInv(seen) /\ Kept(p, seen) /\ seen.wire = <<>> /\ ~HavePending(seen)
        /\ ~seen.busy /\ seen.first = p.first /\ seen.second = p.second /\ seen.error = p.error
    BY <1>2, NoneObtained
  <2>2. seen.error \in 0 .. qid_limit
    BY <2>1, RangedFacts DEF PipeInv
  <2>3. CASE Ended(seen) \/ seen.error < qid_limit
    <3>1. c = seen
      <4>1. ~(seen.error = qid_limit) \/ Ended(seen)
        <5> HIDE DEF seen
        <5> QED BY <2>2, <2>3, <1>0
      <4> HIDE DEF seen
      <4>2. c = CASE Ended(seen) \/ seen.error < qid_limit -> seen
                  [] ~Ended(seen) /\ seen.error = qid_limit /\ seen.busy -> Throw(seen, "failure")
                  [] OTHER -> sent
        BY DEF Issue, seen
      <4> HIDE DEF c, sent, ids
      <4> QED BY <4>1, <4>2, <2>3
    <3> HIDE DEF seen, c
    <3>2. ~Ended(c) => Receivable(c) /\ c.error # qid_limit
      BY <2>1, <2>2, <2>3, <3>1, <1>0 DEF Receivable
    <3> QED BY <2>1, <3>1, <3>2 DEF Kept, c
  <2>4. CASE ~(Ended(seen) \/ seen.error < qid_limit)
    <3>1. c = sent
      BY <2>1, <2>4 DEF Issue
    <3>2. seen.error = qid_limit
      <4> HIDE DEF seen
      <4> QED BY <2>2, <2>4, <1>0
    <3> HIDE DEF seen, c
    <3>3. /\ PipeInv(sent) /\ sent.queries = seen.queries /\ sent.told = seen.told
          /\ sent.q_id = seen.q_id /\ sent.first = seen.second /\ sent.second = End
          /\ sent.error = qid_limit /\ HavePending(sent)
      BY <2>1, <3>2, BatchSent
    <3> HIDE DEF sent
    <3>4. Receivable(sent)
      BY <2>1, <3>2, <3>3, <1>0 DEF Receivable, Kept
    <3> QED BY <2>1, <3>1, <3>3, <3>4, <1>0 DEF Kept, c
  <2> QED BY <2>3, <2>4
<1> QED BY <1>1, <1>2

(***************************************************************************)
(* The client's calls.                                                     *)
(***************************************************************************)
Thrown == {"none", "logic_error", "internal_error", "failure", "sql_error", "runtime_error"}

\* What is thrown, and whether the pipeline is attached, is not in the invariant.
LEMMA ThrowTrue ==
  ASSUME NEW p, PipeInv(p), NEW what \in Thrown
  PROVE  PipeInv([p EXCEPT !.thrown = what]) /\ Kept(p, [p EXCEPT !.thrown = what])
<1> DEFINE c == [p EXCEPT !.thrown = what]
<1>0. p \in PipeType
  BY RangedFacts DEF PipeInv
<1>1. /\ c \in PipeType
      /\ c.queries = p.queries /\ c.res = p.res /\ c.first = p.first /\ c.second = p.second
      /\ c.waiting = p.waiting /\ c.q_id = p.q_id /\ c.dummy = p.dummy /\ c.wire = p.wire
      /\ c.failed = p.failed /\ c.effects = p.effects /\ c.told = p.told /\ c.error = p.error
  BY <1>0 DEF PipeType, Thrown
<1> HIDE DEF c
<1>2. PipeInv(c) /\ Kept(p, c)
  BY <1>1, InvSame
<1> QED BY <1>2 DEF c

\* detach keeps the invariant: it says nothing of the registration.
LEMMA DetachTrue ==
  ASSUME NEW p, PipeInv(p)
  PROVE  PipeInv(Detached(p))
<1> DEFINE c == [p EXCEPT !.registered = FALSE]
<1>0. p \in PipeType
  BY RangedFacts DEF PipeInv
<1>1. /\ c \in PipeType
      /\ c.queries = p.queries /\ c.res = p.res /\ c.first = p.first /\ c.second = p.second
      /\ c.waiting = p.waiting /\ c.q_id = p.q_id /\ c.dummy = p.dummy /\ c.wire = p.wire
      /\ c.failed = p.failed /\ c.effects = p.effects /\ c.told = p.told /\ c.error = p.error
  <2>1. PICK b \in BOOLEAN : b = FALSE
    OBVIOUS
  <2>2. c = [p EXCEPT !.registered = b]
    BY <2>1
  <2> HIDE DEF c
  <2> QED BY <2>2, <1>0 DEF PipeType
<1> HIDE DEF c
<1>2. PipeInv(c)
  BY <1>1, InvSame
<1> QED BY <1>2 DEF Detached, c

\* If something waits, there is something to issue.
LEMMA WaitingIssuable ==
  ASSUME NEW p, PipeInv(p), p.waiting # 0
  PROVE  p.error = qid_limit => p.second # End
<1> SUFFICES ASSUME p.error = qid_limit, p.second = End PROVE FALSE
  OBVIOUS
<1>1. DOMAIN p.queries \subseteq 1 .. MaxQueries /\ MaxQueries \in Nat \ {0}
  BY RangedFacts DEF PipeInv
<1>2. {q \in DOMAIN p.queries : End <= q /\ q < End} = {}
  BY <1>1
<1>3. Between(p, End, End) = 0
  BY <1>2, FS_EmptySet DEF Between
<1> QED BY <1>3 DEF PipeInv, Counted

\* What is pending can be received.
LEMMA PendingReceivable ==
  ASSUME NEW p, PipeInv(p), HavePending(p)
  PROVE  Receivable(p)
<1>1. p.first \in DOMAIN p.queries
  BY RangedFacts DEF PipeInv
<1> QED BY <1>1 DEF Receivable

\* resume.
LEMMA ResumeTrue ==
  ASSUME NEW p, PipeInv(p), NEW available \in Nat
  PROVE  PipeInv(Resumed(p, available))
<1> DEFINE r == IF HavePending(p) THEN ReceiveIfAvailable(p, available) ELSE p
           i == Issue(r)
<1>1. PipeInv(r)
  <2>1. CASE HavePending(p)
    BY <2>1, PendingReceivable, AvailableReceived
  <2>2. CASE ~HavePending(p)
    BY <2>2
  <2> QED BY <2>1, <2>2
<1>2. Resumed(p, available) = IF Ended(r) \/ HavePending(r) \/ r.waiting = 0 THEN r
                              ELSE ResumeIssued(i, available)
  BY DEF Resumed, ResumeReceived
<1> HIDE DEF r
<1>3. CASE Ended(r) \/ HavePending(r) \/ r.waiting = 0
  BY <1>1, <1>2, <1>3
<1>4. CASE ~(Ended(r) \/ HavePending(r) \/ r.waiting = 0)
  <2>1. PipeInv(i) /\ (~Ended(i) => Receivable(i))
    BY <1>1, <1>4, WaitingIssuable, IssueTrue
  <2> HIDE DEF i
  <2>2. PipeInv(ResumeIssued(i, available))
    <3>1. CASE Ended(i)
      BY <2>1, <3>1 DEF ResumeIssued
    <3>2. CASE ~Ended(i)
      BY <2>1, <3>2, AvailableReceived DEF ResumeIssued
    <3> QED BY <3>1, <3>2
  <2> QED BY <1>2, <1>4, <2>2
<1> QED BY <1>3, <1>4

\* complete, before it detaches.
LEMMA CompleteTrue ==
  ASSUME NEW p, PipeInv(p), NEW available \in Nat
  PROVE  PipeInv(CompleteReceived(ReceivePending(p, available), available))
<1> DEFINE r == ReceivePending(p, available)
           i == Issue(r)
<1>1. PipeInv(r) /\ (~Ended(r) => ~HavePending(r))
  BY PendingReceived
<1> HIDE DEF r
<1>2. CASE Ended(r) \/ r.waiting = 0 \/ r.error # qid_limit
  BY <1>1, <1>2 DEF CompleteReceived, r
<1>3. CASE ~(Ended(r) \/ r.waiting = 0 \/ r.error # qid_limit)
  <2>1. PipeInv(i) /\ (~Ended(i) => Receivable(i))
    BY <1>1, <1>3, WaitingIssuable, IssueTrue
  <2> HIDE DEF i
  <2>2. PipeInv(CompleteIssued(i, available))
    <3>1. CASE Ended(i)
      BY <2>1, <3>1 DEF CompleteIssued
    <3>2. CASE ~Ended(i)
      <4>1. End \in Int
        BY PipelineAssumption
      <4>2. PipeInv(Receive(i, MaxQueries + 1, available))
        BY <2>1, <3>2, <4>1, ReceivedTo
      <4> QED BY <3>2, <4>2 DEF CompleteIssued
    <3> QED BY <3>1, <3>2
  <2>3. CompleteReceived(r, available) = CompleteIssued(i, available)
    BY <1>3 DEF CompleteReceived, i
  <2> QED BY <2>2, <2>3 DEF r
<1> QED BY <1>2, <1>3

\* flush, before it detaches: an empty pipeline, which keeps the error.
LEMMA EmptiedTrue ==
  ASSUME NEW p, PipeInv(p)
  PROVE  PipeInv(Emptied(p))
<1> DEFINE eq == [q \in {} |-> "good"]
           er == [q \in {} |-> NoResult]
           c == [p EXCEPT !.queries = eq, !.res = er, !.first = End, !.second = End,
                          !.waiting = 0, !.dummy = FALSE]
<1>0. /\ p \in PipeType /\ p.first \in 1 .. End /\ p.q_id \in 0 .. MaxQueries
      /\ p.error \in 0 .. qid_limit /\ MaxQueries \in Nat \ {0}
  BY RangedFacts DEF PipeInv
<1>1. CASE Ended(p)
  BY <1>1 DEF Emptied
<1>2. CASE ~Ended(p)
  <2>1. Emptied(p) = c
    <3>1. NoPipe.queries = eq /\ NoPipe.res = er
      BY DEF NoPipe
    <3> QED BY <1>2, <3>1 DEF Emptied
  <2>2. eq \in Maps(Queries) /\ DOMAIN eq = {} /\ er \in Maps(PipeResults) /\ DOMAIN er = {}
    <3>1. eq \in [{} -> Queries] /\ er \in [{} -> PipeResults]
      OBVIOUS
    <3> HIDE DEF eq, er
    <3> QED BY <3>1, MapIntro
  <2> HIDE DEF eq, er
  <2>3. PICK b \in BOOLEAN : b = FALSE
    OBVIOUS
  <2>4. c = [p EXCEPT !.queries = eq, !.res = er, !.first = End, !.second = End,
                      !.waiting = 0, !.dummy = b]
    BY <2>3
  <2> HIDE DEF c
  <2>5. /\ c \in PipeType /\ c.queries = eq /\ c.res = er /\ c.first = End /\ c.second = End
        /\ c.waiting = 0 /\ c.q_id = p.q_id /\ c.error = p.error
        /\ c.effects = p.effects /\ c.told = p.told
    <3>1. End \in 1 .. End /\ 0 \in Int
      BY <1>0
    <3> QED BY <2>2, <2>4, <3>1, <1>0 DEF PipeType
  <2>6. Ranged(c) /\ ~HavePending(c)
    BY <2>2, <2>5, <1>0 DEF Ranged, HavePending
  <2>7. Counted(c)
    <3>1. {q \in DOMAIN c.queries : End <= q /\ q < End} = {}
      BY <2>2, <2>5
    <3>2. Between(c, End, End) = 0
      BY <3>1, FS_EmptySet DEF Between
    <3> QED BY <3>2, <2>5 DEF Counted
  <2>8. Stopped(c) /\ Told(c)
    BY <2>5, <1>0 DEF PipeInv, Stopped, Told
  <2>9. Fresh(c)
    <3>1. \A q \in 1 .. MaxQueries : ~(q >= End)
      BY <1>0
    <3> QED BY <3>1, <2>5 DEF PipeInv, Fresh
  <2>10. Answered(c)
    BY <2>2, <2>5 DEF Answered
  <2> QED BY <2>1, <2>6, <2>7, <2>8, <2>9, <2>10 DEF PipeInv
<1> QED BY <1>1, <1>2

\* Queries before the pending ones, or the pending ones all together, are forgotten.
LEMMA ForgetTrue ==
  ASSUME NEW p, PipeInv(p), NEW qs, NEW from \in {p.first, p.second},
         \A q \in qs \cap DOMAIN p.queries : q < from
  PROVE  LET c == [Erased(p, qs) EXCEPT !.first = from]
         IN  /\ PipeInv(c) /\ c.told = p.told
             /\ from = p.first => c = Erased(p, qs)
<1> DEFINE D == DOMAIN p.queries
           E == D \ qs
           nq == [r \in DOMAIN p.queries \ qs |-> p.queries[r]]
           nr == [r \in DOMAIN p.res \ qs |-> p.res[r]]
           e == Erased(p, qs)
           c == [e EXCEPT !.first = from]
<1>0. /\ p \in PipeType /\ p.first \in 1 .. End /\ p.second \in 1 .. End
      /\ p.first <= p.second /\ p.q_id \in 0 .. MaxQueries /\ p.error \in 0 .. qid_limit
      /\ MaxQueries \in Nat \ {0} /\ D \subseteq 1 .. MaxQueries /\ DOMAIN p.res = D
  BY RangedFacts DEF PipeInv
<1>1. from \in 1 .. End /\ p.first <= from /\ from <= p.second /\ from \in Int
      /\ p.first \in Int /\ p.second \in Int
  BY <1>0
<1>2. /\ nq \in Maps(Queries) /\ DOMAIN nq = E
      /\ nr \in Maps(PipeResults) /\ DOMAIN nr = E
  <2>1. p.queries \in Maps(Queries) /\ p.res \in Maps(PipeResults)
    BY <1>0 DEF PipeType
  <2>2. nq \in Maps(Queries) /\ DOMAIN nq = E
    BY <2>1, MapRestrict
  <2>3. nr \in Maps(PipeResults) /\ DOMAIN nr = DOMAIN p.res \ qs
    BY <2>1, MapRestrict
  <2> HIDE DEF nq, nr
  <2> QED BY <2>2, <2>3, <1>0
<1>3. \A q \in E : nq[q] = p.queries[q] /\ nr[q] = p.res[q]
  BY <1>0
<1>4. e = [p EXCEPT !.queries = nq, !.res = nr]
  BY DEF Erased
<1> HIDE DEF nq, nr, e
<1>5. /\ c \in PipeType /\ c.queries = nq /\ c.res = nr /\ c.first = from
      /\ c.second = p.second /\ c.waiting = p.waiting /\ c.q_id = p.q_id /\ c.error = p.error
      /\ c.dummy = p.dummy /\ c.wire = p.wire /\ c.failed = p.failed
      /\ c.effects = p.effects /\ c.told = p.told
  BY <1>0, <1>1, <1>2, <1>4 DEF PipeType
<1>6. ASSUME from = p.first PROVE c = e
  <2>1. e \in PipeType /\ e.first = p.first
    BY <1>0, <1>2, <1>4 DEF PipeType
  <2> QED BY <2>1, <1>6 DEF PipeType
<1> HIDE DEF c
<1>7. \A q \in D : q >= from => q \in E
  <2>1. ASSUME NEW q \in D, q >= from PROVE q \notin qs
    <3> SUFFICES ASSUME q \in qs PROVE FALSE
      OBVIOUS
    <3>1. q < from /\ q \in Int
      BY <1>0
    <3> QED BY <3>1, <2>1, <1>1
  <2> QED BY <2>1
<1>8. Ranged(c)
  <2>1. p.first \in D \cup {End} /\ p.second \in D \cup {End} /\ \A q \in D : q <= p.q_id
    BY DEF PipeInv, Ranged
  <2>2. from \in E \cup {End} /\ p.second \in E \cup {End}
    BY <2>1, <1>1, <1>7
  <2> QED BY <2>1, <2>2, <1>1, <1>2, <1>5 DEF Ranged
<1>9. Counted(c)
  <2>1. {q \in E : p.second <= q /\ q < End} = {q \in D : p.second <= q /\ q < End}
    <3>1. \A q \in D : p.second <= q => q \in E
      BY <1>0, <1>1, <1>7
    <3> QED BY <3>1
  <2>2. Between(c, c.second, End) = Between(p, p.second, End)
    BY <2>1, <1>2, <1>5 DEF Between
  <2> QED BY <2>2, <1>5 DEF PipeInv, Counted
<1>10. Stopped(c) /\ Told(c)
  <2>1. Stopped(c)
    <3> SUFFICES ASSUME p.error # qid_limit
                 PROVE  p.second = from /\ p.error <= from /\ p.error <= p.q_id + 1
      BY <1>5 DEF Stopped
    <3>1. p.second = p.first /\ p.error <= p.first /\ p.error <= p.q_id + 1
      BY DEF PipeInv, Stopped
    <3> QED BY <3>1
  <2> QED BY <2>1, <1>5 DEF PipeInv, Told
<1>11. Fresh(c)
  BY <1>5 DEF PipeInv, Fresh
<1>12. Answered(c)
  <2> SUFFICES ASSUME NEW q \in E
               PROVE  (p.res[q].ok => p.res[q].of = q) /\ (q >= from => ~p.res[q].ok)
    BY <1>2, <1>3, <1>5 DEF Answered
  <2>1. (p.res[q].ok => p.res[q].of = q) /\ (q >= p.first => ~p.res[q].ok)
    BY <1>0 DEF PipeInv, Answered
  <2>2. q \in Int
    BY <1>0
  <2> QED BY <2>1, <2>2, <1>1
<1>13. ASSUME HavePending(c) PROVE Coming(c)
  <2>1. from = p.first /\ HavePending(p) /\ Coming(p)
    BY <1>5, <1>13 DEF HavePending, PipeInv
  <2>2. p.wire \in Seq(PipeResults)
    BY <1>0 DEF PipeType
  <2>3. ASSUME NEW w \in Seq(PipeResults), Chain(D, w, p.first) PROVE Chain(E, w, p.first)
    <3>1. ASSUME NEW k \in 1 .. Len(w) PROVE w[k].of \in E
      <4>1. Len(w) \in Nat /\ 1 \in 1 .. Len(w) /\ w # <<>>
        BY LenProperties, EmptySeq
      <4>2. w[1].of = p.first /\ w[k].of \in D
        BY <2>3, <4>1 DEF Chain
      <4>3. w[k].of >= p.first
        <5>1. CASE k = 1
          BY <4>2, <5>1, <1>1
        <5>2. CASE k # 1
          <6>1. 1 < k
            BY <4>1, <5>2
          <6>2. w[1].of < w[k].of
            BY <6>1, <4>1, <2>3 DEF Chain
          <6>3. w[k].of \in Int
            BY <4>2, <1>0
          <6> QED BY <6>2, <6>3, <4>2, <1>1
        <5> QED BY <5>1, <5>2
      <4> QED BY <4>2, <4>3, <2>1, <1>7
    <3>2. \A r \in E : r \in D \/ \A s \in D : r > s
      OBVIOUS
    <3>3. E \subseteq 1 .. MaxQueries
      BY <1>0
    <3> HIDE DEF E, D
    <3> QED BY <3>1, <3>2, <3>3, <2>3, <1>0, ChainKept
  <2>4. CASE ~p.dummy
    <3>1. Chain(E, p.wire, p.first)
      BY <2>1, <2>2, <2>3, <2>4 DEF Coming
    <3> QED BY <2>1, <2>4, <3>1, <1>2, <1>5 DEF Coming
  <2>5. CASE p.dummy
    <3>1. p.wire # <<>>
      BY <2>1, <2>5 DEF Coming
    <3>2. Tail(p.wire) \in Seq(PipeResults)
      BY <2>2, <3>1, HeadTailProperties
    <3>3. ASSUME p.wire[1].ok PROVE Chain(E, Tail(p.wire), p.first)
      BY <2>1, <2>3, <2>5, <3>2, <3>3 DEF Coming
    <3>4. ASSUME ~p.wire[1].ok PROVE Botched(c)
      <4>1. Botched(p)
        BY <2>1, <2>5, <3>4 DEF Coming
      <4>2. CASE p.failed
        BY <4>1, <4>2, <2>1, <1>5 DEF Botched
      <4>3. CASE ~p.failed
        <5>1. PICK q \in D : p.first <= q /\ q < p.second /\ p.queries[q] = "syntax"
          BY <4>1, <4>3 DEF Botched
        <5>2. q \in E
          BY <5>1, <2>1, <1>0, <1>7
        <5>3. nq[q] = "syntax"
          BY <5>1, <5>2, <1>3
        <5>4. \E x \in DOMAIN c.queries : c.first <= x /\ x < c.second /\ c.queries[x] = "syntax"
          BY <5>1, <5>2, <5>3, <2>1, <1>2, <1>5
        <5> QED BY <4>1, <5>4, <2>1, <1>5 DEF Botched
      <4> QED BY <4>2, <4>3
    <3> QED BY <2>1, <2>5, <3>1, <3>3, <3>4, <1>2, <1>5 DEF Coming
  <2> QED BY <2>4, <2>5
<1>14. PipeInv(c)
  BY <1>8, <1>9, <1>10, <1>11, <1>12, <1>13 DEF PipeInv
<1> QED BY <1>5, <1>6, <1>14 DEF c, e

\* insert, before anything is sent.
LEMMA AddedTrue ==
  ASSUME NEW p, PipeInv(p), p.q_id < MaxQueries, NEW sql \in Queries
  PROVE  LET c == Added(p, sql) IN PipeInv(c) /\ c.second # End
<1> DEFINE D == DOMAIN p.queries
           q == p.q_id + 1
           E == D \cup {q}
           nq == [r \in DOMAIN p.queries \cup {q} |-> IF r = q THEN sql ELSE p.queries[r]]
           nr == [r \in DOMAIN p.res \cup {q} |-> IF r = q THEN NoResult ELSE p.res[r]]
           nw == p.waiting + 1
           ns == IF p.second = End THEN q ELSE p.second
           nf == IF p.second = End /\ p.first = End THEN q ELSE p.first
           c == Added(p, sql)
<1>0. /\ p \in PipeType /\ p.first \in 1 .. End /\ p.second \in 1 .. End
      /\ p.first <= p.second /\ p.q_id \in 0 .. MaxQueries /\ p.error \in 0 .. qid_limit
      /\ MaxQueries \in Nat \ {0} /\ D \subseteq 1 .. MaxQueries /\ DOMAIN p.res = D
  BY RangedFacts DEF PipeInv
<1>1. /\ p.queries \in Maps(Queries) /\ p.res \in Maps(PipeResults) /\ p.waiting \in Int
      /\ \A r \in D : r <= p.q_id
      /\ p.first \in D \cup {End} /\ p.second \in D \cup {End}
  BY <1>0 DEF PipeType, PipeInv, Ranged
<1>2. q \in 1 .. MaxQueries /\ q \notin D /\ (\A r \in D : r < q) /\ q < End /\ E \subseteq 1 .. MaxQueries
  <2>1. q \in 1 .. MaxQueries
    BY <1>0
  <2>2. \A r \in D : r < q /\ r \in Int
    BY <1>0, <1>1
  <2>3. q \notin D
    BY <2>2
  <2> QED BY <2>1, <2>2, <2>3, <1>0
<1>3. NoResult \in PipeResults /\ ~NoResult.ok
  <2>1. PICK b \in BOOLEAN : b = FALSE
    OBVIOUS
  <2>2. NoResult = [of |-> 0, ok |-> b, names |-> 0]
    BY <2>1 DEF NoResult, PipeResult
  <2> QED BY <2>1, <2>2, <1>0 DEF PipeResults
<1>4. /\ nq \in Maps(Queries) /\ DOMAIN nq = E
      /\ nr \in Maps(PipeResults) /\ DOMAIN nr = E
  <2>1. nq \in Maps(Queries) /\ DOMAIN nq = E
    <3>1. \A r \in D : p.queries[r] \in Queries
      BY <1>1, MapFacts
    <3>2. nq \in [E -> Queries]
      <4> HIDE DEF q
      <4> QED BY <3>1
    <3> HIDE DEF nq, E
    <3> QED BY <3>2, <1>2, MapIntro
  <2>2. nr \in Maps(PipeResults) /\ DOMAIN nr = E
    <3>1. \A r \in D : p.res[r] \in PipeResults
      BY <1>0, <1>1, MapFacts
    <3>2. nr \in [E -> PipeResults]
      <4> HIDE DEF q
      <4> QED BY <3>1, <1>0, <1>3
    <3> HIDE DEF nr, E
    <3> QED BY <3>2, <1>2, MapIntro
  <2> HIDE DEF nq, nr
  <2> QED BY <2>1, <2>2
<1>5. /\ nr[q] = NoResult /\ \A r \in D : nq[r] = p.queries[r] /\ nr[r] = p.res[r]
  BY <1>0, <1>2
<1>6. /\ ns \in E /\ nf \in E \cup {End} /\ nf <= ns /\ ns \in 1 .. MaxQueries /\ nf \in 1 .. End
      /\ p.second # End => ns = p.second /\ nf = p.first
      /\ p.second = End => ns = q
      /\ nf = p.first \/ (nf = q /\ ns = q)
  BY <1>0, <1>1, <1>2
<1>7. nw \in Int
  BY <1>1
<1>8. c = [p EXCEPT !.thrown = "none", !.registered = TRUE, !.q_id = q, !.waiting = nw,
                    !.queries = nq, !.res = nr, !.second = ns, !.first = nf]
  <2> DEFINE a == [p EXCEPT !.registered = TRUE, !.thrown = "none"]
  <2>1. /\ a.waiting = p.waiting /\ a.queries = p.queries /\ a.res = p.res
        /\ a.second = p.second /\ a.first = p.first
    BY <1>0 DEF PipeType
  <2>2. c = [a EXCEPT !.q_id = q, !.waiting = nw,
                      !.queries = nq, !.res = nr, !.second = ns, !.first = nf]
    <3>1. c = [a EXCEPT !.q_id = q, !.waiting = @ + 1,
                 !.queries = [r \in DOMAIN @ \cup {q} |-> IF r = q THEN sql ELSE @[r]],
                 !.res = [r \in DOMAIN @ \cup {q} |-> IF r = q THEN NoResult ELSE @[r]],
                 !.second = IF p.second = End THEN q ELSE @,
                 !.first = IF p.second = End /\ @ = End THEN q ELSE @]
      BY DEF Added, Attached
    <3> HIDE DEF a, q, c
    <3> QED BY <2>1, <3>1
  <2> HIDE DEF nq, nr, ns, nf, nw, q, c
  <2> QED BY <2>2, <1>0 DEF PipeType
<1> HIDE DEF nq, nr, ns, nf, nw, c
<1>9. /\ c \in PipeType /\ c.queries = nq /\ c.res = nr /\ c.first = nf
      /\ c.second = ns /\ c.waiting = nw /\ c.q_id = q /\ c.error = p.error
      /\ c.dummy = p.dummy /\ c.wire = p.wire /\ c.failed = p.failed
      /\ c.effects = p.effects /\ c.told = p.told
  <2>1. PICK b \in BOOLEAN : b = TRUE
    OBVIOUS
  <2>2. c = [p EXCEPT !.thrown = "none", !.registered = b, !.q_id = q, !.waiting = nw,
                      !.queries = nq, !.res = nr, !.second = ns, !.first = nf]
    BY <2>1, <1>8
  <2>3. q \in 0 .. MaxQueries /\ ns \in 1 .. End /\ nf \in 1 .. End
    BY <1>0, <1>2, <1>6
  <2> HIDE DEF q
  <2> QED BY <2>2, <2>3, <1>0, <1>4, <1>7 DEF PipeType
<1>10. Ranged(c) /\ c.second # End
  <2>1. \A r \in E : r <= q
    BY <1>0, <1>2
  <2> QED BY <2>1, <1>0, <1>4, <1>6, <1>9 DEF Ranged
<1>11. Counted(c)
  <2> SUFFICES ASSUME p.error = qid_limit PROVE nw = Between(c, ns, End)
    BY <1>9 DEF Counted
  <2> DEFINE A == {r \in D : p.second <= r /\ r < End}
             B == {r \in E : ns <= r /\ r < End}
  <2>1. p.waiting = Cardinality(A)
    BY DEF PipeInv, Counted, Between
  <2>2. B = A \cup {q}
    <3>1. CASE p.second = End
      <4>1. A = {}
        BY <3>1, <1>0
      <4>2. \A r \in E : (ns <= r /\ r < End) <=> r = q
        BY <3>1, <1>0, <1>2, <1>6
      <4> QED BY <4>1, <4>2
    <3>2. CASE p.second # End
      <4>1. ns = p.second
        BY <3>2, <1>6
      <4>2. p.second <= q
        BY <3>2, <1>0, <1>1, <1>2
      <4> QED BY <4>1, <4>2, <1>2
    <3> QED BY <3>1, <3>2
  <2>3. IsFiniteSet(A) /\ q \notin A
    <3>1. IsFiniteSet(1 .. MaxQueries)
      BY <1>0, FS_Interval
    <3> QED BY <3>1, <1>0, <1>2, FS_Subset
  <2>4. Cardinality(A \cup {q}) = Cardinality(A) + 1
    <3> HIDE DEF A, q
    <3> QED BY <2>3, FS_AddElement
  <2>5. Between(c, ns, End) = Cardinality(B)
    BY <1>4, <1>9 DEF Between
  <2> HIDE DEF A, B
  <2> QED BY <2>1, <2>2, <2>4, <2>5 DEF nw
<1>12. Stopped(c) /\ Told(c)
  <2>1. Told(c)
    BY <1>9 DEF PipeInv, Told
  <2>2. Stopped(c)
    <3> SUFFICES ASSUME p.error # qid_limit
                 PROVE  ns = nf /\ p.error <= nf /\ p.error <= q + 1
      BY <1>9 DEF Stopped
    <3>1. p.second = p.first /\ p.error <= p.first /\ p.error <= q
      BY DEF PipeInv, Stopped
    <3>2. CASE p.second = End
      <4>1. nf = q /\ ns = q
        BY <3>1, <3>2 DEF nf, ns
      <4> QED BY <3>1, <4>1, <1>0, <1>2
    <3>3. CASE p.second # End
      BY <3>1, <3>3, <1>0, <1>2, <1>6
    <3> QED BY <3>2, <3>3
  <2> QED BY <2>1, <2>2
<1>13. Fresh(c)
  <2> SUFFICES ASSUME NEW x \in 1 .. MaxQueries
               PROVE  /\ p.effects[x] <= 1
                      /\ x > q => p.effects[x] = 0
                      /\ p.error = qid_limit /\ x >= ns => p.effects[x] = 0
    BY <1>9 DEF Fresh
  <2>1. /\ p.effects[x] <= 1
        /\ x > p.q_id => p.effects[x] = 0
        /\ p.error = qid_limit /\ x >= p.second => p.effects[x] = 0
    BY DEF PipeInv, Fresh
  <2>2. CASE p.second = End
    BY <2>1, <2>2, <1>0, <1>6
  <2>3. CASE p.second # End
    BY <2>1, <2>3, <1>0, <1>6
  <2> QED BY <2>2, <2>3
<1>14. Answered(c)
  <2> SUFFICES ASSUME NEW x \in E
               PROVE  (nr[x].ok => nr[x].of = x) /\ (x >= nf => ~nr[x].ok)
    BY <1>4, <1>9 DEF Answered
  <2>1. CASE x = q
    BY <2>1, <1>3, <1>5
  <2>2. CASE x # q
    <3>1. x \in D /\ nr[x] = p.res[x]
      BY <2>2, <1>5
    <3>2. (p.res[x].ok => p.res[x].of = x) /\ (x >= p.first => ~p.res[x].ok)
      BY <3>1, <1>0 DEF PipeInv, Answered
    <3>3. x < q
      BY <3>1, <1>2
    <3>4. CASE nf = q
      BY <3>1, <3>2, <3>3, <3>4, <1>0, <1>2
    <3>5. CASE nf = p.first
      BY <3>1, <3>2, <3>5
    <3> QED BY <3>4, <3>5, <1>6
  <2> QED BY <2>1, <2>2
<1>15. ASSUME HavePending(c) PROVE Coming(c)
  <2>1. nf # ns /\ nf = p.first
    BY <1>6, <1>9, <1>15 DEF HavePending
  <2>2. p.first # p.second
    <3> SUFFICES ASSUME p.first = p.second PROVE FALSE
      OBVIOUS
    <3>1. CASE p.second = End
      BY <3>1, <2>1, <1>6 DEF nf
    <3>2. CASE p.second # End
      BY <3>2, <2>1, <1>6
    <3> QED BY <3>1, <3>2
  <2>3. Coming(p)
    BY <2>2 DEF HavePending, PipeInv
  <2>4. p.wire \in Seq(PipeResults)
    BY <1>0 DEF PipeType
  <2>5. ASSUME NEW w \in Seq(PipeResults), Chain(D, w, p.first) PROVE Chain(E, w, p.first)
    <3>1. \A k \in 1 .. Len(w) : w[k].of \in E
      BY <2>5 DEF Chain
    <3>2. \A r \in E : r \in D \/ \A s \in D : r > s
      <4>1. \A s \in D : q > s
        BY <1>0, <1>2
      <4> QED BY <4>1
    <3> HIDE DEF E, D
    <3> QED BY <3>1, <3>2, <2>5, <1>0, <1>2, ChainKept
  <2>6. CASE ~p.dummy
    <3>1. Chain(E, p.wire, p.first)
      BY <2>3, <2>4, <2>5, <2>6 DEF Coming
    <3> QED BY <2>1, <2>6, <3>1, <1>4, <1>9 DEF Coming
  <2>7. CASE p.dummy
    <3>1. p.wire # <<>>
      BY <2>3, <2>7 DEF Coming
    <3>2. Tail(p.wire) \in Seq(PipeResults)
      BY <2>4, <3>1, HeadTailProperties
    <3>3. ASSUME p.wire[1].ok PROVE Chain(E, Tail(p.wire), p.first)
      BY <2>3, <2>5, <2>7, <3>2, <3>3 DEF Coming
    <3>4. ASSUME ~p.wire[1].ok PROVE Botched(c)
      <4>1. Botched(p)
        BY <2>3, <2>7, <3>4 DEF Coming
      <4>2. ns <= p.second
        BY <1>0, <1>2, <1>6
      <4>3. \A x \in 1 .. MaxQueries : nf <= x /\ x < ns => p.effects[x] = 0
        BY <4>1, <4>2, <2>1, <1>0, <1>6 DEF Botched
      <4>4. CASE p.failed
        BY <4>1, <4>3, <4>4, <1>9 DEF Botched
      <4>5. CASE ~p.failed
        <5>1. PICK x \in D : p.first <= x /\ x < p.second /\ p.queries[x] = "syntax"
          BY <4>1, <4>5 DEF Botched
        <5>2. x < ns
          BY <5>1, <1>2, <1>6
        <5>3. nq[x] = "syntax" /\ x \in E
          BY <5>1, <1>5
        <5>4. \E y \in DOMAIN c.queries : c.first <= y /\ y < c.second /\ c.queries[y] = "syntax"
          BY <5>1, <5>2, <5>3, <2>1, <1>4, <1>9
        <5> QED BY <4>1, <4>3, <5>4, <1>9 DEF Botched
      <4> QED BY <4>4, <4>5
    <3> QED BY <2>1, <2>7, <3>1, <3>3, <3>4, <1>4, <1>9 DEF Coming
  <2> QED BY <2>6, <2>7
<1>16. PipeInv(c)
  BY <1>10, <1>11, <1>12, <1>13, <1>14, <1>15 DEF PipeInv
<1> QED BY <1>10, <1>16 DEF c

\* insert, with what it sends.
LEMMA InsertTrue ==
  ASSUME NEW p, PipeInv(p), p.q_id < MaxQueries, NEW sql \in Queries, NEW available \in Nat
  PROVE  LET a == Added(p, sql)
         IN  PipeInv(IF a.waiting <= a.retain THEN a
                     ELSE IssueUnlessPending(IF HavePending(a)
                                             THEN ReceiveIfAvailable(a, available) ELSE a))
<1> DEFINE a == Added(p, sql)
           r == IF HavePending(a) THEN ReceiveIfAvailable(a, available) ELSE a
<1>1. PipeInv(a) /\ a.second # End
  BY AddedTrue
<1> HIDE DEF a
<1>2. PipeInv(r) /\ Kept(a, r)
  <2>1. CASE HavePending(a)
    BY <1>1, <2>1, PendingReceivable, AvailableReceived
  <2>2. CASE ~HavePending(a)
    <3>1. a.first \in Int
      BY <1>1, RangedFacts DEF PipeInv
    <3> QED BY <1>1, <2>2, <3>1 DEF Kept
  <2> QED BY <2>1, <2>2
<1> HIDE DEF r
<1>3. PipeInv(IssueUnlessPending(r))
  <2>1. CASE Ended(r) \/ HavePending(r)
    BY <1>2, <2>1 DEF IssueUnlessPending
  <2>2. CASE ~(Ended(r) \/ HavePending(r))
    <3>1. r.error = qid_limit => r.second # End
      BY <1>1, <1>2 DEF Kept
    <3>2. PipeInv(Issue(r))
      BY <1>2, <2>2, <3>1, IssueTrue
    <3> QED BY <2>2, <3>2 DEF IssueUnlessPending
  <2> QED BY <2>1, <2>2
<1> QED BY <1>1, <1>3 DEF a, r

\* retrieve, until the result has come.
LEMMA WantedTrue ==
  ASSUME NEW p, PipeInv(p), NEW q \in DOMAIN p.queries, NEW available \in Nat
  PROVE  LET z == Wanted(p, q, available)
         IN  /\ PipeInv(z) /\ z.queries = p.queries
             /\ ~Ended(z) /\ z.error = qid_limit => q < z.first
<1> DEFINE toIssue == p.second # End /\ q >= p.second
           x == IF toIssue THEN ReceivePending(p, available) ELSE p
           y == IssueWanted(x, toIssue)
           z == ReceiveWanted(y, q, available)
<1>0. /\ p \in PipeType /\ p.first \in 1 .. End /\ p.second \in 1 .. End
      /\ MaxQueries \in Nat \ {0} /\ DOMAIN p.queries \subseteq 1 .. MaxQueries
      /\ q \in Nat /\ q < End
  <2>1. /\ p \in PipeType /\ p.first \in 1 .. End /\ p.second \in 1 .. End
        /\ MaxQueries \in Nat \ {0} /\ DOMAIN p.queries \subseteq 1 .. MaxQueries
    BY RangedFacts DEF PipeInv
  <2> QED BY <2>1
<1>1. Wanted(p, q, available) = z
  BY DEF Wanted
<1>2. /\ PipeInv(x) /\ Kept(p, x)
      /\ toIssue /\ ~Ended(x) => ~HavePending(x)
      /\ ~toIssue => x = p
  <2>1. CASE toIssue
    BY <2>1, PendingReceived
  <2>2. CASE ~toIssue
    BY <2>2, <1>0 DEF Kept
  <2> QED BY <2>1, <2>2
<1> HIDE DEF x
<1>3. /\ PipeInv(y) /\ y.queries = p.queries
      /\ ~Ended(y) /\ y.error = qid_limit => q < y.second
  <2>1. CASE toIssue /\ ~Ended(x) /\ x.error = qid_limit
    <3>1. y = Issue(x)
      BY <2>1 DEF IssueWanted
    <3>2. x.second # End
      BY <2>1, <1>2 DEF Kept
    <3>3. /\ PipeInv(y) /\ y.queries = x.queries
          /\ ~Ended(y) /\ y.error = qid_limit =>
                y.first = x.second /\ y.second = End /\ HavePending(y)
      BY <2>1, <3>1, <3>2, <1>2, IssueTrue
    <3> HIDE DEF y
    <3> QED BY <3>3, <1>0, <1>2 DEF Kept
  <2>2. CASE ~(toIssue /\ ~Ended(x) /\ x.error = qid_limit)
    <3>1. y = x
      BY <2>2 DEF IssueWanted
    <3>2. ASSUME ~Ended(x), x.error = qid_limit PROVE q < x.second
      <4>1. ~toIssue /\ x = p
        BY <2>2, <3>2, <1>2
      <4> QED BY <4>1, <1>0
    <3> HIDE DEF y
    <3> QED BY <3>1, <3>2, <1>2 DEF Kept
  <2> QED BY <2>1, <2>2
<1> HIDE DEF y
<1>4. /\ y \in PipeType /\ y.first \in 1 .. End /\ y.second \in 1 .. End
      /\ DOMAIN y.queries = DOMAIN p.queries
      /\ y.second \in DOMAIN y.queries \cup {End}
  BY <1>3, RangedFacts DEF PipeInv, Ranged
<1>5. CASE Ended(y) \/ ~HavePending(y)
  <2>1. z = y
    BY <1>5 DEF ReceiveWanted
  <2> HIDE DEF z
  <2> QED BY <2>1, <1>1, <1>3, <1>5 DEF HavePending
<1>6. CASE ~Ended(y) /\ HavePending(y) /\ q >= y.first
  <2> DEFINE stop == After(y, q)
  <2>1. z = Receive(y, stop, available)
    BY <1>6 DEF ReceiveWanted
  <2>2. y.error = qid_limit /\ q < y.second
    BY <1>3, <1>6 DEF PipeInv, Stopped, HavePending
  <2>3. /\ stop \in DOMAIN y.queries \cup {End} /\ stop \in 1 .. End /\ q < stop
        /\ \A r \in DOMAIN y.queries : r > q => stop <= r
    <3>1. DOMAIN y.queries \subseteq 1 .. MaxQueries
      BY <1>0, <1>4
    <3> QED BY <3>1, <1>0, AfterFacts
  <2> HIDE DEF stop, z
  <2>4. stop \in Int
    BY <2>3, <1>0
  <2>5. Ahead(y, stop)
    <3>1. y.first < stop
      BY <2>3, <1>0, <1>4, <1>6
    <3>2. stop <= y.second
      BY <2>2, <2>3, <1>0, <1>4
    <3> QED BY <3>1, <3>2, <2>3, <1>6 DEF Ahead
  <2>6. /\ PipeInv(z) /\ Kept(y, z)
        /\ ~Ended(z) => z.error # qid_limit \/ z.first >= stop
    BY <2>1, <2>4, <2>5, <1>3, <1>6, PendingReceivable, ReceivedTo
  <2>7. z.first \in 1 .. End
    BY <2>6, RangedFacts DEF PipeInv
  <2>8. ~Ended(z) /\ z.error = qid_limit => q < z.first
    BY <2>3, <2>4, <2>6, <2>7, <1>0
  <2> QED BY <2>6, <2>8, <1>1, <1>3 DEF Kept
<1>7. CASE ~Ended(y) /\ HavePending(y) /\ ~(q >= y.first)
  <2>1. z = ReceiveIfAvailable(y, available)
    BY <1>7 DEF ReceiveWanted
  <2> HIDE DEF z
  <2>2. PipeInv(z) /\ Kept(y, z)
    BY <2>1, <1>3, <1>7, PendingReceivable, AvailableReceived
  <2>3. z.first \in 1 .. End
    BY <2>2, RangedFacts DEF PipeInv
  <2>4. z.first >= y.first
    BY <2>2 DEF Kept
  <2>5. q < z.first
    BY <2>3, <2>4, <1>0, <1>4, <1>7
  <2> QED BY <2>2, <2>5, <1>1, <1>3 DEF Kept
<1> QED BY <1>5, <1>6, <1>7

\* retrieve, once the result has come: it is the result of the query.
LEMMA ReturnedTrue ==
  ASSUME NEW p, PipeInv(p), NEW q \in DOMAIN p.queries, q < p.first
  PROVE  PipeInv(Returned(p, q))
<1> DEFINE e == Erased(p, {q})
           r == p.res[q]
           t == e.told \cup {<<q, r>>}
           c == [e EXCEPT !.told = @ \cup {<<q, r>>}]
<1>0. p \in PipeType /\ DOMAIN p.queries \subseteq 1 .. MaxQueries /\ DOMAIN p.res = DOMAIN p.queries
  BY RangedFacts DEF PipeInv
<1>1. PipeInv(e) /\ e.told = p.told
  <2>1. /\ PipeInv([e EXCEPT !.first = p.first]) /\ [e EXCEPT !.first = p.first].told = p.told
        /\ [e EXCEPT !.first = p.first] = e
    <3>1. \A x \in {q} \cap DOMAIN p.queries : x < p.first
      OBVIOUS
    <3> QED BY <3>1, ForgetTrue
  <2> HIDE DEF e
  <2> QED BY <2>1
<1>2. PipeInv(Throw(e, "sql_error"))
  <2> HIDE DEF e
  <2> QED BY <1>1, ThrowTrue DEF Throw, Thrown
<1>3. ASSUME r.ok PROVE PipeInv(c)
  <2>1. r \in PipeResults /\ r.of = q /\ q \in Nat
    <3>1. p.res \in Maps(PipeResults)
      BY <1>0 DEF PipeType
    <3>2. q \in 1 .. MaxQueries
      BY <1>0
    <3> QED BY <3>1, <3>2, <1>0, <1>3, MapFacts, PipelineAssumption DEF PipeInv, Answered
  <2> HIDE DEF e, r
  <2>2. e \in PipeType
    BY <1>1, RangedFacts DEF PipeInv
  <2>3. t \in SUBSET (Nat \X PipeResults)
    BY <2>1, <2>2 DEF PipeType
  <2> HIDE DEF t
  <2>4. c = [e EXCEPT !.told = t]
    BY DEF t
  <2> HIDE DEF c
  <2>5. /\ c \in PipeType
        /\ c.queries = e.queries /\ c.res = e.res /\ c.first = e.first /\ c.second = e.second
        /\ c.waiting = e.waiting /\ c.q_id = e.q_id /\ c.dummy = e.dummy /\ c.wire = e.wire
        /\ c.failed = e.failed /\ c.effects = e.effects /\ c.told = t /\ c.error = e.error
    BY <2>2, <2>3, <2>4 DEF PipeType
  <2>6. Ranged(c) /\ Counted(c) /\ Stopped(c)
    BY <1>1, <2>5 DEF PipeInv, Ranged, Counted, Stopped, Between
  <2>7. Fresh(c) /\ Answered(c)
    BY <1>1, <2>5 DEF PipeInv, Fresh, Answered
  <2>8. HavePending(c) => Coming(c)
    BY <1>1, <2>5 DEF PipeInv, HavePending, Coming, Botched
  <2>9. Told(c)
    <3>1. \A x \in e.told : x[1] = x[2].of
      BY <1>1 DEF PipeInv, Told
    <3> QED BY <2>1, <2>5, <3>1 DEF Told, t
  <2> QED BY <2>6, <2>7, <2>8, <2>9 DEF PipeInv
<1>4. CASE Ended(p)
  BY <1>4 DEF Returned
<1>5. CASE ~Ended(p) /\ r.ok
  <2>1. Returned(p, q) = c
    BY <1>5 DEF Returned
  <2> HIDE DEF c, r
  <2> QED BY <2>1, <1>3, <1>5
<1>6. CASE ~Ended(p) /\ ~r.ok
  <2>1. Returned(p, q) = Throw(e, "sql_error")
    BY <1>6 DEF Returned
  <2> HIDE DEF e
  <2> QED BY <2>1, <1>2
<1> QED BY <1>4, <1>5, <1>6

\* retrieve.
LEMMA RetrieveTrue ==
  ASSUME NEW p, PipeInv(p), NEW q \in DOMAIN p.queries, NEW available \in Nat
  PROVE  PipeInv(RetrieveWanted(Wanted(p, q, available), q))
<1> DEFINE z == Wanted(p, q, available)
           u == IssueIfIdle(z)
<1>1. /\ PipeInv(z) /\ z.queries = p.queries
      /\ ~Ended(z) /\ z.error = qid_limit => q < z.first
  BY WantedTrue
<1> HIDE DEF z
<1>2. /\ z.first \in 1 .. End /\ z.error \in 0 .. qid_limit /\ MaxQueries \in Nat \ {0}
      /\ DOMAIN p.queries \subseteq 1 .. MaxQueries /\ q \in 1 .. MaxQueries
  <2>1. /\ z.first \in 1 .. End /\ z.error \in 0 .. qid_limit /\ MaxQueries \in Nat \ {0}
        /\ DOMAIN z.queries \subseteq 1 .. MaxQueries
    BY <1>1, RangedFacts DEF PipeInv
  <2> QED BY <2>1, <1>1
<1>3. CASE Ended(z)
  BY <1>1, <1>3 DEF RetrieveWanted, z
<1>4. CASE ~Ended(z) /\ TooLate(z, q)
  <2>1. RetrieveWanted(z, q) = Throw(z, "runtime_error")
    BY <1>4 DEF RetrieveWanted
  <2> QED BY <2>1, <1>1, ThrowTrue DEF Throw, Thrown, z
<1>5. CASE ~Ended(z) /\ ~TooLate(z, q)
  <2>1. RetrieveWanted(z, q) = Returned(u, q)
    BY <1>5 DEF RetrieveWanted
  <2>2. q < z.first
    <3>1. CASE z.error = qid_limit
      BY <3>1, <1>1, <1>5
    <3>2. CASE z.error # qid_limit
      <4>1. z.error <= z.first
        BY <3>2, <1>1 DEF PipeInv, Stopped
      <4>2. q < z.error
        BY <1>2, <1>5 DEF TooLate
      <4> QED BY <4>1, <4>2, <1>2
    <3> QED BY <3>1, <3>2
  <2>3. PipeInv(u) /\ u.queries = z.queries /\ u.first >= z.first
    <3>1. CASE z.waiting # 0 /\ ~HavePending(z) /\ z.error = qid_limit
      BY <3>1, <1>1, WaitingIssuable, IssueTrue DEF IssueIfIdle
    <3>2. CASE ~(z.waiting # 0 /\ ~HavePending(z) /\ z.error = qid_limit)
      BY <3>2, <1>1, <1>2 DEF IssueIfIdle
    <3> QED BY <3>1, <3>2
  <2> HIDE DEF u
  <2>4. u.first \in 1 .. End
    BY <2>3, RangedFacts DEF PipeInv
  <2>5. q < u.first /\ q \in DOMAIN u.queries
    BY <2>2, <2>3, <2>4, <1>1, <1>2
  <2>6. PipeInv(Returned(u, q))
    BY <2>3, <2>5, ReturnedTrue
  <2> QED BY <2>1, <2>6 DEF z
<1> QED BY <1>3, <1>4, <1>5

\* An empty pipeline.
LEMMA EmptyTrue ==
  ASSUME NEW c \in PipeType, c.queries = NoPipe.queries, c.res = NoPipe.res,
         c.first = End, c.second = End, c.waiting = 0, c.error = qid_limit,
         c.effects = NoPipe.effects, c.told = {}
  PROVE  PipeInv(c)
<1>0. MaxQueries \in Nat \ {0}
  BY PipelineAssumption
<1>1. DOMAIN c.queries = {} /\ DOMAIN c.res = {}
  BY DEF NoPipe
<1>2. \A q \in 1 .. MaxQueries : c.effects[q] = 0
  BY DEF NoPipe
<1>3. Ranged(c) /\ ~HavePending(c)
  BY <1>0, <1>1 DEF Ranged, HavePending
<1>4. Counted(c)
  <2>1. {q \in DOMAIN c.queries : End <= q /\ q < End} = {}
    BY <1>1
  <2>2. Between(c, End, End) = 0
    BY <2>1, FS_EmptySet DEF Between
  <2> QED BY <2>2 DEF Counted
<1>5. Stopped(c) /\ Told(c) /\ Fresh(c) /\ Answered(c)
  BY <1>1, <1>2 DEF Stopped, Told, Fresh, Answered
<1> QED BY <1>3, <1>4, <1>5 DEF PipeInv

\* The pipeline that was not made yet is of its type.
LEMMA NoPipeType == NoPipe \in PipeType
<1>0. MaxQueries \in Nat \ {0}
  BY PipelineAssumption
<1> DEFINE eq == [q \in {} |-> "good"]
           er == [q \in {} |-> NoResult]
           ne == [q \in 1 .. MaxQueries |-> 0]
<1>1. eq \in Maps(Queries) /\ er \in Maps(PipeResults)
  <2>1. eq \in [{} -> Queries] /\ er \in [{} -> PipeResults]
    OBVIOUS
  <2> HIDE DEF eq, er
  <2> QED BY <2>1, MapIntro
<1>2. ne \in [1 .. MaxQueries -> Nat]
  OBVIOUS
<1>3. PICK b \in BOOLEAN : b = FALSE
  OBVIOUS
<1>4. NoPipe = [alive |-> b, registered |-> b, block |-> b, queries |-> eq, res |-> er,
                first |-> End, second |-> End, retain |-> 0, waiting |-> 0, q_id |-> 0,
                dummy |-> b, error |-> qid_limit, thrown |-> "none", wire |-> <<>>,
                busy |-> b, failed |-> b, effects |-> ne, told |-> {}]
  BY <1>3 DEF NoPipe
<1> HIDE DEF eq, er, ne
<1>5. <<>> \in Seq(PipeResults) /\ End \in 1 .. End /\ qid_limit \in 0 .. qid_limit
      /\ 0 \in 0 .. MaxQueries
  BY <1>0
<1> DEFINE w == <<>>
<1> HIDE DEF w
<1> QED BY <1>1, <1>2, <1>4, <1>5 DEF PipeType

\* There is no query at first.
LEMMA InitPipe == PipeInit => PipeInv(pipe)
<1> SUFFICES ASSUME pipe = NoPipe PROVE PipeInv(pipe)
  BY DEF PipeInit
<1>1. /\ NoPipe.first = End /\ NoPipe.second = End /\ NoPipe.waiting = 0
      /\ NoPipe.error = qid_limit /\ NoPipe.told = {}
  BY DEF NoPipe
<1> QED BY <1>1, NoPipeType, EmptyTrue

\* Every step keeps the invariant.
LEMMA NextPipe == PipeInv(pipe) /\ [PipeNext]_pipe => PipeInv(pipe')
<1> SUFFICES ASSUME PipeInv(pipe), [PipeNext]_pipe PROVE PipeInv(pipe')
  OBVIOUS
<1>0. pipe \in PipeType /\ MaxQueries \in Nat \ {0}
  BY RangedFacts DEF PipeInv
<1>1. /\ PipeInv(Calling)
      /\ Calling.queries = pipe.queries /\ Calling.first = pipe.first
      /\ Calling.second = pipe.second
  <2>1. PipeInv(Calling)
    BY ThrowTrue DEF Calling, Thrown
  <2> QED BY <2>1, <1>0 DEF Calling, PipeType
<1>2. CASE UNCHANGED pipe
  BY <1>2
<1>3. ASSUME NEW block \in BOOLEAN, Start(block) PROVE PipeInv(pipe')
  <2> DEFINE c == [NoPipe EXCEPT !.alive = TRUE, !.registered = TRUE, !.block = block]
  <2>1. pipe' = c
    BY <1>3 DEF Start
  <2>2. PICK b \in BOOLEAN : b = TRUE
    OBVIOUS
  <2>3. c = [NoPipe EXCEPT !.alive = b, !.registered = b, !.block = block]
    BY <2>2
  <2>4. /\ NoPipe.first = End /\ NoPipe.second = End /\ NoPipe.waiting = 0
        /\ NoPipe.error = qid_limit /\ NoPipe.told = {}
    BY DEF NoPipe
  <2> HIDE DEF c
  <2>5. /\ c \in PipeType /\ c.queries = NoPipe.queries /\ c.res = NoPipe.res
        /\ c.first = NoPipe.first /\ c.second = NoPipe.second /\ c.waiting = NoPipe.waiting
        /\ c.error = NoPipe.error /\ c.effects = NoPipe.effects /\ c.told = NoPipe.told
    BY <2>3, NoPipeType DEF PipeType
  <2>6. PipeInv(c)
    BY <2>4, <2>5, EmptyTrue
  <2> QED BY <2>1, <2>6
<1>4. PipeInv(Cancelled(Calling))
  <2> DEFINE p == Calling
  <2>1. /\ p \in PipeType /\ p.first \in 1 .. End /\ p.second \in 1 .. End
    BY <1>1, RangedFacts DEF PipeInv
  <2> HIDE DEF p
  <2>2. \A q \in Pending(p) \cap DOMAIN p.queries : q < p.second
    BY DEF Pending
  <2>3. PipeInv([Erased(p, Pending(p)) EXCEPT !.first = p.second])
    BY <2>2, <1>1, ForgetTrue DEF p
  <2> QED BY <2>3 DEF Cancelled, p
<1>5. CASE Cancel
  BY <1>4, <1>5 DEF Cancel
<1>6. CASE DestroyPipe
  <2> DEFINE p == Cancelled(Calling)
             c == [p EXCEPT !.alive = FALSE, !.registered = FALSE]
  <2>1. pipe' = c
    BY <1>6 DEF DestroyPipe
  <2>2. p \in PipeType
    BY <1>4, RangedFacts DEF PipeInv
  <2>3. PICK b \in BOOLEAN : b = FALSE
    OBVIOUS
  <2>4. c = [p EXCEPT !.alive = b, !.registered = b]
    BY <2>3
  <2> HIDE DEF p, c
  <2>5. /\ c \in PipeType
        /\ c.queries = p.queries /\ c.res = p.res /\ c.first = p.first /\ c.second = p.second
        /\ c.waiting = p.waiting /\ c.q_id = p.q_id /\ c.dummy = p.dummy /\ c.wire = p.wire
        /\ c.failed = p.failed /\ c.effects = p.effects /\ c.told = p.told /\ c.error = p.error
    BY <2>2, <2>4 DEF PipeType
  <2>6. PipeInv(c)
    <3>1. PipeInv(p)
      BY <1>4 DEF p
    <3> QED BY <2>5, <3>1, InvSame
  <2> QED BY <2>1, <2>6
<1>7. ASSUME NEW available \in Arrived,
             \/ \E sql \in Queries : Insert(sql, available)
             \/ \E q \in 1 .. MaxQueries : Retrieve(q, available)
             \/ \E n \in {0, 2} : Retain(n, available)
             \/ Resume(available) \/ Complete(available) \/ Flush(available)
      PROVE  PipeInv(pipe')
  <2>0. available \in Nat
    BY <1>0 DEF Arrived
  <2>1. ASSUME NEW sql \in Queries, Insert(sql, available) PROVE PipeInv(pipe')
    <3>1. pipe.q_id < MaxQueries
      BY <2>1 DEF Insert
    <3>2. pipe' = LET a == Added(pipe, sql)
                  IN  IF a.waiting <= a.retain THEN a
                      ELSE IssueUnlessPending(IF HavePending(a)
                                              THEN ReceiveIfAvailable(a, available) ELSE a)
      BY <2>1 DEF Insert
    <3> QED BY <2>0, <3>1, <3>2, InsertTrue
  <2>2. ASSUME NEW q \in 1 .. MaxQueries, Retrieve(q, available) PROVE PipeInv(pipe')
    <3>1. q \in DOMAIN Calling.queries
      BY <2>2, <1>1 DEF Retrieve
    <3>2. pipe' = IF TooLate(Calling, q) THEN Throw(Calling, "runtime_error")
                  ELSE RetrieveWanted(Wanted(Calling, q, available), q)
      BY <2>2 DEF Retrieve
    <3>3. PipeInv(Throw(Calling, "runtime_error"))
      BY <1>1, ThrowTrue DEF Throw, Thrown
    <3>4. PipeInv(RetrieveWanted(Wanted(Calling, q, available), q))
      BY <2>0, <3>1, <1>1, RetrieveTrue
    <3> QED BY <3>2, <3>3, <3>4
  <2>3. ASSUME NEW n \in {0, 2}, Retain(n, available) PROVE PipeInv(pipe')
    <3> DEFINE p == Calling
               c == [p EXCEPT !.retain = n]
    <3>1. pipe' = IF c.waiting >= n THEN Resumed(c, available) ELSE c
      BY <2>3 DEF Retain
    <3>2. p \in PipeType /\ PipeInv(p)
      BY <1>1, RangedFacts DEF PipeInv
    <3> HIDE DEF p
    <3>n. n \in Nat
      OBVIOUS
    <3>3. /\ c \in PipeType
          /\ c.queries = p.queries /\ c.res = p.res /\ c.first = p.first /\ c.second = p.second
          /\ c.waiting = p.waiting /\ c.q_id = p.q_id /\ c.dummy = p.dummy /\ c.wire = p.wire
          /\ c.failed = p.failed /\ c.effects = p.effects /\ c.told = p.told /\ c.error = p.error
      BY <3>2, <3>n DEF PipeType
    <3> HIDE DEF c
    <3>4. PipeInv(c)
      BY <3>2, <3>3, InvSame
    <3>5. PipeInv(Resumed(c, available))
      BY <2>0, <3>4, ResumeTrue
    <3> QED BY <3>1, <3>4, <3>5
  <2>4. CASE Resume(available)
    BY <2>0, <2>4, <1>1, ResumeTrue DEF Resume
  <2>5. CASE Complete(available)
    BY <2>0, <2>5, <1>1, CompleteTrue, DetachTrue DEF Complete
  <2>6. CASE Flush(available)
    <3>1. pipe' = Detached(IF DOMAIN pipe.queries = {} THEN Calling
                           ELSE Emptied(ReceivePending(Calling, available)))
      BY <2>6 DEF Flush
    <3>2. PipeInv(ReceivePending(Calling, available))
      BY <2>0, <1>1, PendingReceived
    <3>3. PipeInv(Emptied(ReceivePending(Calling, available)))
      BY <3>2, EmptiedTrue
    <3> QED BY <3>1, <3>3, <1>1, DetachTrue
  <2> QED BY <1>7, <2>1, <2>2, <2>3, <2>4, <2>5, <2>6
<1> QED BY <1>2, <1>3, <1>5, <1>6, <1>7 DEF PipeNext

\* The invariant of the pipeline holds for every number of queries, however the calls and
\* the results that have arrived fall together (pipeline.cxx).
THEOREM PipelineInvariant == PipeSpec => []PipeInv(pipe)
<1>1. PipeInit => PipeInv(pipe)
  BY InitPipe
<1>2. PipeInv(pipe) /\ [PipeNext]_pipe => PipeInv(pipe)'
  BY NextPipe
<1> QED BY <1>1, <1>2, PTL DEF PipeSpec

\* retrieve() returns the result of the query that it was asked for (pipeline.cxx:359).
THEOREM RetrievesItsResult == PipeSpec => []ResultsOfTheirQueries
<1>1. PipeInv(pipe) => ResultsOfTheirQueries
  BY DEF PipeInv, Told, ResultsOfTheirQueries
<1> QED BY <1>1, PipelineInvariant, PTL

\* No query takes effect twice, although a failed batch is executed again
\* (pipeline.cxx:313, obtain_dummy).
THEOREM TakesEffectOnce == PipeSpec => []EffectsOnce
<1>1. PipeInv(pipe) => EffectsOnce
  <2> SUFFICES ASSUME PipeInv(pipe), NEW q \in DOMAIN pipe.effects PROVE pipe.effects[q] <= 1
    BY DEF EffectsOnce
  <2>1. pipe.effects \in [1 .. MaxQueries -> Nat]
    BY DEF PipeInv, Ranged, PipeType
  <2> QED BY <2>1 DEF PipeInv, Fresh
<1> QED BY <1>1, PipelineInvariant, PTL

=============================================================================
