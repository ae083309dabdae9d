------------------------------ MODULE PqxxCursor ------------------------------
(***************************************************************************)
(* libpqxx: sql_cursor, which works out from the number of rows it got     *)
(* where the server's cursor stands, and what is built on it:              *)
(* stateless_cursor, icursorstream and its iterators.  Rows are numbered   *)
(* from 1; positions 0 and rows + 1 are before and after them.             *)
(***************************************************************************)
EXTENDS Integers, Sequences, FiniteSets, FiniteSetsExt

CONSTANTS
    MaxRows,        \* bound: rows of the query
    Iterators,      \* icursor_iterator objects
    MaxReqpos,      \* bound: how far iterators are advanced
    MaxStep         \* bound: a stride, and the strides or rows of one call

VARIABLE cursor

ASSUME CursorAssumption == MaxRows \in Nat /\ MaxReqpos \in Nat /\ MaxStep \in Nat

\* An iterator is late if it came to where the stream had been read already.
NoIterator == [on |-> FALSE, pos |-> 0, here |-> <<>>, read |-> FALSE, late |-> FALSE]
NoCursor ==
    [use |-> "none", rows |-> 0, scroll |-> TRUE, open |-> FALSE, owned |-> FALSE,
     at |-> 0,                                      \* where the server's cursor stands
     pos |-> 0, endpos |-> -1, at_end |-> -1,       \* sql_cursor
     stride |-> 1, realpos |-> 0, reqpos |-> 0, done |-> FALSE,
     its |-> [i \in Iterators |-> NoIterator],
     got |-> <<>>,                                  \* what the last call returned
     asked |-> <<>>,                                \* begin_pos and end_pos of the last retrieve
     thrown |-> "none"]

CursorInit == cursor = NoCursor

(***************************************************************************)
(* The server (external).  All is the stride that stands for ALL.          *)
(***************************************************************************)
All == 2 * MaxRows + 4
Upto(a, b) == [k \in 1 .. (IF b >= a THEN b - a + 1 ELSE 0) |-> a + k - 1]
Downto(a, b) == [k \in 1 .. (IF a >= b THEN a - b + 1 ELSE 0) |-> a - k + 1]
\* The rows that a FETCH of n visits, and where it ends.
Lands(c, n) == IF n > 0 THEN Min({c.at + n, c.rows + 1}) ELSE Max({c.at + n, 0})
Visits(c, n) ==
    IF n > 0 THEN Upto(c.at + 1, Min({c.at + n, c.rows})) ELSE Downto(c.at - 1, Max({c.at + n, 1}))

(***************************************************************************)
(* sql_cursor.                                                             *)
(***************************************************************************)
Abs(n) == IF n < 0 THEN -n ELSE n
CursorThrows(c, what) == [c EXCEPT !.thrown = what]

\* Mutant: falling short always makes an extra step.
MutantExtraStep(c, direction) == 1
\* A move that falls short ends one past the rows, where an earlier one may have ended.
ExtraStep(c, direction) == IF c.at_end # direction THEN 1 ELSE 0

\* adjust: the position after a move of hoped that visited actual rows.
Adjust(c, hoped, actual) ==
    LET direction == IF hoped < 0 THEN -1 ELSE 1
        short == actual # Abs(hoped)
        steps == IF short THEN actual + ExtraStep(c, direction) ELSE actual
        hit_end == short /\ direction > 0
        hit_begin == short /\ direction < 0
        from == IF hit_begin /\ c.pos = -1 THEN steps ELSE c.pos
        to == IF from >= 0 THEN from + direction * steps ELSE from
        moved == [c EXCEPT !.pos = to, !.at_end = IF short THEN direction ELSE 0]
    IN  CASE hit_begin /\ from # steps -> CursorThrows(c, "internal_error")
          [] hit_end /\ c.endpos >= 0 /\ to # c.endpos -> CursorThrows(moved, "internal_error")
          [] OTHER -> IF hit_end THEN [moved EXCEPT !.endpos = to] ELSE moved

\* fetch and move: a stride of zero is not sent; a cursor without SCROLL refuses to go back.
FetchRows(c, n) ==
    CASE n = 0 -> [c EXCEPT !.got = <<>>]
      [] n < 0 /\ ~c.scroll -> CursorThrows(c, "sql_error")
      [] OTHER -> Adjust([c EXCEPT !.at = Lands(c, n), !.got = Visits(c, n)], n, Len(Visits(c, n)))
MoveRows(c, n) == [FetchRows(c, n) EXCEPT !.got = c.got]

\* The constructors: a new cursor before the first row; an adopted one anywhere.
Declared(use, rows, scroll) ==
    [NoCursor EXCEPT !.use = use, !.rows = rows, !.scroll = scroll, !.open = TRUE, !.owned = TRUE]
Adopted(use, rows, at, owned) ==
    [Declared(use, rows, TRUE) EXCEPT !.at = at, !.pos = -1, !.at_end = 0, !.owned = owned]

Unborn == cursor.use = "none"
Using(use) == cursor.use = use /\ cursor.open /\ cursor.thrown = "none"

Declare(rows, scroll) == Unborn /\ cursor' = Declared("sql", rows, scroll)
Adopt(rows, at, owned) == Unborn /\ cursor' = Adopted("sql", rows, at, owned)
Fetch(n) == Using("sql") /\ cursor' = FetchRows(cursor, n)
Move(n) == Using("sql") /\ cursor' = MoveRows(cursor, n)

\* close and the destructors: what is owned is closed; the object is not used again.
Close ==
    /\ ~Unborn /\ cursor.open
    /\ \A i \in Iterators : ~cursor.its[i].on
    /\ cursor' = [NoCursor EXCEPT !.use = "closed", !.open = ~cursor.owned]

(***************************************************************************)
(* stateless_cursor.                                                       *)
(***************************************************************************)
DeclareStateless(rows) == Unborn /\ cursor' = Declared("stateless", rows, TRUE)
\* An adopted cursor is first put in a known position.
AdoptStateless(rows, at) ==
    Unborn /\ cursor' = MoveRows(Adopted("stateless", rows, at, TRUE), -All)

\* obtain_stateless_cursor_size, which may move to the end.
Sized(c) == IF c.endpos = -1 THEN MoveRows(c, All) ELSE c
Size(c) == c.endpos - 1

\* Mutant: the move starts from the server's numbering of rows.
MutantMoveTo(c, begin_pos, direction) == (begin_pos - direction) - c.pos
\* The move to just before the first row wanted; row begin_pos is the server's begin_pos + 1.
MoveTo(c, begin_pos, direction) == (begin_pos - direction) - (c.pos - 1)
\* stateless_cursor_retrieve.
Retrieved(c, begin_pos, end_pos) ==
    LET size == Size(c)
        stop == IF end_pos < -1 THEN -1 ELSE IF end_pos > size THEN size ELSE end_pos
        direction == IF begin_pos < stop THEN 1 ELSE -1
        moved == MoveRows(c, MoveTo(c, begin_pos, direction))
    IN  CASE begin_pos < 0 \/ begin_pos > size -> [c EXCEPT !.got = <<>>, !.asked = <<>>]
          [] begin_pos \in 0 .. size /\ begin_pos = stop ->
                [c EXCEPT !.got = <<>>, !.asked = <<begin_pos, end_pos>>]
          [] OTHER -> IF moved.thrown # "none" THEN moved
                      ELSE [FetchRows(moved, stop - begin_pos) EXCEPT !.asked = <<begin_pos, end_pos>>]
RetrieveRows(begin_pos, end_pos) ==
    Using("stateless") /\ cursor' = Retrieved(Sized(cursor), begin_pos, end_pos)

(***************************************************************************)
(* icursorstream and icursor_iterator.                                     *)
(***************************************************************************)
OpenCursorStream(rows, stride) ==
    Unborn /\ cursor' = [Declared("stream", rows, FALSE) EXCEPT !.stride = stride]

\* fetchblock.
FetchBlock(c) ==
    LET f == FetchRows(c, c.stride)
    IN  [f EXCEPT !.realpos = @ + Len(f.got), !.done = @ \/ f.got = <<>>]
\* ignore: as many rows are skipped as there are.
Ignored(c, n) ==
    LET offset == Len(Visits(c, n))
    IN  [MoveRows(c, n) EXCEPT !.realpos = @ + offset, !.done = @ \/ offset < n]

\* Reading the stream itself, while it has no iterators.
NoneOn == \A i \in Iterators : ~cursor.its[i].on
Get == Using("stream") /\ NoneOn /\ cursor' = FetchBlock(cursor)
Ignore(n) == Using("stream") /\ NoneOn /\ cursor' = Ignored(cursor, n)

\* A new iterator is where the next request goes; a copy is where its original is.
NewIterator(i) ==
    /\ Using("stream") /\ ~cursor.its[i].on
    /\ cursor' = [cursor EXCEPT !.its[i] = [NoIterator EXCEPT
          !.on = TRUE, !.pos = cursor.reqpos, !.late = cursor.reqpos < cursor.realpos]]
CopyIterator(i, j) ==
    /\ Using("stream") /\ i # j /\ cursor.its[j].on
    /\ cursor' = [cursor EXCEPT !.its[i] = cursor.its[j]]
DestroyIterator(i) ==
    Using("stream") /\ cursor.its[i].on /\ cursor' = [cursor EXCEPT !.its[i] = NoIterator]

\* operator++ and operator+=, by forward: all iterators share the position of requests.
AdvanceIterator(i, n) ==
    LET reqpos == cursor.reqpos + n * cursor.stride
    IN  /\ Using("stream") /\ cursor.its[i].on /\ reqpos <= MaxReqpos
        /\ cursor' = [cursor EXCEPT
              !.reqpos = reqpos,
              !.its[i] = [@ EXCEPT !.pos = reqpos, !.here = <<>>, !.read = FALSE,
                               !.late = reqpos < cursor.realpos]]

\* Mutant: only the iterator that is read gets the block.
MutantFilled(c, readpos, block) ==
    LET i == CHOOSE i \in Iterators : c.its[i].on /\ c.its[i].pos = readpos
    IN  [c EXCEPT !.its[i].here = block]
\* All iterators at a position get the block that is read there.
Filled(c, readpos, block) ==
    [c EXCEPT !.its = [i \in Iterators |->
        IF @[i].on /\ @[i].pos = readpos THEN [@[i] EXCEPT !.here = block] ELSE @[i]]]
ServiceOne(c, readpos) ==
    LET there == IF readpos > c.realpos THEN Ignored(c, readpos - c.realpos) ELSE c
        b == FetchBlock(there)
    IN  Filled(b, readpos, b.got)
\* service_iterators: the blocks of the iterators up to topos, in the order of positions.
ServiceIterators(c, topos) ==
    LET todo == {c.its[i].pos : i \in {i \in Iterators : c.its[i].on}}
        served[n \in Nat] ==
            IF n = 0 THEN c
            ELSE LET readpos == c.realpos + n - 1
                 IN  IF readpos \in todo THEN ServiceOne(served[n - 1], readpos) ELSE served[n - 1]
    IN  IF topos < c.realpos THEN c ELSE served[topos - c.realpos + 1]
\* operator*: refresh.
ReadIterator(i) ==
    /\ Using("stream") /\ cursor.its[i].on
    /\ cursor' = [ServiceIterators(cursor, cursor.its[i].pos) EXCEPT !.its[i].read = TRUE]

CursorNext ==
    \/ \E rows \in 0 .. MaxRows :
          \/ \E scroll \in BOOLEAN : Declare(rows, scroll)
          \/ \E at \in 0 .. rows + 1 : AdoptStateless(rows, at) \/ \E owned \in BOOLEAN : Adopt(rows, at, owned)
          \/ DeclareStateless(rows)
          \/ \E stride \in 1 .. MaxStep : OpenCursorStream(rows, stride)
    \/ \E n \in (-(MaxRows + 2) .. MaxRows + 2) \cup {All, -All} : Fetch(n) \/ Move(n)
    \/ Close \/ Get
    \/ \E begin_pos, end_pos \in -2 .. MaxRows + 2 : RetrieveRows(begin_pos, end_pos)
    \/ \E n \in 1 .. MaxStep : Ignore(n)
    \/ \E i \in Iterators :
          \/ NewIterator(i) \/ DestroyIterator(i) \/ ReadIterator(i)
          \/ \E j \in Iterators : CopyIterator(i, j)
          \/ \E n \in 1 .. MaxStep : AdvanceIterator(i, n)

CursorSpec == CursorInit /\ [][CursorNext]_cursor

(***************************************************************************)
(* Properties.                                                             *)
(***************************************************************************)
\* After any moves, the positions that the objects worked out, if they are known, are those
\* of the server's cursor: of the cursor, of its end, of a stream; and no move is taken for
\* an impossible one (sql_cursor.cxx:172, adjust; cursor.cxx:123, fetchblock).
PositionsTrue ==
    ~Unborn /\ cursor.use # "closed" =>
        /\ cursor.thrown # "internal_error"
        /\ cursor.pos \in {-1, cursor.at}
        /\ cursor.endpos \in {-1, cursor.rows + 1}
        /\ cursor.use = "stream" => cursor.realpos = Min({cursor.at, cursor.rows})

\* "Retrieve rows from begin_pos (inclusive) to end_pos (exclusive)": the existing rows of
\* that range, in its order, whatever was retrieved before.  One case is not as documented:
\* backwards from one past the last row the step onto that row counts as one of the range,
\* and the row at end_pos comes too (cursor.cxx:58, stateless_cursor_retrieve).
RangeOf(begin_pos, end_pos) ==
    IF begin_pos <= end_pos THEN Upto(begin_pos + 1, Min({end_pos, cursor.rows}))
    ELSE IF begin_pos < cursor.rows THEN Downto(begin_pos + 1, Max({end_pos + 2, 1}))
    ELSE Downto(cursor.rows, Max({end_pos + 1, 1}))
RetrievesRange ==
    cursor.use = "stateless" /\ cursor.asked # <<>> =>
        cursor.got = RangeOf(cursor.asked[1], cursor.asked[2])

\* An iterator that was read holds the rows at its position, although other iterators, before
\* and after it, were read, copied and advanced in between; unless the stream was past that
\* position when the iterator came there (cursor.cxx:184, service_iterators).
IteratorsSeeTheirRows ==
    cursor.use = "stream" =>
        \A i \in Iterators :
            LET it == cursor.its[i]
            IN  it.on /\ it.read /\ ~it.late => it.here = Upto(it.pos + 1, Min({it.pos + cursor.stride, cursor.rows}))

=============================================================================
