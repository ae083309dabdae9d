---------------------------- MODULE JsonContainers ----------------------------
(***************************************************************************)
(* include/nlohmann/json.hpp: basic_json as a container, with the          *)
(* iterators of iter_impl, and ordered_map, the other type of an object.   *)
(*                                                                         *)
(* A value has a name, as m_object is a pointer.  m_it is the number of    *)
(* elements before the iterator; for a value that is no array or object it *)
(* is a primitive_iterator_t, 0 at its beginning and 1 at its end.         *)
(***************************************************************************)
EXTENDS JsonPatch

IsStructured(v) == v[1] \in {"array", "object"}

\* The elements in the order of iteration.
Elements(v) ==
    CASE v[1] = "array" -> v[2]
      [] v[1] = "object" ->
            LET keys == InOrder(DOMAIN v[2]) IN [n \in DOMAIN keys |-> v[2][keys[n]]]
      [] v[1] = "null" -> <<>>
      [] OTHER -> <<v>>
SizeOf(v) == Len(Elements(v))

(***************************************************************************)
(* Iterators.                                                              *)
(***************************************************************************)
Iterator(o, n) == [m_object |-> o, m_it |-> n]

\* Null is empty: its beginning is its end.
Begin(o, v) == Iterator(o, IF v[1] = "null" THEN 1 ELSE 0)
End(o, v) == Iterator(o, IF IsStructured(v) THEN SizeOf(v) ELSE 1)

Moved(it, n) == [it EXCEPT !.m_it = @ + n]
Increment(it) == Moved(it, 1)
Decrement(it) == Moved(it, -1)
OffsetBy(v, it, n) == IF v[1] = "object" THEN Throw(209) ELSE <<"iterator", Moved(it, n)>>
Difference(v, a, b) == IF v[1] = "object" THEN Throw(209) ELSE <<"difference", a.m_it - b.m_it>>

\* Only before the end: behind it, an array or object has nothing that could be read.
Dereference(v, it) ==
    CASE IsStructured(v) -> Elements(v)[it.m_it + 1]
      [] ~IsStructured(v) /\ v[1] # "null" /\ it.m_it = 0 -> v
      [] OTHER -> Throw(214)
Subscript(v, it, n) ==
    CASE v[1] = "object" -> Throw(208)
      [] v[1] = "array" -> v[2][it.m_it + n + 1]
      [] v[1] \notin {"object", "array", "null"} /\ it.m_it = -n -> v
      [] OTHER -> Throw(214)
IteratorKey(v, it) ==
    IF v[1] = "object" THEN String(InOrder(DOMAIN v[2])[it.m_it + 1]) ELSE Throw(207)

SameIterator(a, b) ==
    IF a.m_object # b.m_object THEN Throw(212) ELSE Boolean(a.m_it = b.m_it)
Before(v, a, b) ==
    CASE a.m_object # b.m_object -> Throw(212)
      [] a.m_object = b.m_object /\ v[1] = "object" -> Throw(213)
      [] OTHER -> Boolean(a.m_it < b.m_it)
NotAfter(v, a, b) == LET r == Before(v, b, a) IN IF Threw(r) THEN r ELSE Boolean(~r[2])

FrontOf(o, v) == Dereference(v, Begin(o, v))
BackOf(o, v) == Dereference(v, Decrement(End(o, v)))

(***************************************************************************)
(* Lookup.                                                                 *)
(***************************************************************************)
HasKey(v, key) == v[1] = "object" /\ key \in DOMAIN v[2]
FindKey(o, v, key) ==
    IF HasKey(v, key)
    THEN Iterator(o, Cardinality({k \in DOMAIN v[2] : KeyLess(k, key)}))
    ELSE End(o, v)
CountKey(v, key) == IF HasKey(v, key) THEN 1 ELSE 0

\* value(): a default for a key that is missing, or for a pointer that leads nowhere.
\* A pointer with a malformed index is an error all the same.
ValueOr(v, key, default) ==
    IF v[1] # "object" THEN Throw(306) ELSE IF HasKey(v, key) THEN v[2][key] ELSE default
ValueAt(v, ptr, default) ==
    LET found == GetChecked(v, ptr)
    IN  CASE v[1] # "object" -> Throw(306)
          [] v[1] = "object" /\ Threw(found) /\ found[2] \in 401 .. 410 -> default
          [] OTHER -> found

\* operator[] with a key, and the element that it refers to.
KeySubscript(v, key) ==
    LET members == IF v = Null THEN NoMembers ELSE v[2]
    IN  IF v # Null /\ v[1] # "object" THEN Throw(305)
        ELSE IF key \in DOMAIN members THEN Object(members)
        ELSE Object(With(members, key, Null))

(***************************************************************************)
(* Erasing.  The value afterwards, and the iterator that is returned.      *)
(***************************************************************************)
Changed(value, it) == [value |-> value, it |-> it]

\* The elements from first up to, but not including, last.
Without(v, first, last) ==
    IF v[1] = "array"
    THEN Array(SubSeq(v[2], 1, first) \o SubSeq(v[2], last + 1, Len(v[2])))
    ELSE LET keys == InOrder(DOMAIN v[2])
         IN  Object(Restrict(v[2], DOMAIN v[2] \ {keys[n] : n \in first + 1 .. last}))

\* Mutant: the iterator that is returned has passed one more element.
MutantEraseAt(o, v, pos) ==
    CASE pos.m_object # o -> Changed(Throw(202), pos)
      [] pos.m_object = o /\ IsStructured(v) ->
            Changed(Without(v, pos.m_it, pos.m_it + 1),
                   IF pos.m_it + 1 < SizeOf(v) THEN Increment(pos) ELSE pos)
      [] pos.m_object = o /\ v[1] \in {"null", "discarded"} -> Changed(Throw(307), pos)
      [] OTHER -> IF pos.m_it = 0 THEN Changed(Null, End(o, v)) ELSE Changed(Throw(205), pos)

\* A value that is no container becomes null.
EraseAt(o, v, pos) ==
    CASE pos.m_object # o -> Changed(Throw(202), pos)
      [] pos.m_object = o /\ IsStructured(v) -> Changed(Without(v, pos.m_it, pos.m_it + 1), pos)
      [] pos.m_object = o /\ v[1] \in {"null", "discarded"} -> Changed(Throw(307), pos)
      [] OTHER -> IF pos.m_it = 0 THEN Changed(Null, End(o, v)) ELSE Changed(Throw(205), pos)

EraseRange(o, v, first, last) ==
    LET fit == first.m_object = o /\ last.m_object = o
    IN  CASE ~fit -> Changed(Throw(203), first)
          [] fit /\ IsStructured(v) -> Changed(Without(v, first.m_it, last.m_it), first)
          [] fit /\ v[1] \in {"null", "discarded"} -> Changed(Throw(307), first)
          [] OTHER -> IF first.m_it = 0 /\ last.m_it = 1 THEN Changed(Null, End(o, v))
                      ELSE Changed(Throw(204), first)

EraseKey(v, key) ==
    IF v[1] # "object" THEN Throw(307) ELSE Object(Restrict(v[2], DOMAIN v[2] \ {key}))
EraseIndex(v, idx) ==
    CASE v[1] # "array" -> Throw(307)
      [] v[1] = "array" /\ idx >= SizeOf(v) -> Throw(401)
      [] OTHER -> Without(v, idx, idx + 1)

(***************************************************************************)
(* Adding.                                                                 *)
(***************************************************************************)
AsArray(v) == IF v = Null THEN <<>> ELSE v[2]
Add(v, x, id) == IF v = Null \/ v[1] = "array" THEN Array(Append(AsArray(v), x)) ELSE Throw(id)
PushBack(v, x) == Add(v, x, 308)
EmplaceBack(v, x) == Add(v, x, 311)

\* A key that is there keeps its value.
AddMember(v, key, x, id) ==
    LET members == IF v = Null THEN NoMembers ELSE v[2]
    IN  IF v # Null /\ v[1] # "object" THEN Throw(id)
        ELSE IF key \in DOMAIN members THEN v ELSE Object(With(members, key, x))
PushBackMember(v, key, x) == AddMember(v, key, x, 308)
Emplace(v, key, x) == AddMember(v, key, x, 311)

\* basic_json(initializer_list): a list of pairs is an object, if that is not ruled out.
IsPair(x) == x[1] = "array" /\ SizeOf(x) = 2 /\ x[2][1][1] = "string"
FromList(list, type_deduction, manual_type) ==
    LET pairs == \A n \in DOMAIN list : IsPair(list[n])
        is_an_object == pairs /\ (type_deduction \/ manual_type # "array")
        member(members, x) ==
            IF x[2][1][2] \in DOMAIN members THEN members ELSE With(members, x[2][1][2], x[2][2])
    IN  CASE ~type_deduction /\ manual_type = "object" /\ ~pairs -> Throw(301)
          [] is_an_object -> Object(FoldLeft(member, NoMembers, list))
          [] OTHER -> Array(list)

PushBackList(v, list) ==
    IF v[1] = "object" /\ Len(list) = 2 /\ list[1][1] = "string"
    THEN PushBackMember(v, list[1][2], list[2])
    ELSE PushBack(v, FromList(list, TRUE, "array"))

\* insert: one element, several, or those of a list.
InsertElements(o, v, pos, xs) ==
    CASE v[1] # "array" -> Changed(Throw(309), pos)
      [] v[1] = "array" /\ pos.m_object # o -> Changed(Throw(202), pos)
      [] OTHER -> Changed(Array(SubSeq(v[2], 1, pos.m_it) \o xs
                               \o SubSeq(v[2], pos.m_it + 1, Len(v[2]))), pos)

\* The elements of another value.  Its array_iterators are used even where it is no
\* array: there they are equal to each other and nothing is inserted.
InsertRange(o, v, pos, other, first, last) ==
    LET xs == IF other[1] = "array" THEN SubSeq(other[2], first.m_it + 1, last.m_it) ELSE <<>>
        fits == v[1] = "array" /\ pos.m_object = o
    IN  CASE ~fits -> InsertElements(o, v, pos, <<>>)
          [] fits /\ first.m_object # last.m_object -> Changed(Throw(210), pos)
          [] fits /\ first.m_object = last.m_object /\ first.m_object = o -> Changed(Throw(211), pos)
          [] OTHER -> InsertElements(o, v, pos, xs)

\* The members of another object; keys that are there keep their values.
InsertMembers(v, other, first, last) ==
    LET keys == InOrder(DOMAIN other[2])
        new == {keys[n] : n \in first.m_it + 1 .. last.m_it} \ DOMAIN v[2]
    IN  CASE v[1] # "object" -> Throw(309)
          [] v[1] = "object" /\ first.m_object # last.m_object -> Throw(210)
          [] v[1] = "object" /\ first.m_object = last.m_object /\ other[1] # "object" -> Throw(202)
          [] OTHER -> Object([k \in DOMAIN v[2] \cup new |-> IF k \in new THEN other[2][k] ELSE v[2][k]])

\* basic_json(first, last), for the value v that the iterators belong to.
FromRange(v, first, last) ==
    LET same == first.m_object = last.m_object
    IN  CASE ~same -> Throw(201)
          [] same /\ v[1] = "array" -> Array(SubSeq(v[2], first.m_it + 1, last.m_it))
          [] same /\ v[1] = "object" ->
                LET keys == InOrder(DOMAIN v[2])
                IN  Object(Restrict(v[2], {keys[n] : n \in first.m_it + 1 .. last.m_it}))
          [] same /\ v[1] \in {"null", "discarded"} -> Throw(206)
          [] OTHER -> IF v[1] = "binary" \/ (first.m_it = 0 /\ last.m_it = 1) THEN v ELSE Throw(204)

\* clear(): the value that its type starts with.
Clear(v) ==
    CASE v[1] = "array" -> Array(<<>>)
      [] v[1] = "object" -> Object(NoMembers)
      [] v[1] = "string" -> String(<<>>)
      [] v[1] = "boolean" -> Boolean(FALSE)
      [] v[1] \in {"integer", "unsigned"} -> <<v[1], 0>>
      [] v[1] = "float" -> <<"float", [negative |-> FALSE, digits |-> <<>>, exponent |-> 0]>>
      [] OTHER -> v

\* json_value::destroy: the values that the stack has held when it is empty again.
RECURSIVE Destroyed(_)
Destroyed(stack) ==
    IF stack = <<>> THEN 0
    ELSE LET current_item == Last(stack)
         IN  1 + Destroyed(Front(stack)
                           \o (IF IsStructured(current_item) THEN Elements(current_item) ELSE <<>>))

(***************************************************************************)
(* ordered_map: a vector of pairs, the keys in the order of insertion.     *)
(***************************************************************************)
OrderedFind(m, key) ==
    LET n == SelectInSeq(m, LAMBDA e : e[1] = key) IN IF n = 0 THEN Len(m) ELSE n - 1
OrderedEmplace(m, key, x) ==
    IF OrderedFind(m, key) = Len(m) THEN Append(m, <<key, x>>) ELSE m
\* at(): std::out_of_range has no number of its own; 403 is that of basic_json's at().
OrderedAt(m, key) ==
    IF OrderedFind(m, key) = Len(m) THEN Throw(403) ELSE m[OrderedFind(m, key) + 1][2]
OrderedCount(m, key) == IF OrderedFind(m, key) = Len(m) THEN 0 ELSE 1
OrderedInsert(m, entries) == FoldLeft(LAMBDA a, e : OrderedEmplace(a, e[1], e[2]), m, entries)

\* The elements behind are constructed again in place, and the last is dropped.
OrderedErase(m, key) ==
    LET it == OrderedFind(m, key)
        moved == [n \in DOMAIN m |-> IF n > it /\ n < Len(m) THEN m[n + 1] ELSE m[n]]
    IN  IF it = Len(m) THEN m ELSE Front(moved)
OrderedEraseRange(m, first, last) ==
    LET elements_affected == last - first
        moved == [n \in DOMAIN m |-> IF n > first /\ n + elements_affected <= Len(m)
                                     THEN m[n + elements_affected] ELSE m[n]]
    IN  SubSeq(moved, 1, Len(m) - elements_affected)

=============================================================================
