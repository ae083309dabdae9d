---------------------------- MODULE JsonDocuments ------------------------------
(***************************************************************************)
(* Pointers, flattening, patches, merges, iterators and containers of      *)
(* json.hpp on all pairs of small documents.                               *)
(***************************************************************************)
EXTENDS JsonContainers, JsonInputs

\* input holds a document, or two of them.
source == input[1]
target == input[2]

Keys == {<<>>, <<Zero>>, <<97>>, <<Tilde, Slash>>}

One == <<"unsigned", 1>>
OnePointZero == <<"float", [negative |-> FALSE, digits |-> <<49>>, exponent |-> 0]>>
Leaf == {Null, One, OnePointZero, String(<<97>>)}
Flat ==
    {Array(a) : a \in UNION {[1 .. n -> Leaf] : n \in 0 .. 2}}
    \cup {Object(f) : f \in UNION {[K -> {Null, One, String(<<97>>)}] : K \in {K \in SUBSET Keys : Cardinality(K) <= 2}}}
Inside == {Array(<<>>), Array(<<One, Null>>), Object(NoMembers), Object(Member(<<>>, One)),
           Object(Member(<<126, 47>>, OnePointZero))}
Long(n) == Array([k \in 1 .. n |-> <<"unsigned", k>>])
Documents ==
    Leaf \cup Flat \cup {Long(12), Long(11)}
    \cup {Array(<<x>>) : x \in Inside} \cup {Array(<<Null, x>>) : x \in Inside}
    \cup {Object(Member(k, x)) : k \in Keys, x \in Inside}
    \cup {Object(With(Member(<<97>>, x), <<98>>, Null)) : x \in Inside}

Single == kind = "documents" /\ Len(input) = 1
Both == kind = "documents" /\ Len(input) = 2

\* patch() with the result of diff() turns the one document into the other, however
\* they are nested: members are removed before others are added, and the elements of
\* an array from its end (json.hpp:24282, diff; json.hpp:24001, patch_inplace).
DiffPatches == Both => Equal(Patch(source, Diff(source, target, <<>>)), target)

\* Flattening loses empty arrays and objects, and the difference between an array and
\* an object whose least key is "0".
RECURSIVE Flattens(_)
Flattens(v) ==
    v[1] \in {"array", "object"} =>
        /\ DOMAIN v[2] # {}
        /\ \A k \in DOMAIN v[2] : Flattens(v[2][k])
        /\ v[1] = "object" /\ <<Zero>> \in DOMAIN v[2] => \E k \in DOMAIN v[2] : KeyLess(k, <<Zero>>)

\* unflatten() puts a flattened document together again, although the paths come in
\* the order of their text, "/10" before "/2" (json.hpp:14540, flatten;
\* json.hpp:14079, get_and_create).
FlattenReadsBack ==
    Single /\ Flattens(source) => Unflatten(Object(Flatten(<<>>, source))) = source

\* Indices that are too long to be one: the largest size_type, and one more.
Oversized == {IndexText(2 ^ IntegerBits - 1), IndexText(2 ^ IntegerBits)}
ReferenceTokens ==
    {<<>>, <<48>>, <<49>>, <<48, 49>>, <<45>>, <<97>>, <<126, 47>>, <<126, 49>>, <<49, 48>>}
    \cup Oversized
Pointers == UNION {[1 .. n -> ReferenceTokens] : n \in 0 .. 2}

\* A pointer survives being written and read.  contains() answers true exactly when
\* at() returns.  Where it throws instead of answering, at() throws the same: it does so
\* for an empty token and for an index beyond size_type, if they are met in an array,
\* and for no other token, in particular for none that is not an index.  What is
\* assigned through operator[] is found by at() afterwards (json.hpp:14383, contains;
\* json.hpp:14227, get_checked; json.hpp:14159, get_unchecked).
PointersAgree ==
    Single => \A p \in Pointers :
        LET found == GetChecked(source, p)
            contained == PointerContains(source, p)
            assigned == Create("unchecked", source, p, String(<<98>>))
            inArray(k) == GetChecked(source, SubSeq(p, 1, k - 1))[1] = "array"
        IN  /\ SplitPointer(PointerToString(p)) = <<"pointer", p>>
            /\ Threw(contained) <=> \E k \in DOMAIN p : p[k] \in {<<>>} \cup Oversized /\ inArray(k)
            /\ IF Threw(contained) THEN found = contained
               ELSE (contained # Discarded) <=> ~Threw(found)
            /\ ~Threw(assigned) /\ Dash \notin Range(p) => GetChecked(assigned, p) = String(<<98>>)

\* An element that is added and, after a test, removed again leaves the document as it
\* was: add moves the elements of an array and remove moves them back.  Moving an
\* element away and back does too (json.hpp:24038, operation_add; json.hpp:24106,
\* operation_remove; json.hpp:24204, move).
PatchesUndo ==
    Single => \A p \in Pointers \ {<<>>} :
        LET path == PointerToString(p)
            parent == GetChecked(source, Front(p))
            old == GetChecked(source, p)
            member(op) == [op |-> op, path |-> path, value |-> String(<<98>>)]
            aside == <<Slash, 122>>
            away == [op |-> "move", path |-> aside, from |-> path]
            back == [op |-> "move", path |-> path, from |-> aside]
        IN  /\ /\ parent[1] = "array" \/ (parent[1] = "object" /\ Threw(old))
               /\ ~Threw(Patch(source, <<member("add")>>)) /\ Last(p) # Dash
               => Patch(source, <<member("add"), member("test"), member("remove")>>) = source
            /\ source[1] = "object" /\ ~Threw(old) => Patch(source, <<away, back>>) = source

RECURSIVE HasNull(_)
HasNull(v) ==
    v = Null \/ (v[1] = "object" /\ \E k \in DOMAIN v[2] : HasNull(v[2][k]))

\* A merge patch does its work once, and without null in it is what update() does when
\* objects are merged, if update() does not throw (json.hpp:24424, merge_patch;
\* json.hpp:22710, update).
MergesAgree ==
    Both =>
        LET merged == MergePatch(source, target)
            updated == Update(source, target, TRUE)
        IN  /\ MergePatch(merged, target) = merged
            /\ source[1] = "object" /\ ~HasNull(target) /\ ~Threw(updated) => updated = merged

(***************************************************************************)
(* Containers.  The document is named j, a second value k.                 *)
(***************************************************************************)
Cuts(v) == {<<first, last>> \in (0 .. SizeOf(v)) \X (0 .. SizeOf(v)) : first <= last}

\* From begin() every element is met once before end(), forwards and counted back from
\* the end; null is empty and any other value has itself as its only element.  find()
\* leads to the element that iteration shows under that key (json.hpp:13065, set_begin;
\* json.hpp:13552, operator[]; json.hpp:21953, find).
IteratorsWalk ==
    Single =>
        LET elements == Elements(source)
            begin == Begin("j", source)
            end == End("j", source)
            at(n) == Moved(begin, n)
        IN  /\ SameIterator(at(Len(elements)), end) = Boolean(TRUE)
            /\ \A n \in DOMAIN elements :
                  /\ Dereference(source, at(n - 1)) = elements[n]
                  /\ IF source[1] = "object"
                     THEN LET key == IteratorKey(source, at(n - 1))[2]
                          IN  FindKey("j", source, key) = at(n - 1)
                     ELSE /\ Subscript(source, end, n - 1 - Len(elements)) = elements[n]
                          /\ Before(source, at(n - 1), end) = Boolean(TRUE)
                          /\ Difference(source, end, at(n - 1)) = <<"difference", Len(elements) - n + 1>>
            /\ elements # <<>> => FrontOf("j", source) = elements[1] /\ BackOf("j", source) = Last(elements)

\* for (it = begin(); it != end();) it = drop it ? erase(it) : next
RECURSIVE EraseIf(_, _, _)
EraseIf(v, it, drop) ==
    IF SameIterator(it, End("j", v))[2] THEN v
    ELSE IF Dereference(v, it) \notin drop THEN EraseIf(v, Increment(it), drop)
    ELSE LET r == EraseAt("j", v, it) IN EraseIf(r.value, r.it, drop)

\* A loop that erases elements while it iterates drops exactly those it is meant to,
\* whatever the type of the value: erase() returns the iterator of the element behind
\* the erased one (json.hpp:21731, erase).
LoopErases ==
    Single => \A a, b \in Range(Elements(source)) :
        Elements(EraseIf(source, Begin("j", source), {a, b}))
            = SelectSeq(Elements(source), LAMBDA x : x \notin {a, b})

\* What a range constructor copies and erase() takes out is what insert() puts back
\* (json.hpp:20334, basic_json(first, last); json.hpp:21801, erase;
\* json.hpp:22634, insert).
CutsRejoin ==
    Single =>
        IF ~IsStructured(source)
        THEN source # Null =>
                /\ FromRange(source, Begin("j", source), End("j", source)) = source
                /\ EraseRange("j", source, Begin("j", source), End("j", source)).value = Null
        ELSE \A cut \in Cuts(source) :
                LET first == Iterator("j", cut[1])
                    last == Iterator("j", cut[2])
                    part == FromRange(source, first, last)
                    rest == EraseRange("j", source, first, last)
                    b == Begin("k", part)
                    e == End("k", part)
                IN  IF source[1] = "array"
                    THEN InsertRange("j", rest.value, rest.it, part, b, e).value = source
                    ELSE InsertMembers(rest.value, part, b, e) = source

\* A container built from its elements by push_back() or an initializer list is the
\* same again, and its destructor meets every value in it once (json.hpp:20204,
\* basic_json(initializer_list); json.hpp:19856, destroy).
RECURSIVE Descendants(_)
Descendants(v) ==
    IF ~IsStructured(v) THEN 0
    ELSE LET elements == Elements(v)
         IN  FoldLeft(LAMBDA n, x : n + 1 + Descendants(x), 0, elements)
Rebuilt ==
    Single /\ IsStructured(source) =>
        LET keys == InOrder(DOMAIN source[2])
            pair(n) == <<String(keys[n]), source[2][keys[n]]>>
        IN  /\ Destroyed(Elements(source)) = Descendants(source)
            /\ IF source[1] = "array"
               THEN /\ FromList(source[2], FALSE, "array") = source
                    /\ source[2] # <<>> => FoldLeft(PushBack, Null, source[2]) = source
                    /\ FoldLeft(EmplaceBack, Clear(source), source[2]) = source
               ELSE /\ FromList([n \in DOMAIN keys |-> Array(pair(n))], FALSE, "object") = source
                    /\ FoldLeft(LAMBDA v, n : PushBackList(v, pair(n)), Clear(source),
                                [n \in DOMAIN keys |-> n]) = source

\* at(), value(), operator[], count() and erase() agree on which keys there are, and
\* emplace() keeps what is there (json.hpp:21528, value; json.hpp:22536, emplace).
LookupsAgree ==
    Single => \A key \in Keys \cup {<<98>>} :
        LET new == String(<<99>>)
            added == Emplace(source, key, new)
        IN  source[1] = "object" =>
                /\ ValueOr(source, key, new) = IF CountKey(source, key) = 1 THEN source[2][key] ELSE new
                /\ ValueAt(source, <<key>>, new) = ValueOr(added, key, Null)
                /\ Elements(KeySubscript(EraseKey(source, key), key)) # <<>>
                /\ EraseKey(added, key) = EraseKey(source, key)

\* An ordered_map holds what a std::map would, in the order of insertion, also after
\* elements in the middle were erased (json.hpp:19166, erase; json.hpp:19211, erase).
OrderedAgrees ==
    Single /\ IsStructured(source) =>
        LET keys == IF source[1] = "array" THEN [n \in DOMAIN source[2] |-> n]
                    ELSE Reverse(InOrder(DOMAIN source[2]))
            m == OrderedInsert(<<>>, [n \in DOMAIN keys |-> <<keys[n], source[2][keys[n]]>>])
            members(o) == Object([k \in {o[n][1] : n \in DOMAIN o} |-> OrderedAt(o, k)])
        IN  IF source[1] = "array"
            THEN \A cut \in Cuts(source) :
                    LET left == OrderedEraseRange(m, cut[1], cut[2])
                    IN  Array([n \in DOMAIN left |-> left[n][2]])
                        = EraseRange("j", source, Iterator("j", cut[1]), Iterator("j", cut[2])).value
            ELSE \A key \in Keys :
                    LET erased == OrderedErase(m, key)
                    IN  /\ members(erased) = EraseKey(source, key)
                        /\ [n \in DOMAIN erased |-> erased[n][1]] = SelectSeq(keys, LAMBDA k : k # key)
                        /\ members(OrderedEmplace(m, key, Null)) = Emplace(source, key, Null)
                        /\ OrderedCount(m, key) = CountKey(source, key)

\* A value keeps its elements through iteration, erasing, cutting and rebuilding, as an
\* object with either type of map.
ContainersAgree ==
    IteratorsWalk /\ LoopErases /\ CutsRejoin /\ Rebuilt /\ LookupsAgree /\ OrderedAgrees

\* Pointers and flattening agree on where the values of a document are.
PathsAgree == FlattenReadsBack /\ PointersAgree

\* Patches and merges do what they are made for and can be undone or repeated.
PatchesAgree == DiffPatches /\ PatchesUndo /\ MergesAgree

=============================================================================
